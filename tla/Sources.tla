------------------------------ MODULE Sources ------------------------------
(* Loads of the sources of truth (sources/service.py, sources/workbook.py): a *)
(* sync downloads without any lock, commits one load under the process lock,  *)
(* then asks for the detection of stale decisions. A run or a reprocess syncs *)
(* every live source first, one after the other.                              *)
EXTENDS ProcessState

\* The outside system changes what it says.
ChangeWorld(name) ==
    /\ world[name].at < MaxChanges
    /\ \E rows \in Contents \ {world[name].rows} :
           world' = [world EXCEPT ![name] = [rows |-> rows, at |-> @.at + 1]]
    /\ UNCHANGED <<caseVars, runVars, versionVars, loads, calls, alerts, proposals>>

\* Where a request goes once a source is done with: the next live source, then the
\* decision; a sync, an upload and a publication end here.
Resume(call) ==
    IF call.op \in {"run", "reprocess"}
    THEN [call EXCEPT !.pc = IF call.todo = {} THEN "execute" ELSE "sync",
                      !.names = {}, !.fetched = NoCall.fetched, !.flips = {}]
    ELSE NoCall

\* The same when the source failed: it is down for this run.
Failed(call, names) == Resume([call EXCEPT !.down = @ \union names])

StartSync(c, name) ==
    /\ "sync" \in Ops
    /\ Idle(c)
    /\ calls' = [calls EXCEPT ![c] = [@ EXCEPT !.op = "sync", !.pc = "sync", !.todo = {name}]]
    /\ UNCHANGED <<caseVars, runVars, versionVars, sourceVars, alerts, proposals>>

Download(c) ==
    /\ calls[c].pc = "sync"
    /\ \E name \in calls[c].todo :
           calls' = [calls EXCEPT ![c] =
              [calls[c] EXCEPT !.pc = "commit", !.todo = @ \ {name}, !.names = {name},
                               !.fetched = world[name]]]
    /\ UNCHANGED <<caseVars, runVars, versionVars, sourceVars, alerts, proposals>>

\* The connector gives up, or the rows are not in the canonical schema.
DownloadFails(c) ==
    /\ "outage" \in Ops
    /\ calls[c].pc = "sync"
    /\ \E name \in calls[c].todo :
           calls' = [calls EXCEPT ![c] = Failed([calls[c] EXCEPT !.todo = @ \ {name}], {name})]
    /\ UNCHANGED <<caseVars, runVars, versionVars, sourceVars, alerts, proposals>>

\* The load that is committed, and whether its rows differ from the load before it.
NewLoad(c, name) ==
    [name |-> name, rows |-> calls[c].fetched.rows, at |-> calls[c].fetched.at]
Differs(name, rows) == Named(name) = {} \/ loads[LastOf(Named(name))].rows # rows

CommitLoad(c) ==
    /\ calls[c].pc = "commit"
    /\ Len(loads) < MaxLoads
    /\ \E name \in calls[c].names :
           LET done == [calls[c] EXCEPT !.got[name] = Len(loads) + 1]
           IN  /\ loads' = Append(loads, NewLoad(c, name))
               /\ calls' = [calls EXCEPT ![c] =
                     IF Differs(name, calls[c].fetched.rows)
                     THEN [done EXCEPT !.pc = "recheck"]
                     ELSE Resume(done)]
    /\ UNCHANGED <<caseVars, runVars, versionVars, world, alerts, proposals>>

\* load_workbook: every table of the workbook in one transaction.
LoadWorkbook(c, names) ==
    /\ "workbook" \in Ops
    /\ Idle(c)
    /\ Len(loads) + Cardinality(names) <= MaxLoads
    /\ \E order \in [1..Cardinality(names) -> names], rows \in [names -> Contents] :
           /\ {order[k] : k \in DOMAIN order} = names
           /\ loads' = loads \o [k \in DOMAIN order |->
                          [name |-> order[k], rows |-> rows[order[k]], at |-> 0]]
    /\ calls' = [calls EXCEPT ![c] =
          [@ EXCEPT !.op = "workbook", !.pc = "recheck", !.names = names]]
    /\ UNCHANGED <<caseVars, runVars, versionVars, world, alerts, proposals>>

SourcesNext ==
    \/ \E name \in Sources : ChangeWorld(name)
    \/ \E c \in Clients :
          \/ \E name \in Connected : StartSync(c, name)
          \/ Download(c) \/ DownloadFails(c) \/ CommitLoad(c)
          \/ \E names \in SUBSET (Sources \ Connected) \ {{}} : LoadWorkbook(c, names)
=============================================================================
