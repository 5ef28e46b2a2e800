------------------------------- MODULE Cases -------------------------------
(* Ingestion as the process sees it: a document becomes a case, and a case    *)
(* that nobody decided yet may be read again (ingestion/process_service.py,   *)
(* ingestion/process_extraction.py). What the readers do is another component.*)
EXTENDS ProcessState

\* A document that is uploaded again starts its case again.
AttachedAfresh(case, reading) == [status |-> "PENDING", reading |-> reading]

\* attach_document: a new document is a PENDING case, with or without a reading. The
\* same document again finds the case and changes nothing of it.
Attached(case, reading) ==
    IF case.status = "ABSENT" THEN [status |-> "PENDING", reading |-> reading] ELSE case

Upload(i, reading) ==
    /\ "upload" \in Ops
    /\ cases' = [cases EXCEPT ![i] = Attached(@, reading)]
    /\ UNCHANGED <<history, runVars, versionVars, sourceVars, calls, alerts, proposals>>

\* reextract_document: only a PENDING case, under the lock a run holds while it decides.
Reextract(i, reading) ==
    /\ "reextract" \in Ops
    /\ cases[i].status = "PENDING"
    /\ cases' = [cases EXCEPT ![i].reading = reading]
    /\ UNCHANGED <<history, runVars, versionVars, sourceVars, calls, alerts, proposals>>

CasesNext ==
    \E i \in Instances, reading \in Readings \union {NoReading} :
        Upload(i, reading) \/ Reextract(i, reading)
=============================================================================
