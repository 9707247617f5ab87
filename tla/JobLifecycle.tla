---------------------------- MODULE JobLifecycle ----------------------------
(***************************************************************************)
(* What the ingest API promises about a bulk job, with no workers, channel, *)
(* store or process in sight: a job is submitted with a set of items, it    *)
(* may be announced as running, every item settles once, and the job is     *)
(* closed once, after its last item, with the verdict its items justify.    *)
(* (docs of POST /memories:bulk and GET /jobs/{id}; types.go JobStatus.)    *)
(***************************************************************************)
EXTENDS Naturals

CONSTANTS Jobs, Items

VARIABLES
    status,    \* what GET /jobs/{id} reports
    outcome    \* of each item: "none" (not submitted), "open", "done" or "failed"

vars == <<status, outcome>>

Settled(j) == \A i \in Items : outcome[j][i] # "open"
Some(j, o) == \E i \in Items : outcome[j][i] = o

Init ==
    /\ status = [j \in Jobs |-> "absent"]
    /\ outcome = [j \in Jobs |-> [i \in Items |-> "none"]]

Submit(j) ==
    /\ status[j] = "absent"
    /\ status' = [status EXCEPT ![j] = "queued"]
    /\ \E S \in (SUBSET Items) \ {{}} :
         outcome' = [outcome EXCEPT ![j] =
                        [i \in Items |-> IF i \in S THEN "open" ELSE "none"]]

Begin(j) ==
    /\ status[j] = "queued"
    /\ status' = [status EXCEPT ![j] = "running"]
    /\ UNCHANGED outcome

Settle(j, i) ==
    /\ status[j] \in {"queued", "running"}
    /\ outcome[j][i] = "open"
    /\ \E o \in {"done", "failed"} : outcome' = [outcome EXCEPT ![j][i] = o]
    /\ UNCHANGED status

Close(j) ==
    /\ status[j] \in {"queued", "running"}
    /\ Settled(j)
    /\ status' = [status EXCEPT ![j] =
                    IF ~Some(j, "failed") THEN "succeeded"
                    ELSE IF ~Some(j, "done") THEN "failed" ELSE "partial"]
    /\ UNCHANGED outcome

Next == \E j \in Jobs : Submit(j) \/ Begin(j) \/ Close(j) \/ \E i \in Items : Settle(j, i)

\* A submitted job does not stay open for ever.
Progress == \A j \in Jobs : WF_vars(Close(j) \/ \E i \in Items : Settle(j, i))

Spec == Init /\ [][Next]_vars /\ Progress
=============================================================================
