------------------------------ MODULE JobBoard ------------------------------
(***************************************************************************)
(* What the ingestion service promises a client that polls                 *)
(* GET /jobs/{job_id}: the states one job may show, one after the other.   *)
(* A job is created once, moves forward only, never changes after its end, *)
(* and is forgotten when the process restarts, because                     *)
(* services/job_manager.py keeps it in memory.                             *)
(***************************************************************************)

CONSTANT Jobs

VARIABLE status     \* status[j]: what the board shows of job j

Ended == {"COMPLETED", "FAILED"}
Shown == {"PENDING", "RUNNING"} \cup Ended
JobStatus == Shown \cup {"uncreated", "forgotten"}

Init == status = [j \in Jobs |-> "uncreated"]

CreateJob(j) ==
    /\ status[j] = "uncreated"
    /\ status' = [status EXCEPT ![j] = "PENDING"]

UpdateJob(j) ==
    \/ /\ status[j] = "PENDING"
       /\ status' = [status EXCEPT ![j] = "RUNNING"]
    \/ /\ status[j] = "RUNNING"
       /\ \E end \in Ended : status' = [status EXCEPT ![j] = end]

(* What a dictionary in memory keeps across a restart: nothing.            *)
Forgotten == [j \in Jobs |-> IF status[j] \in Shown THEN "forgotten" ELSE status[j]]

Forget == status' = Forgotten

Next ==
    \/ \E j \in Jobs : CreateJob(j) \/ UpdateJob(j)
    \/ Forget

Spec == Init /\ [][Next]_status

=============================================================================
