---------------------------- MODULE JobLifecycle ----------------------------
(***************************************************************************)
(* What the durable_jobs table promises to whoever uses a job: a row is    *)
(* requested once, then cancelled or claimed once, and a claimed job ends  *)
(* at most once. One transaction moves one job.                            *)
(***************************************************************************)
CONSTANTS
  Jobs,
  Absent  \* there is no row

VARIABLE status

Init == status = [j \in Jobs |-> Absent]

Move(j, from, to) ==
  /\ status[j] = from
  /\ status' = [status EXCEPT ![j] = to]

Request(j) == Move(j, Absent, "requested")

Cancel(j) == Move(j, "requested", "cancelled")

Claim(j) == Move(j, "requested", "running")

Finish(j) == Move(j, "running", "succeeded") \/ Move(j, "running", "failed")

Next == \E j \in Jobs : Request(j) \/ Cancel(j) \/ Claim(j) \/ Finish(j)

Spec == Init /\ [][Next]_status
=============================================================================
