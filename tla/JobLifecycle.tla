---------------------------- MODULE JobLifecycle ----------------------------
(***************************************************************************)
(* What the queue promises about one job, without its threads, its table   *)
(* or its statements (core/queue.py 21-27, server/jobs.py 3-6): a job      *)
(* waits, runs alone, ends; only a failed or cancelled one waits again; a  *)
(* run that was cut off by a crash waits again; a job that left the queue  *)
(* never comes back, and a finished one is never run again.                *)
(***************************************************************************)
CONSTANT Jobs

VARIABLE status

Finished == {"done", "failed", "cancelled"}
States   == {"new", "queued", "running", "gone"} \cup Finished

Init == status = [j \in Jobs |-> "new"]

Become(S, s) == status' = [j \in Jobs |-> IF j \in S THEN s ELSE status[j]]

Enter(j) == status[j] = "new" /\ Become({j}, "queued")

Start(j) ==
  /\ status[j] = "queued"
  /\ \A k \in Jobs : status[k] # "running"
  /\ Become({j}, "running")

End(j) == status[j] = "running" /\ \E s \in Finished : Become({j}, s)

Again(j) == status[j] \in {"failed", "cancelled"} /\ Become({j}, "queued")

Interrupted(j) == status[j] = "running" /\ Become({j}, "queued")

(* Rows may be deleted at any time. *)
Leave(S) == S # {} /\ (\A j \in S : status[j] # "new") /\ Become(S, "gone")

Next ==
  \/ \E j \in Jobs : Enter(j) \/ Start(j) \/ End(j) \/ Again(j) \/ Interrupted(j)
  \/ \E S \in SUBSET Jobs : Leave(S)

Spec == Init /\ [][Next]_status
=============================================================================
