--------------------------- MODULE JobQueueClaims ---------------------------
(***************************************************************************)
(* The lifecycle of JobLifecycle over the table of JobQueue, which          *)
(* implements it for every job until two requests retry it at once.        *)
(***************************************************************************)
EXTENDS JobQueue

(* An id past sqlite_sequence was never a row; one at or below it whose row *)
(* is not there was deleted.                                                *)
StatusOf ==
  [j \in JobIds |-> CASE j > lastId                     -> "new"
                      [] j <= lastId /\ j \notin Followed -> "gone"
                      [] OTHER                          -> jobs[j].status]

Lifecycle == INSTANCE JobLifecycle WITH Jobs <- JobIds, status <- StatusOf

(* Whatever requests interleave beside the worker, the table's rows follow   *)
(* the lifecycle the docs promise, crash and restart included: no run        *)
(* begins beside another, none of a job that ended or left, and only a       *)
(* failed or cancelled job waits again.                                     *)
FollowsLifecycle == Lifecycle!Spec
=============================================================================
