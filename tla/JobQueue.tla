------------------------------ MODULE JobQueue ------------------------------
(***************************************************************************)
(* The local job queue: the `jobs` table of core/state.py, the queue rules *)
(* of core/queue.py, the single worker thread of server/jobs.py and the    *)
(* requests of server/api.py, server/integrations.py and                   *)
(* server/automation.py that change the same table from other threads.     *)
(*                                                                         *)
(* Every thread has its own SQLite connection and Python's sqlite3 opens a *)
(* transaction only at the first write, so a SELECT and the UPDATE that    *)
(* follows it are two steps here, and anything may happen between them.    *)
(* A write and its commit are one step.                                    *)
(***************************************************************************)
EXTENDS Naturals, FiniteSets

CONSTANTS
  Requests,   \* threads that serve requests (FastAPI's pool, the watchers)
  Videos,     \* what a link resolves to (sources.dispatch.identify)
  Options,    \* settings snapshots a job can carry
  NoVideo,    \* the empty video_id column
  NoPayload,  \* "no payload read yet"
  Doors,      \* the ways a job is added that this instance uses
  MaxActive,  \* core/queue.py MAX_ACTIVE
  MaxJobs,    \* bound: rows ever inserted
  MaxCalls,   \* bound: requests ever started
  MaxCrashes  \* bound: times the process dies

(* "paste": POST /jobs and a batch item; "forced": a batch item with force,  *)
(* or a file import; "longform": a job whose link is not resolved when it is *)
(* added; "handoff": queue.enqueue_once and start_if_alone; "render": a      *)
(* re-render or a translation.                                               *)
AllDoors == {"paste", "forced", "longform", "handoff", "render"}

ASSUME ConstantsAssumption ==
  /\ Doors \subseteq AllDoors
  /\ MaxActive \in Nat \ {0} /\ MaxJobs \in Nat /\ MaxCalls \in Nat /\ MaxCrashes \in Nat
  /\ NoVideo \notin Videos

JobIds    == 1 .. MaxJobs
NoJob     == 0
Live      == {"queued", "running"}
Retryable == {"failed", "cancelled"}
Ended     == {"done"} \cup Retryable
Payload   == [url : Videos, options : Options]
Row       == [kind : {"process", "render"}, payload : Payload,
              video : Videos \cup {NoVideo}, status : Live \cup Ended, position : Nat]

(* core/queue.py clear(): the statuses each target removes.                *)
ClearGroups == {{"done"}, Retryable, {"queued"}, Ended \cup {"queued"}}

VARIABLES
  jobs,     \* the table: a function from the ids of the rows there are to rows
  lastId,   \* sqlite_sequence: AUTOINCREMENT never hands out an id twice
  paused,   \* app_state queue_paused
  worker,   \* the worker thread: where it is, and the row it read
  req,      \* what each request thread has read so far
  overtaken, \* history: the jobs that two requests were to retry at once
  calls, crashes

vars == <<jobs, lastId, paused, worker, req, overtaken, calls, crashes>>

Idle == [at |-> "idle", door |-> "render", job |-> NoJob, other |-> NoJob,
         checks |-> {}, payload |-> NoPayload, position |-> 0, otherPosition |-> 0]

NoWork(at) == [at |-> at, job |-> NoJob, payload |-> NoPayload]

Init ==
  /\ jobs = [j \in {} |-> Idle]
  /\ lastId = 0
  /\ paused = TRUE
  /\ worker = NoWork("down")
  /\ req = [r \in Requests |-> Idle]
  /\ overtaken = {} /\ calls = 0 /\ crashes = 0

-----------------------------------------------------------------------------
(* Reads of the table.                                                     *)

With(S)     == {j \in DOMAIN jobs : jobs[j].status \in S}
Queued      == With({"queued"})
OfKind(k)   == {j \in DOMAIN jobs : jobs[j].kind = k}
ActiveCount == Cardinality(With(Live) \cap OfKind("process"))

(* ORDER BY position, id *)
Ahead(i, j) == \/ jobs[i].position < jobs[j].position
               \/ jobs[i].position = jobs[j].position /\ i < j
IsFirst(j, S) == j \in S /\ \A k \in S \ {j} : Ahead(j, k)

(* p is COALESCE(MAX(position), 0) + 1 *)
IsEnd(p) == \E last \in {0} \cup {jobs[j].position : j \in DOMAIN jobs} :
               /\ \A j \in DOMAIN jobs : jobs[j].position <= last
               /\ p = last + 1
EndCandidates == {1} \cup {jobs[j].position + 1 : j \in DOMAIN jobs}

(* UPDATE ... WHERE id = j: no row, no change *)
Update(j, row) == IF j \in DOMAIN jobs THEN [jobs EXCEPT ![j] = row] ELSE jobs
DeleteRows(S)  == jobs' = [j \in DOMAIN jobs \ S |-> jobs[j]]

-----------------------------------------------------------------------------
(* Requests. Each starts when its thread is free and the server is up.     *)

Up == worker.at # "down"

Begin(r, local) ==
  /\ Up /\ req[r] = Idle /\ calls < MaxCalls
  /\ calls' = calls + 1
  /\ req' = [req EXCEPT ![r] = local]

Step(r, at, local) == req[r].at = at /\ req' = [req EXCEPT ![r] = local]

Reply(r, at) == Step(r, at, Idle)

(* Adding a job: which checks are made depends on the door. POST /jobs asks *)
(* for room first and a batch item for a duplicate first, so the two are    *)
(* made in either order; each is a SELECT of its own.                       *)
ChecksOf(door) ==
  CASE door \in {"paste", "handoff"}   -> {"capacity", "duplicate"}
    [] door \in {"forced", "longform"} -> {"capacity"}
    [] door = "render"                 -> {}

Add(r) ==
  /\ \E door \in Doors, p \in Payload :
       Begin(r, [Idle EXCEPT !.at = "add", !.door = door, !.payload = p,
                             !.checks = ChecksOf(door)])
  /\ UNCHANGED <<jobs, lastId, paused, worker, overtaken, crashes>>

CheckCapacity(r) ==
  /\ "capacity" \in req[r].checks
  /\ IF ActiveCount < MaxActive
     THEN Step(r, "add", [req[r] EXCEPT !.checks = @ \ {"capacity"}])
     ELSE Reply(r, "add")
  /\ UNCHANGED <<jobs, lastId, paused, worker, overtaken, calls, crashes>>

SameVideo(r) == {j \in With(Live) : jobs[j].video = req[r].payload.url}

(* duplicate_of: a duplicate ends the request, except that enqueue_once     *)
(* hands the existing job to start_if_alone.                                *)
CheckDuplicate(r) ==
  /\ "duplicate" \in req[r].checks
  /\ \/ /\ SameVideo(r) = {}
        /\ Step(r, "add", [req[r] EXCEPT !.checks = @ \ {"duplicate"}])
     \/ \E j \in SameVideo(r) :
          /\ IsFirst(j, SameVideo(r))
          /\ IF req[r].door = "handoff"
             THEN Step(r, "add", [Idle EXCEPT !.at = "alone", !.job = j])
             ELSE Reply(r, "add")
  /\ UNCHANGED <<jobs, lastId, paused, worker, overtaken, calls, crashes>>

(* add_job's SELECT: the end of the queue, or for a render the place of the *)
(* first waiting video (other = that video, whose followers will shift).    *)
WaitingVideos == Queued \cap OfKind("process")

ReadPlace(r) ==
  /\ req[r].checks = {}
  /\ \/ /\ req[r].door # "render" \/ WaitingVideos = {}
        /\ \E p \in EndCandidates :
             /\ IsEnd(p)
             /\ Step(r, "add", [req[r] EXCEPT !.at = "insert", !.position = p])
     \/ /\ req[r].door = "render"
        /\ \E j \in WaitingVideos :
             /\ IsFirst(j, WaitingVideos)
             /\ Step(r, "add", [req[r] EXCEPT !.at = "insert", !.other = j,
                                              !.position = jobs[j].position])
  /\ UNCHANGED <<jobs, lastId, paused, worker, overtaken, calls, crashes>>

NewRow(r) ==
  [kind     |-> IF req[r].door = "render" THEN "render" ELSE "process",
   payload  |-> req[r].payload,
   video    |-> IF req[r].door \in {"longform", "render"} THEN NoVideo
                ELSE req[r].payload.url,
   status   |-> "queued",
   position |-> req[r].position]

Shifted(r, j) ==
  IF /\ req[r].other # NoJob
     /\ jobs[j].status = "queued" /\ jobs[j].position >= req[r].position
  THEN [jobs[j] EXCEPT !.position = @ + 1]
  ELSE jobs[j]

(* The shift and the INSERT are one transaction.                           *)
Insert(r) ==
  /\ lastId < MaxJobs
  /\ lastId' = lastId + 1
  /\ jobs' = [j \in DOMAIN jobs \cup {lastId + 1} |->
                IF j = lastId + 1 THEN NewRow(r) ELSE Shifted(r, j)]
  /\ IF req[r].door = "handoff"
     THEN Step(r, "insert", [Idle EXCEPT !.at = "alone", !.job = lastId + 1])
     ELSE Reply(r, "insert")
  /\ UNCHANGED <<paused, worker, overtaken, calls, crashes>>

(* start_if_alone: the read, then set_paused(False).                       *)
LookForOthers(r) ==
  /\ IF paused /\ WaitingVideos \ {req[r].job} = {}
     THEN Step(r, "alone", [req[r] EXCEPT !.at = "start"])
     ELSE Reply(r, "alone")
  /\ UNCHANGED <<jobs, lastId, paused, worker, overtaken, calls, crashes>>

StartIfAlone(r) ==
  /\ Reply(r, "start")
  /\ paused' = FALSE
  /\ UNCHANGED <<jobs, lastId, worker, overtaken, calls, crashes>>

(* retry: the row's status, its payload and the end of the queue are read,  *)
(* then written back by id alone. A watch goes on to start_if_alone.        *)
AskRetryFrom(r, S) ==
  /\ \E j \in With(S), p \in EndCandidates, door \in Doors \cap {"handoff", "paste"} :
       /\ IsEnd(p)
       /\ Begin(r, [Idle EXCEPT !.at = "retry", !.job = j, !.door = door,
                                !.payload = jobs[j].payload, !.position = p])
  /\ UNCHANGED <<jobs, lastId, paused, worker, overtaken, crashes>>

(* Faulty variants of AskRetry: no status check, and one that lets a        *)
(* finished job through. Only the mutation tests use these.                *)
AskRetryUnchecked(r)  == AskRetryFrom(r, Live \cup Ended)
AskRetryDone(r)       == AskRetryFrom(r, Ended)

AskRetry(r) == AskRetryFrom(r, Retryable)

Rivals(r) == {q \in Requests \ {r} : req[q].at = "retry" /\ req[q].job = req[r].job}

Retry(r) ==
  /\ LET j == req[r].job IN
       jobs' = Update(j, [jobs[j] EXCEPT !.status = "queued", !.payload = req[r].payload,
                                         !.position = req[r].position])
  /\ IF req[r].door = "handoff"
     THEN Step(r, "retry", [Idle EXCEPT !.at = "alone", !.job = req[r].job])
     ELSE Reply(r, "retry")
  /\ overtaken' = overtaken \cup {j \in {req[r].job} : Rivals(r) # {}}
  /\ UNCHANGED <<lastId, paused, worker, calls, crashes>>

(* move: the job's position and its neighbour's are read, then swapped.     *)
AskMove(r) ==
  /\ \E j \in Queued : \E n \in Queued \ {j} :
       /\ \/ /\ Ahead(n, j) /\ \A k \in Queued \ {j, n} : ~(Ahead(n, k) /\ Ahead(k, j))
          \/ /\ Ahead(j, n) /\ \A k \in Queued \ {j, n} : ~(Ahead(j, k) /\ Ahead(k, n))
       /\ Begin(r, [Idle EXCEPT !.at = "move", !.job = j, !.other = n,
                                !.position = jobs[j].position,
                                !.otherPosition = jobs[n].position])
  /\ UNCHANGED <<jobs, lastId, paused, worker, overtaken, crashes>>

Move(r) ==
  /\ jobs' = [j \in DOMAIN jobs |->
                CASE j = req[r].job   -> [jobs[j] EXCEPT !.position = req[r].otherPosition]
                  [] j = req[r].other -> [jobs[j] EXCEPT !.position = req[r].position]
                  [] OTHER            -> jobs[j]]
  /\ Reply(r, "move")
  /\ UNCHANGED <<lastId, paused, worker, overtaken, calls, crashes>>

(* DELETE /jobs/{id} refuses a running job; queue.remove takes only a       *)
(* waiting one. Both then delete by id.                                     *)
AskRemove(r) ==
  /\ \E j \in DOMAIN jobs :
       /\ jobs[j].status # "running"
       /\ Begin(r, [Idle EXCEPT !.at = "remove", !.job = j])
  /\ UNCHANGED <<jobs, lastId, paused, worker, overtaken, crashes>>

Remove(r) ==
  /\ DeleteRows({req[r].job})
  /\ Reply(r, "remove")
  /\ UNCHANGED <<lastId, paused, worker, overtaken, calls, crashes>>

(* PATCH /jobs/{id} and update_settings: the link stays, the options change. *)
AskPatch(r) ==
  /\ \E j \in WaitingVideos, o \in Options :
       Begin(r, [Idle EXCEPT !.at = "patch", !.job = j,
                             !.payload = [jobs[j].payload EXCEPT !.options = o]])
  /\ UNCHANGED <<jobs, lastId, paused, worker, overtaken, crashes>>

UpdateSettings(r) ==
  /\ jobs' = Update(req[r].job, [jobs[req[r].job] EXCEPT !.payload = req[r].payload])
  /\ Reply(r, "patch")
  /\ UNCHANGED <<lastId, paused, worker, overtaken, calls, crashes>>

(* POST /queue/clear, /queue/pause and /queue/resume are one statement each. *)
Clear(r) ==
  /\ Begin(r, Idle)
  /\ \E group \in ClearGroups : With(group) # {} /\ DeleteRows(With(group))
  /\ UNCHANGED <<lastId, paused, worker, overtaken, crashes>>

SetPaused(r) ==
  /\ Begin(r, Idle)
  /\ paused' = ~paused
  /\ UNCHANGED <<jobs, lastId, worker, overtaken, crashes>>

Request(r) ==
  \/ Add(r) \/ CheckCapacity(r) \/ CheckDuplicate(r) \/ ReadPlace(r) \/ Insert(r)
  \/ LookForOthers(r) \/ StartIfAlone(r)
  \/ AskRetry(r) \/ Retry(r) \/ AskMove(r) \/ Move(r)
  \/ AskRemove(r) \/ Remove(r) \/ AskPatch(r) \/ UpdateSettings(r)
  \/ Clear(r) \/ SetPaused(r)

-----------------------------------------------------------------------------
(* The worker thread (Worker.run).                                         *)

At(here, next) == worker.at = here /\ worker' = [worker EXCEPT !.at = next]

StartServer ==
  /\ At("down", "boot")
  /\ UNCHANGED <<jobs, lastId, paused, req, overtaken, calls, crashes>>

(* Faulty variants of Recover: nothing recovered, and the publish worker's  *)
(* rule (never run again) used here.                                       *)
RecoverNothing ==
  /\ At("boot", "idle")
  /\ UNCHANGED <<jobs, lastId, paused, req, overtaken, calls, crashes>>
RecoverAsInterrupted ==
  /\ At("boot", "idle")
  /\ jobs' = [j \in DOMAIN jobs |->
                IF jobs[j].status = "running" THEN [jobs[j] EXCEPT !.status = "interrupted"]
                ELSE jobs[j]]
  /\ UNCHANGED <<lastId, paused, req, overtaken, calls, crashes>>

(* recover_interrupted_jobs: what was running when the process died is      *)
(* queued again, where it was.                                              *)
Recover ==
  /\ At("boot", "idle")
  /\ jobs' = [j \in DOMAIN jobs |->
                IF jobs[j].status = "running" THEN [jobs[j] EXCEPT !.status = "queued"]
                ELSE jobs[j]]
  /\ UNCHANGED <<lastId, paused, req, overtaken, calls, crashes>>

SeeQueueStarted ==
  /\ ~paused
  /\ At("idle", "select")
  /\ UNCHANGED <<jobs, lastId, paused, req, overtaken, calls, crashes>>

(* Faulty variant of SelectNext: renders are never looked at.              *)
SelectNextVideo ==
  /\ worker.at = "select"
  /\ \/ WaitingVideos = {} /\ worker' = NoWork("idle")
     \/ \E j \in WaitingVideos :
          /\ IsFirst(j, WaitingVideos)
          /\ worker' = [at |-> "claim", job |-> j, payload |-> jobs[j].payload]
  /\ UNCHANGED <<jobs, lastId, paused, req, overtaken, calls, crashes>>

(* claim_next_job, first half: the SELECT. The payload the run will use is  *)
(* the one read here.                                                       *)
SelectNext ==
  /\ worker.at = "select"
  /\ \/ Queued = {} /\ worker' = NoWork("idle")
     \/ \E j \in Queued :
          /\ IsFirst(j, Queued)
          /\ worker' = [at |-> "claim", job |-> j, payload |-> jobs[j].payload]
  /\ UNCHANGED <<jobs, lastId, paused, req, overtaken, calls, crashes>>

(* claim_next_job, second half: the UPDATE, by id alone.                   *)
Claim ==
  /\ At("claim", "claimed")
  /\ jobs' = Update(worker.job, [jobs[worker.job] EXCEPT !.status = "running"])
  /\ UNCHANGED <<lastId, paused, req, overtaken, calls, crashes>>

(* set_job(video_id=vid) when the row had none.                            *)
RecordVideo ==
  /\ At("claimed", "run")
  /\ LET row == jobs[worker.job] IN
       jobs' = Update(worker.job,
                 IF row.kind = "process" /\ row.video = NoVideo
                 THEN [row EXCEPT !.video = worker.payload.url] ELSE row)
  /\ UNCHANGED <<lastId, paused, req, overtaken, calls, crashes>>

(* Faulty variant of Finish: a cancelled run leaves its row as it is.      *)
FinishUnlessCancelled ==
  /\ worker.at = "run"
  /\ worker' = NoWork("idle")
  /\ \/ UNCHANGED jobs
     \/ \E end \in {"done", "failed"} :
          jobs' = Update(worker.job, [jobs[worker.job] EXCEPT !.status = end])
  /\ UNCHANGED <<lastId, paused, req, overtaken, calls, crashes>>

(* The run ends: finish_job, by id alone.                                  *)
Finish ==
  /\ worker.at = "run"
  /\ worker' = NoWork("idle")
  /\ \E end \in Ended : jobs' = Update(worker.job, [jobs[worker.job] EXCEPT !.status = end])
  /\ UNCHANGED <<lastId, paused, req, overtaken, calls, crashes>>

WorkerStep ==
  Recover \/ SeeQueueStarted \/ SelectNext \/ Claim \/ RecordVideo \/ Finish

(* The process dies: every thread is gone, the database stays.             *)
Crash ==
  /\ Up /\ crashes < MaxCrashes
  /\ crashes' = crashes + 1
  /\ worker' = NoWork("down")
  /\ req' = [r \in Requests |-> Idle]
  /\ UNCHANGED <<jobs, lastId, paused, overtaken, calls>>

-----------------------------------------------------------------------------
Next == (\E r \in Requests : Request(r)) \/ StartServer \/ WorkerStep \/ Crash

Spec == Init /\ [][Next]_vars

(* The worker thread keeps running while the process lives, a run of the    *)
(* pipeline ends, and after a crash the app is opened again. Nothing is     *)
(* assumed of the people and services behind the requests.                  *)
FairSpec == Spec /\ WF_vars(WorkerStep) /\ WF_vars(StartServer)

-----------------------------------------------------------------------------
(* Every variable keeps its type: the rows hold values of their columns, a  *)
(* request that will write a payload has read one.                          *)
ReqPlaces == {"idle", "add", "insert", "alone", "start", "retry", "move", "remove", "patch"}
Local == [at : ReqPlaces, door : AllDoors, job : {NoJob} \cup JobIds,
          other : {NoJob} \cup JobIds, checks : SUBSET {"capacity", "duplicate"},
          payload : Payload \cup {NoPayload}, position : Nat, otherPosition : Nat]
TableOK ==
  /\ lastId \in 0 .. MaxJobs
  /\ DOMAIN jobs \subseteq 1 .. lastId
  /\ jobs \in [DOMAIN jobs -> Row]
RequestsOK ==
  /\ req \in [Requests -> Local]
  /\ \A r \in Requests : req[r].at \in {"add", "insert", "retry", "patch"} =>
                           req[r].payload \in Payload
WorkerOK ==
  /\ worker \in [at : {"down", "boot", "idle", "select", "claim", "claimed", "run"},
                  job : {NoJob} \cup JobIds, payload : Payload \cup {NoPayload}]
  /\ worker.at \in {"claim", "claimed", "run"} => worker.payload \in Payload
TypeOK ==
  /\ TableOK /\ RequestsOK /\ WorkerOK
  /\ paused \in BOOLEAN /\ calls \in 0 .. MaxCalls /\ crashes \in 0 .. MaxCrashes

(* A row says "running" only while the worker thread holds that job, or     *)
(* between a crash and the recovery that queues it again: whatever requests *)
(* interleave with the worker, no row is left running with nobody on it     *)
(* (server/jobs.py 89-91 and 129-337, core/state.py 1685).                  *)
Holds(j) == worker.at \in {"claimed", "run"} /\ worker.job = j
RunningIsHeld == \A j \in With({"running"}) : worker.at \in {"down", "boot"} \/ Holds(j)

(* One video at a time (core/queue.py 22): two rows are never running, not  *)
(* across crashes and not when rows are deleted, retried or edited while    *)
(* the worker claims.                                                       *)
OneRunning == \A i, j \in With({"running"}) : i = j

(* The converse of RunningIsHeld: while the worker runs a job, its row says *)
(* so, or was deleted, however removals, edits, moves and retries interleave *)
(* with the claim. Of a job that two requests retried at once nothing is     *)
(* said: the second writes by id alone, after the worker may have claimed it *)
(* (core/queue.py 225-237).                                                 *)
Followed == DOMAIN jobs \ overtaken
HeldRowIsRunning == \A j \in Followed : Holds(j) => jobs[j].status = "running"

(* Once the queue is started and left started, every waiting or running job *)
(* ends or is deleted: renders that jump the queue, interrupted runs that   *)
(* are queued again and the failures of other jobs never starve it          *)
(* (core/queue.py 26-27, core/state.py 1582-1587).                          *)
Pending(j) == j \in With(Live)
Drains == (<>[]~paused) => \A j \in JobIds : Pending(j) ~> ~Pending(j)
=============================================================================
