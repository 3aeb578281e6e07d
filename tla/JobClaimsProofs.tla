-------------------------- MODULE JobClaimsProofs --------------------------
(***************************************************************************)
(* Whatever requests interleave beside the worker, the table keeps the      *)
(* promises of JobLifecycle for every job that no two requests retried at   *)
(* once, for any number of threads, videos, jobs, calls and crashes.        *)
(***************************************************************************)
EXTENDS JobQueueClaims, JobQueueProofs

(* What the worker and a retry have read is still true of the row when they  *)
(* write by id alone, unless the row was deleted or, for a retry, another    *)
(* retry came first; and its id is never given to another row.              *)
ClaimIsWaiting == worker.at = "claim" /\ worker.job \in DOMAIN jobs => jobs[worker.job].status = "queued"
RetryIsEnded   == \A r \in Requests : req[r].at = "retry" /\ req[r].job \in Followed =>
                                        jobs[req[r].job].status \in Retryable
HeldIsOld      == worker.at \in {"claim", "claimed", "run"} => worker.job \in 1 .. lastId
OvertakenIsOld == overtaken \subseteq 1 .. lastId
RetryIsOld     == \A r \in Requests : req[r].at \in {"retry", "remove"} => req[r].job \in 1 .. lastId

HeldInv == /\ SafetyInv /\ HeldRowIsRunning
           /\ ClaimIsWaiting /\ RetryIsEnded /\ HeldIsOld /\ RetryIsOld /\ OvertakenIsOld

-----------------------------------------------------------------------------
(* What a step does to the statuses, whatever else it writes.               *)
Status(j) == jobs[j].status

SameStatuses == /\ lastId' = lastId /\ DOMAIN jobs' = DOMAIN jobs
                /\ \A j \in DOMAIN jobs : jobs'[j].status = jobs[j].status
OneStatus(j, s) == /\ lastId' = lastId /\ DOMAIN jobs' = DOMAIN jobs
                   /\ j \in DOMAIN jobs => jobs'[j].status = s
                   /\ \A i \in DOMAIN jobs \ {j} : jobs'[i].status = jobs[i].status
RowsGone(S) == /\ lastId' = lastId /\ DOMAIN jobs' = DOMAIN jobs \ S
               /\ \A j \in DOMAIN jobs \ S : jobs'[j].status = jobs[j].status
RowAdded == /\ lastId' = lastId + 1 /\ DOMAIN jobs' = DOMAIN jobs \cup {lastId + 1}
            /\ jobs'[lastId + 1].status = "queued"
            /\ \A j \in DOMAIN jobs : jobs'[j].status = jobs[j].status

(* An UPDATE by id of a row's status writes that status if the row is there. *)
LEMMA UpdateStatus ==
  ASSUME TypeOK, NEW j, NEW row, NEW s, j \in DOMAIN jobs => row.status = s,
         jobs' = Update(j, row), lastId' = lastId
  PROVE  OneStatus(j, s)
BY DEF Update, OneStatus, TypeOK, TableOK

LEMMA UpdateKeeps ==
  ASSUME TypeOK, NEW j, NEW row, j \in DOMAIN jobs => row.status = jobs[j].status,
         jobs' = Update(j, row), lastId' = lastId
  PROVE  SameStatuses
BY DEF Update, SameStatuses, TypeOK, TableOK

(* Every request's step, by what it does to the table and to its own record. *)
Free(local) == local.at \notin {"retry", "remove"}
(* The step writes the request's own record and nothing it had read is new. *)
Mine(r) == /\ \A q \in Requests \ {r} : req'[q] = req[q]
           /\ worker' = worker

(* Only a retry beside another one overtakes.                               *)
Overtaking(r) == overtaken' = overtaken \cup {j \in {req[r].job} : Retry(r) /\ Rivals(r) # {}}

LEMMA OnlyRetryOvertakes ==
  ASSUME TypeOK, NEW r \in Requests, Request(r)
  PROVE  Overtaking(r)
<1>1. CASE Retry(r)
  BY <1>1 DEF Overtaking, Retry
<1>2. CASE ~Retry(r)
  <2>1. overtaken' = overtaken
    BY <1>2 DEF Request, Add, CheckCapacity, CheckDuplicate, ReadPlace, Insert, LookForOthers,
       StartIfAlone, AskRetry, AskRetryFrom, AskMove, Move, AskRemove, Remove, AskPatch,
       UpdateSettings, Clear, SetPaused
  <2> QED
    BY <1>2, <2>1 DEF Overtaking
<1> QED
  BY <1>1, <1>2

LEMMA RetryKind ==
  ASSUME TypeOK, NEW r \in Requests, Retry(r)
  PROVE  req[r].at = "retry" /\ OneStatus(req[r].job, "queued")
<1> DEFINE row == [jobs[req[r].job] EXCEPT !.status = "queued", !.payload = req[r].payload,
                                           !.position = req[r].position]
<1>1. req[r].job \in DOMAIN jobs => row.status = "queued"
  BY DEF TypeOK, TableOK, Row
<1>2. jobs' = Update(req[r].job, row) /\ lastId' = lastId /\ req[r].at = "retry"
  BY DEF Retry, Step, Reply
<1> HIDE DEF row
<1> QED
  BY <1>1, <1>2, UpdateStatus

LEMMA RequestKinds ==
  ASSUME TypeOK, NEW r \in Requests, Request(r)
  PROVE  /\ Mine(r)
         /\ \/ SameStatuses /\ Free(req'[r])
            \/ SameStatuses /\ req'[r].at = "retry" /\ req'[r].job \in With(Retryable)
            \/ SameStatuses /\ req'[r].at = "remove" /\ req'[r].job \in DOMAIN jobs
            \/ RowAdded /\ Free(req'[r])
            \/ Retry(r) /\ req[r].at = "retry" /\ OneStatus(req[r].job, "queued") /\ Free(req'[r])
            \/ req[r].at = "remove" /\ RowsGone({req[r].job}) /\ Free(req'[r])
            \/ \E group \in ClearGroups : /\ With(group) # {} /\ RowsGone(With(group))
                                          /\ Free(req'[r])
<1> USE DEF Free, Mine
<1>0. Idle.at = "idle" /\ req \in [Requests -> Local]
  BY DEF Idle, TypeOK, RequestsOK
<1>1. CASE Add(r)
  <2>1. PICK door \in Doors, p \in Payload :
          Begin(r, [Idle EXCEPT !.at = "add", !.door = door, !.payload = p,
                                !.checks = ChecksOf(door)])
    BY <1>1 DEF Add
  <2>2. req'[r].at = "add" /\ \A q \in Requests \ {r} : req'[q] = req[q]
    BY <1>0, <2>1 DEF Begin, Idle
  <2> QED
    BY <1>1, <2>2 DEF Add, SameStatuses
<1>2. CASE CheckCapacity(r) \/ CheckDuplicate(r) \/ ReadPlace(r) \/ LookForOthers(r)
  <2>1. /\ req'[r].at \in {"idle", "add", "insert", "alone", "start"}
        /\ \A q \in Requests \ {r} : req'[q] = req[q]
    <3>1. req[r] \in Local
      BY <1>0
    <3>2. CASE CheckCapacity(r)
      <4>1. [req[r] EXCEPT !.checks = @ \ {"capacity"}].at = req[r].at
        BY <3>1 DEF Local
      <4>2. CASE Step(r, "add", [req[r] EXCEPT !.checks = @ \ {"capacity"}])
        BY <1>0, <4>1, <4>2 DEF Step
      <4> QED
        BY <1>0, <3>2, <4>2 DEF CheckCapacity, Step, Reply
    <3>3. CASE CheckDuplicate(r)
      <4>1. [req[r] EXCEPT !.checks = @ \ {"duplicate"}].at = req[r].at
        BY <3>1 DEF Local
      <4>2. CASE Step(r, "add", [req[r] EXCEPT !.checks = @ \ {"duplicate"}])
        BY <1>0, <4>1, <4>2 DEF Step
      <4>3. ASSUME NEW j \in SameVideo(r), Step(r, "add", [Idle EXCEPT !.at = "alone", !.job = j])
            PROVE  /\ req'[r].at = "alone"
                   /\ \A q \in Requests \ {r} : req'[q] = req[q]
        BY <1>0, <4>3 DEF Step, Idle
      <4>4. CASE Reply(r, "add")
        BY <1>0, <4>4 DEF Reply, Step
      <4>5. CASE SameVideo(r) = {} /\ Step(r, "add", [req[r] EXCEPT !.checks = @ \ {"duplicate"}])
        BY <4>2, <4>5
      <4> QED
        BY <3>3, <4>3, <4>4, <4>5 DEF CheckDuplicate
    <3>4. CASE ReadPlace(r)
      <4>1. ASSUME NEW p, Step(r, "add", [req[r] EXCEPT !.at = "insert", !.position = p])
            PROVE  req'[r].at = "insert" /\ \A q \in Requests \ {r} : req'[q] = req[q]
        BY <1>0, <3>1, <4>1 DEF Step, Local
      <4>2. ASSUME NEW j, Step(r, "add", [req[r] EXCEPT !.at = "insert", !.other = j,
                                                         !.position = jobs[j].position])
            PROVE  req'[r].at = "insert" /\ \A q \in Requests \ {r} : req'[q] = req[q]
        BY <1>0, <3>1, <4>2 DEF Step, Local
      <4> QED
        BY <3>4, <4>1, <4>2 DEF ReadPlace
    <3>5. CASE LookForOthers(r)
      <4>1. CASE Step(r, "alone", [req[r] EXCEPT !.at = "start"])
        BY <1>0, <3>1, <4>1 DEF Step, Local
      <4> QED
        BY <1>0, <3>5, <4>1 DEF LookForOthers, Step, Reply
    <3> QED
      BY <1>2, <3>2, <3>3, <3>4, <3>5
  <2>3. SameStatuses /\ worker' = worker
    BY <1>2 DEF CheckCapacity, CheckDuplicate, ReadPlace, LookForOthers, SameStatuses
  <2> QED
    BY <2>1, <2>3
<1>3. CASE Insert(r)
  <2>1. NewRow(r).status = "queued"
    BY DEF NewRow
  <2>2. \A j \in DOMAIN jobs : Shifted(r, j).status = jobs[j].status
    BY DEF Shifted, TypeOK, TableOK, Row
  <2>3. lastId + 1 \notin DOMAIN jobs
    BY ConstantsAssumption DEF TypeOK, TableOK
  <2>4. RowAdded /\ worker' = worker
    BY <1>3, <2>1, <2>2, <2>3 DEF Insert, RowAdded
  <2>5. req'[r].at \in {"alone", "idle"} /\ \A q \in Requests \ {r} : req'[q] = req[q]
    BY <1>0, <1>3 DEF Insert, Step, Reply, Idle
  <2> QED
    BY <2>4, <2>5
<1>4. CASE AskRetry(r)
  <2>1. PICK j \in With(Retryable), p \in EndCandidates, door \in Doors \cap {"handoff", "paste"} :
          Begin(r, [Idle EXCEPT !.at = "retry", !.job = j, !.door = door,
                                !.payload = jobs[j].payload, !.position = p])
    BY <1>4 DEF AskRetry, AskRetryFrom
  <2>2. req'[r].at = "retry" /\ req'[r].job = j /\ \A q \in Requests \ {r} : req'[q] = req[q]
    BY <1>0, <2>1 DEF Begin, Idle
  <2> QED
    BY <1>4, <2>2 DEF AskRetry, AskRetryFrom, SameStatuses
<1>5. CASE Retry(r)
  <2>1. OneStatus(req[r].job, "queued") /\ req[r].at = "retry" /\ worker' = worker
    BY <1>5, RetryKind DEF Retry
  <2>2. req'[r].at \in {"alone", "idle"} /\ \A q \in Requests \ {r} : req'[q] = req[q]
    <3>1. CASE Step(r, "retry", [Idle EXCEPT !.at = "alone", !.job = req[r].job])
      BY <1>0, <3>1 DEF Step, Idle
    <3>2. CASE Reply(r, "retry")
      BY <1>0, <3>2 DEF Reply, Step
    <3> QED
      BY <1>5, <3>1, <3>2 DEF Retry
  <2> QED
    BY <1>5, <2>1, <2>2
<1>6. CASE AskMove(r) \/ AskPatch(r)
  <2>1. ASSUME NEW local, Begin(r, local), local.at \in {"move", "patch"}
        PROVE  Free(req'[r]) /\ \A q \in Requests \ {r} : req'[q] = req[q]
    BY <1>0, <2>1 DEF Begin
  <2>2. Free(req'[r]) /\ \A q \in Requests \ {r} : req'[q] = req[q]
    <3> HIDE DEF Free
    <3>1. CASE AskMove(r)
      <4>1. PICK j \in Queued, n \in Queued :
              Begin(r, [Idle EXCEPT !.at = "move", !.job = j, !.other = n,
                                    !.position = jobs[j].position,
                                    !.otherPosition = jobs[n].position])
        BY <3>1 DEF AskMove
      <4>2. [Idle EXCEPT !.at = "move", !.job = j, !.other = n, !.position = jobs[j].position,
                         !.otherPosition = jobs[n].position].at = "move"
        BY DEF Idle
      <4> QED
        BY <2>1, <4>1, <4>2
    <3>2. CASE AskPatch(r)
      <4>1. PICK j \in WaitingVideos, o \in Options :
              Begin(r, [Idle EXCEPT !.at = "patch", !.job = j,
                                    !.payload = [jobs[j].payload EXCEPT !.options = o]])
        BY <3>2 DEF AskPatch
      <4>2. [Idle EXCEPT !.at = "patch", !.job = j,
                         !.payload = [jobs[j].payload EXCEPT !.options = o]].at = "patch"
        BY DEF Idle
      <4> QED
        BY <2>1, <4>1, <4>2
    <3> QED
      BY <1>6, <3>1, <3>2
  <2> QED
    BY <1>6, <2>2 DEF AskMove, AskPatch, SameStatuses
<1>7. CASE Move(r)
  <2> DEFINE Moved(j) ==
        CASE j = req[r].job   -> [jobs[j] EXCEPT !.position = req[r].otherPosition]
          [] j = req[r].other -> [jobs[j] EXCEPT !.position = req[r].position]
          [] OTHER            -> jobs[j]
  <2>1. \A j \in DOMAIN jobs : Moved(j).status = jobs[j].status
    <3> SUFFICES ASSUME NEW j \in DOMAIN jobs PROVE Moved(j).status = jobs[j].status
      OBVIOUS
    <3>1. jobs[j] \in Row
      BY DEF TypeOK, TableOK
    <3>2. /\ [jobs[j] EXCEPT !.position = req[r].otherPosition].status = jobs[j].status
          /\ [jobs[j] EXCEPT !.position = req[r].position].status = jobs[j].status
      BY <3>1 DEF Row
    <3> QED
      BY <3>2
  <2>2. jobs' = [j \in DOMAIN jobs |-> Moved(j)] /\ worker' = worker /\ lastId' = lastId
    BY <1>7 DEF Move
  <2> HIDE DEF Moved
  <2>3. SameStatuses
    BY <2>1, <2>2 DEF SameStatuses
  <2>4. req'[r] = Idle /\ \A q \in Requests \ {r} : req'[q] = req[q]
    BY <1>0, <1>7 DEF Move, Reply, Step
  <2> QED
    BY <1>0, <2>2, <2>3, <2>4
<1>8. CASE UpdateSettings(r)
  <2> DEFINE row == [jobs[req[r].job] EXCEPT !.payload = req[r].payload]
  <2>1. req[r].job \in DOMAIN jobs => row.status = jobs[req[r].job].status
    BY DEF TypeOK, TableOK, Row
  <2>2. jobs' = Update(req[r].job, row) /\ worker' = worker /\ lastId' = lastId
    BY <1>8 DEF UpdateSettings
  <2> HIDE DEF row
  <2>3. SameStatuses
    BY <2>1, <2>2, UpdateKeeps
  <2>4. req'[r] = Idle /\ \A q \in Requests \ {r} : req'[q] = req[q]
    BY <1>0, <1>8 DEF UpdateSettings, Reply, Step
  <2> QED
    BY <1>0, <2>2, <2>3, <2>4
<1>9. CASE AskRemove(r)
  <2>1. PICK j \in DOMAIN jobs : Begin(r, [Idle EXCEPT !.at = "remove", !.job = j])
    BY <1>9 DEF AskRemove
  <2>2. req'[r].at = "remove" /\ req'[r].job = j /\ \A q \in Requests \ {r} : req'[q] = req[q]
    BY <1>0, <2>1 DEF Begin, Idle
  <2> QED
    BY <1>9, <2>2 DEF AskRemove, SameStatuses
<1>10. CASE Remove(r)
  <2>1. req[r].at = "remove" /\ req'[r] = Idle /\ \A q \in Requests \ {r} : req'[q] = req[q]
    BY <1>0, <1>10 DEF Remove, Reply, Step
  <2>2. RowsGone({req[r].job}) /\ worker' = worker
    BY <1>10 DEF Remove, DeleteRows, RowsGone
  <2> QED
    BY <1>0, <2>1, <2>2
<1>11. CASE Clear(r)
  <2>1. PICK group \in ClearGroups : With(group) # {} /\ DeleteRows(With(group))
    BY <1>11 DEF Clear
  <2>2. req'[r] = Idle /\ \A q \in Requests \ {r} : req'[q] = req[q]
    BY <1>0, <1>11 DEF Clear, Begin
  <2>3. RowsGone(With(group)) /\ worker' = worker
    BY <1>11, <2>1 DEF Clear, DeleteRows, RowsGone
  <2> QED
    BY <1>0, <2>1, <2>2, <2>3
<1>12. CASE SetPaused(r) \/ StartIfAlone(r)
  <2>1. req'[r] = Idle /\ \A q \in Requests \ {r} : req'[q] = req[q]
    BY <1>0, <1>12 DEF SetPaused, StartIfAlone, Begin, Reply, Step
  <2> QED
    BY <1>0, <1>12, <2>1 DEF SetPaused, StartIfAlone, SameStatuses
<1> QED
  BY <1>1, <1>2, <1>3, <1>4, <1>5, <1>6, <1>7, <1>8, <1>9, <1>10, <1>11, <1>12 DEF Request

(* The worker's steps and the crash, by what they do to the table.          *)
Recovered == /\ lastId' = lastId /\ DOMAIN jobs' = DOMAIN jobs
             /\ \A j \in DOMAIN jobs : jobs'[j].status =
                                        IF jobs[j].status = "running" THEN "queued" ELSE jobs[j].status

LEMMA WorkerNeverOvertakes ==
  ASSUME StartServer \/ WorkerStep \/ Crash
  PROVE  overtaken' = overtaken
BY DEF StartServer, WorkerStep, Recover, SeeQueueStarted, SelectNext, Claim, RecordVideo, Finish,
   Crash

LEMMA WorkerKinds ==
  ASSUME TypeOK, StartServer \/ WorkerStep \/ Crash
  PROVE  \/ /\ SameStatuses
            /\ worker'.at \in {"down", "boot", "idle", "select"}
            /\ req' = req \/ \A r \in Requests : req'[r] = Idle
         \/ /\ SameStatuses /\ req' = req
            /\ worker'.at = "claim" /\ worker'.job \in Queued
         \/ /\ SameStatuses /\ req' = req
            /\ worker.at = "claimed" /\ worker'.at = "run" /\ worker'.job = worker.job
         \/ /\ Recovered /\ req' = req /\ worker'.at = "idle"
         \/ /\ OneStatus(worker.job, "running") /\ req' = req
            /\ worker.at = "claim" /\ worker'.at = "claimed" /\ worker'.job = worker.job
         \/ /\ worker.at = "run" /\ worker'.at = "idle" /\ req' = req
            /\ \E end \in Ended : OneStatus(worker.job, end)
<1>0. worker \in [at : {"down", "boot", "idle", "select", "claim", "claimed", "run"},
                  job : {NoJob} \cup JobIds, payload : Payload \cup {NoPayload}]
  BY DEF TypeOK, WorkerOK
<1>1. CASE StartServer \/ SeeQueueStarted
  BY <1>0, <1>1 DEF StartServer, SeeQueueStarted, At, SameStatuses
<1>2. CASE Crash
  BY <1>2 DEF Crash, NoWork, SameStatuses
<1>3. CASE Recover
  <2> DEFINE New(j) == IF jobs[j].status = "running" THEN [jobs[j] EXCEPT !.status = "queued"]
                       ELSE jobs[j]
  <2>1. \A j \in DOMAIN jobs : New(j).status =
                                 IF jobs[j].status = "running" THEN "queued" ELSE jobs[j].status
    BY DEF TypeOK, TableOK, Row
  <2>2. jobs' = [j \in DOMAIN jobs |-> New(j)] /\ lastId' = lastId /\ req' = req
    BY <1>3 DEF Recover
  <2> HIDE DEF New
  <2>3. Recovered
    BY <2>1, <2>2 DEF Recovered
  <2>4. worker'.at = "idle"
    BY <1>0, <1>3 DEF Recover, At
  <2> QED
    BY <2>2, <2>3, <2>4
<1>4. CASE SelectNext
  BY <1>4 DEF SelectNext, NoWork, SameStatuses
<1>5. CASE Claim
  <2> DEFINE row == [jobs[worker.job] EXCEPT !.status = "running"]
  <2>1. worker.job \in DOMAIN jobs => row.status = "running"
    BY DEF TypeOK, TableOK, Row
  <2>2. jobs' = Update(worker.job, row) /\ lastId' = lastId /\ req' = req
    BY <1>5 DEF Claim
  <2> HIDE DEF row
  <2>3. OneStatus(worker.job, "running")
    BY <2>1, <2>2, UpdateStatus
  <2>4. worker.at = "claim" /\ worker'.at = "claimed" /\ worker'.job = worker.job
    BY <1>0, <1>5 DEF Claim, At
  <2> QED
    BY <2>2, <2>3, <2>4
<1>6. CASE RecordVideo
  <2> DEFINE row == IF jobs[worker.job].kind = "process" /\ jobs[worker.job].video = NoVideo
                    THEN [jobs[worker.job] EXCEPT !.video = worker.payload.url]
                    ELSE jobs[worker.job]
  <2>1. worker.job \in DOMAIN jobs => row.status = jobs[worker.job].status
    BY DEF TypeOK, TableOK, Row
  <2>2. jobs' = Update(worker.job, row) /\ lastId' = lastId /\ req' = req
    BY <1>6 DEF RecordVideo
  <2> HIDE DEF row
  <2>3. SameStatuses
    BY <2>1, <2>2, UpdateKeeps
  <2>4. worker.at = "claimed" /\ worker'.at = "run" /\ worker'.job = worker.job
    BY <1>0, <1>6 DEF RecordVideo, At
  <2> QED
    BY <2>2, <2>3, <2>4
<1>7. CASE Finish
  <2>1. PICK end \in Ended :
          jobs' = Update(worker.job, [jobs[worker.job] EXCEPT !.status = end])
    BY <1>7 DEF Finish
  <2> DEFINE row == [jobs[worker.job] EXCEPT !.status = end]
  <2>2. worker.job \in DOMAIN jobs => row.status = end
    BY DEF TypeOK, TableOK, Row
  <2>3. jobs' = Update(worker.job, row) /\ lastId' = lastId /\ req' = req
    BY <1>7, <2>1 DEF Finish
  <2> HIDE DEF row
  <2>4. OneStatus(worker.job, end)
    BY <2>2, <2>3, UpdateStatus
  <2>5. worker.at = "run" /\ worker'.at = "idle"
    BY <1>7 DEF Finish, NoWork
  <2> QED
    BY <2>3, <2>4, <2>5
<1> QED
  BY <1>1, <1>2, <1>3, <1>4, <1>5, <1>6, <1>7 DEF WorkerStep

-----------------------------------------------------------------------------
(* HeldInv is inductive.                                                    *)
LEMMA HeldInitially == Init => HeldInv
BY SafetyInitially DEF Init, HeldInv, HeldRowIsRunning, Holds, ClaimIsWaiting, RetryIsEnded,
   HeldIsOld, RetryIsOld, OvertakenIsOld, Idle, NoWork

(* The table as the worker and a retry know it: TypeOK's part of it.        *)
LEMMA Ids == TypeOK => lastId \in Nat /\ DOMAIN jobs \subseteq 1 .. lastId
BY ConstantsAssumption DEF TypeOK, TableOK

LEMMA RequestKeepsHeld ==
  ASSUME HeldInv, NEW r \in Requests, Request(r)
  PROVE  /\ HeldRowIsRunning' /\ ClaimIsWaiting' /\ RetryIsEnded'
         /\ HeldIsOld' /\ RetryIsOld' /\ OvertakenIsOld'
<1> USE DEF Mine, Free, Holds, HeldRowIsRunning, ClaimIsWaiting, RetryIsEnded, HeldIsOld, RetryIsOld,
    OvertakenIsOld, Followed
<1>1. TypeOK /\ lastId \in Nat /\ DOMAIN jobs \subseteq 1 .. lastId
  BY Ids DEF HeldInv, SafetyInv
<1>2. worker' = worker /\ overtaken \subseteq overtaken'
  BY <1>1, RequestKinds, OnlyRetryOvertakes DEF Overtaking
<1>a. OvertakenIsOld'
  <2>1. lastId' \in Nat /\ lastId' >= lastId
    <3>1. lastId' = lastId \/ lastId' = lastId + 1
      <4> HIDE DEF Mine, Free
      <4> QED
        BY <1>1, RequestKinds DEF SameStatuses, RowAdded, OneStatus, RowsGone
    <3> QED
      BY <1>1, <3>1
  <2>2. Retry(r) => req[r].at = "retry"
    BY DEF Retry, Step, Reply
  <2>3. overtaken' \subseteq 1 .. lastId
    BY <1>1, <2>2, OnlyRetryOvertakes DEF HeldInv, Overtaking
  <2> QED
    BY <1>1, <2>1, <2>3
<1>b. \A q \in Requests \ {r} : req'[q] = req[q]
  BY <1>1, RequestKinds
<1>3. CASE SameStatuses /\ Free(req'[r])
  BY <1>1, <1>2, <1>a, <1>b, <1>3 DEF HeldInv, SameStatuses
<1>4. CASE SameStatuses /\ req'[r].at = "retry" /\ req'[r].job \in With(Retryable)
  BY <1>1, <1>2, <1>a, <1>b, <1>4 DEF HeldInv, SameStatuses, With
<1>5. CASE SameStatuses /\ req'[r].at = "remove" /\ req'[r].job \in DOMAIN jobs
  BY <1>1, <1>2, <1>a, <1>b, <1>5 DEF HeldInv, SameStatuses
<1>6. CASE RowAdded /\ Free(req'[r])
  <2>1. worker.at \in {"claim", "claimed", "run"} => worker.job # lastId + 1
    BY <1>1 DEF HeldInv
  <2> QED
    BY <1>1, <1>2, <1>a, <1>b, <1>6, <2>1 DEF HeldInv, RowAdded
<1>7. CASE Retry(r) /\ req[r].at = "retry" /\ OneStatus(req[r].job, "queued") /\ Free(req'[r])
  <2> DEFINE j == req[r].job
  <2>1. j \in Followed' => /\ jobs[j].status \in {"failed", "cancelled"} /\ j \in Followed
                            /\ \A q \in Requests \ {r} : ~(req[q].at = "retry" /\ req[q].job = j)
    <3> SUFFICES ASSUME j \in Followed'
                 PROVE  /\ jobs[j].status \in {"failed", "cancelled"} /\ j \in Followed
                        /\ \A q \in Requests \ {r} : ~(req[q].at = "retry" /\ req[q].job = j)
      OBVIOUS
    <3>1. j \in Followed
      BY <1>2, <1>7 DEF OneStatus
    <3>2. Overtaking(r)
      BY <1>1, OnlyRetryOvertakes
    <3>3. Rivals(r) = {}
      BY <1>7, <3>2 DEF Overtaking
    <3>4. jobs[j].status \in {"failed", "cancelled"}
      BY <1>7, <3>1 DEF HeldInv, Retryable
    <3> QED
      BY <3>1, <3>3, <3>4 DEF Rivals
  <2>2. DOMAIN jobs' = DOMAIN jobs /\ lastId' = lastId /\ Followed' \subseteq Followed
    BY <1>2, <1>7 DEF OneStatus
  <2>3. RetryIsEnded'
    <3> SUFFICES ASSUME NEW q \in Requests, req'[q].at = "retry", req'[q].job \in Followed'
                 PROVE  jobs'[req'[q].job].status \in Retryable
      OBVIOUS
    <3>1. q # r /\ req'[q] = req[q]
      BY <1>1, <1>7, RequestKinds
    <3>2. req[q].job # j
      BY <2>1, <3>1
    <3> QED
      BY <1>7, <2>2, <3>1, <3>2 DEF HeldInv, OneStatus
  <2>4. HeldRowIsRunning'
    BY <1>2, <1>7, <2>1, <2>2 DEF HeldInv, OneStatus
  <2> QED
    BY <1>1, <1>2, <1>7, <1>a, <2>2, <2>3, <2>4, RequestKinds DEF HeldInv, OneStatus
<1>8. CASE req[r].at = "remove" /\ RowsGone({req[r].job}) /\ Free(req'[r])
  BY <1>1, <1>2, <1>a, <1>b, <1>8 DEF HeldInv, RowsGone
<1>9. CASE \E group \in ClearGroups : /\ With(group) # {} /\ RowsGone(With(group))
                                      /\ Free(req'[r])
  BY <1>1, <1>2, <1>a, <1>b, <1>9 DEF HeldInv, RowsGone
<1> QED
  BY <1>1, <1>3, <1>4, <1>5, <1>6, <1>7, <1>8, <1>9, <1>a, RequestKinds

LEMMA WorkerKeepsHeld ==
  ASSUME HeldInv, StartServer \/ WorkerStep \/ Crash
  PROVE  /\ HeldRowIsRunning' /\ ClaimIsWaiting' /\ RetryIsEnded'
         /\ HeldIsOld' /\ RetryIsOld' /\ OvertakenIsOld'
<1> USE DEF Holds, HeldRowIsRunning, ClaimIsWaiting, RetryIsEnded, HeldIsOld, RetryIsOld,
    OvertakenIsOld, Followed
<1>1. TypeOK /\ lastId \in Nat /\ DOMAIN jobs \subseteq 1 .. lastId
  BY Ids DEF HeldInv, SafetyInv
<1>a. overtaken' = overtaken
  BY WorkerNeverOvertakes
<1>2. CASE /\ SameStatuses
           /\ worker'.at \in {"down", "boot", "idle", "select"}
           /\ req' = req \/ \A r \in Requests : req'[r] = Idle
  BY <1>a, <1>2 DEF HeldInv, SameStatuses, Idle
<1>3. CASE /\ SameStatuses /\ req' = req
           /\ worker'.at = "claim" /\ worker'.job \in Queued
  BY <1>1, <1>a, <1>3 DEF HeldInv, SameStatuses, Queued, With
<1>4. CASE /\ SameStatuses /\ req' = req
           /\ worker.at = "claimed" /\ worker'.at = "run" /\ worker'.job = worker.job
  BY <1>a, <1>4 DEF HeldInv, SameStatuses
<1>5. CASE Recovered /\ req' = req /\ worker'.at = "idle"
  BY <1>a, <1>5 DEF HeldInv, Recovered, Retryable
<1>6. CASE /\ OneStatus(worker.job, "running") /\ req' = req
           /\ worker.at = "claim" /\ worker'.at = "claimed" /\ worker'.job = worker.job
  <2>1. \A r \in Requests : req[r].at = "retry" /\ req[r].job \in Followed =>
                               req[r].job # worker.job
    BY <1>a, <1>6 DEF HeldInv, Retryable
  <2> QED
    BY <1>a, <1>6, <2>1 DEF HeldInv, OneStatus
<1>7. CASE /\ worker.at = "run" /\ worker'.at = "idle" /\ req' = req
           /\ \E end \in Ended : OneStatus(worker.job, end)
  <2>1. PICK end \in Ended : OneStatus(worker.job, end)
    BY <1>7
  <2>2. \A r \in Requests : req[r].at = "retry" /\ req[r].job \in Followed =>
                               req[r].job # worker.job
    BY <1>a, <1>7 DEF HeldInv, Retryable
  <2> QED
    BY <1>a, <1>7, <2>1, <2>2 DEF HeldInv, OneStatus
<1> QED
  BY <1>1, <1>a, <1>2, <1>3, <1>4, <1>5, <1>6, <1>7, WorkerKinds

LEMMA HeldStep ==
  ASSUME HeldInv, [Next]_vars
  PROVE  HeldInv'
<1>1. SafetyInv'
  BY SafetyStep DEF HeldInv
<1>2. ASSUME NEW r \in Requests, Request(r) PROVE HeldInv'
  BY <1>1, <1>2, RequestKeepsHeld DEF HeldInv
<1>3. CASE StartServer \/ WorkerStep \/ Crash
  BY <1>1, <1>3, WorkerKeepsHeld DEF HeldInv
<1>4. CASE UNCHANGED vars
  BY <1>1, <1>4 DEF vars, HeldInv, HeldRowIsRunning, Holds, ClaimIsWaiting, RetryIsEnded, HeldIsOld,
                    RetryIsOld, OvertakenIsOld, Followed
<1> QED
  BY <1>2, <1>3, <1>4 DEF Next

(* Whatever requests interleave, the row of the job that runs says so until  *)
(* it is deleted or two requests retry it at once: what the worker claimed   *)
(* is what it read, and no retry on its own puts a job back that already     *)
(* runs.                                                                    *)
THEOREM RunningSaysSo == Spec => []HeldRowIsRunning
<1>1. HeldInv => HeldRowIsRunning
  BY DEF HeldInv
<1>2. HeldInv /\ [Next]_vars => HeldInv'
  BY HeldStep
<1> QED
  BY <1>1, <1>2, HeldInitially, PTL DEF Spec

-----------------------------------------------------------------------------
(* The refinement.                                                          *)
LEMMA StatusIs ==
  ASSUME TypeOK, NEW j \in JobIds
  PROVE  StatusOf[j] = IF j \in Followed THEN jobs[j].status
                       ELSE IF j > lastId THEN "new" ELSE "gone"
<1>1. JobIds \subseteq Nat /\ lastId \in Nat /\ DOMAIN jobs \subseteq 1 .. lastId
  BY Ids, ConstantsAssumption DEF JobIds
<1>2. CASE j \in Followed
  BY <1>1, <1>2 DEF StatusOf, Followed
<1>3. CASE j \notin Followed
  BY <1>1, <1>3 DEF StatusOf
<1> QED
  BY <1>2, <1>3

LEMMA StatusIsNext ==
  ASSUME TypeOK', NEW j \in JobIds
  PROVE  StatusOf'[j] = IF j \in Followed' THEN jobs'[j].status
                        ELSE IF j > lastId' THEN "new" ELSE "gone"
<1>1. JobIds \subseteq Nat /\ lastId' \in Nat /\ DOMAIN jobs' \subseteq 1 .. lastId'
  BY ConstantsAssumption DEF JobIds, TypeOK, TableOK
<1>2. CASE j \in Followed'
  BY <1>1, <1>2 DEF StatusOf, Followed
<1>3. CASE j \notin Followed'
  BY <1>1, <1>3 DEF StatusOf
<1> QED
  BY <1>2, <1>3

(* Becoming is judged job by job.                                           *)
LEMMA BecomeIs ==
  ASSUME NEW S \in SUBSET JobIds, NEW s,
         \A j \in JobIds : StatusOf'[j] = IF j \in S THEN s ELSE StatusOf[j]
  PROVE  Lifecycle!Become(S, s)
<1>1. StatusOf' = [j \in JobIds |-> StatusOf'[j]]
  BY DEF StatusOf
<1> QED
  BY <1>1 DEF Lifecycle!Become

LEMMA StatusStays ==
  ASSUME TypeOK, TypeOK', SameStatuses, overtaken' = overtaken
  PROVE  StatusOf' = StatusOf
<1>1. \A j \in JobIds : StatusOf'[j] = StatusOf[j]
  BY StatusIs, StatusIsNext DEF SameStatuses, Followed
<1> QED
  BY <1>1 DEF StatusOf

(* A status written by id is a step of that job, or nothing if the row is    *)
(* not there.                                                               *)
LEMMA StatusBecomes ==
  ASSUME TypeOK, TypeOK', NEW j, NEW s, OneStatus(j, s), j \in Followed, overtaken' = overtaken
  PROVE  j \in JobIds /\ StatusOf[j] = jobs[j].status /\ Lifecycle!Become({j}, s)
<1>1. j \in JobIds
  BY RowFacts DEF TypeOK, Followed
<1>2. \A i \in JobIds : StatusOf'[i] = IF i \in {j} THEN s ELSE StatusOf[i]
  BY StatusIs, StatusIsNext DEF OneStatus, Followed
<1> QED
  BY <1>1, <1>2, StatusIs, BecomeIs

LEMMA StatusIdle ==
  ASSUME TypeOK, TypeOK', NEW j, NEW s, OneStatus(j, s), j \notin Followed, overtaken' = overtaken
  PROVE  StatusOf' = StatusOf
<1>1. \A i \in JobIds : StatusOf'[i] = StatusOf[i]
  BY StatusIs, StatusIsNext DEF OneStatus, Followed
<1> QED
  BY <1>1 DEF StatusOf

(* Rows that are deleted leave; so does, for the lifecycle, a job that a     *)
(* second retry overtakes.                                                  *)
LEMMA LeaveRefines ==
  ASSUME TypeOK, TypeOK', NEW G, G \subseteq Followed,
         \A i \in JobIds : StatusOf'[i] = IF i \in G THEN "gone" ELSE StatusOf[i]
  PROVE  Lifecycle!Next \/ StatusOf' = StatusOf
<1>1. G \subseteq JobIds
  BY RowFacts DEF TypeOK, Followed
<1>2. CASE G = {}
  <2>1. \A i \in JobIds : StatusOf'[i] = StatusOf[i]
    BY <1>2
  <2> QED
    BY <2>1 DEF StatusOf
<1>3. CASE G # {}
  <2>1. \A i \in G : StatusOf[i] # "new"
    BY <1>1, StatusIs DEF TypeOK, TableOK, Row, Live, Ended, Retryable, Followed
  <2>2. Lifecycle!Leave(G)
    BY <1>1, <1>3, <2>1, BecomeIs DEF Lifecycle!Leave
  <2> QED
    BY <1>1, <2>2 DEF Lifecycle!Next
<1> QED
  BY <1>2, <1>3

LEMMA DeleteRefines ==
  ASSUME TypeOK, TypeOK', NEW S, RowsGone(S), overtaken' = overtaken
  PROVE  Lifecycle!Next \/ StatusOf' = StatusOf
<1> DEFINE G == S \cap Followed
<1>1. \A i \in JobIds : StatusOf'[i] = IF i \in G THEN "gone" ELSE StatusOf[i]
  <2> SUFFICES ASSUME NEW i \in JobIds
               PROVE  StatusOf'[i] = IF i \in G THEN "gone" ELSE StatusOf[i]
    OBVIOUS
  <2>1. i \in DOMAIN jobs => ~(i > lastId)
    BY Ids
  <2> QED
    BY <2>1, StatusIs, StatusIsNext DEF RowsGone, Followed
<1>2. G \subseteq Followed
  OBVIOUS
<1> HIDE DEF G
<1> QED
  BY <1>1, <1>2, LeaveRefines

LEMMA RetryRefines ==
  ASSUME HeldInv, TypeOK', NEW r \in Requests, Retry(r), Overtaking(r),
         req[r].at = "retry", OneStatus(req[r].job, "queued")
  PROVE  Lifecycle!Next \/ StatusOf' = StatusOf
<1> DEFINE j == req[r].job
<1>1. TypeOK /\ \A i \in DOMAIN jobs : ~(i > lastId)
  BY Ids DEF HeldInv, SafetyInv
<1>2. CASE Rivals(r) = {}
  <2>1. overtaken' = overtaken
    BY <1>2 DEF Overtaking
  <2>2. CASE j \notin Followed
    BY <1>1, <2>1, <2>2, StatusIdle
  <2>3. CASE j \in Followed
    <3>1. j \in JobIds /\ StatusOf[j] = jobs[j].status /\ Lifecycle!Become({j}, "queued")
      BY <1>1, <2>1, <2>3, StatusBecomes
    <3>2. jobs[j].status \in {"failed", "cancelled"}
      BY <2>3 DEF HeldInv, RetryIsEnded, Retryable
    <3>3. Lifecycle!Again(j)
      BY <3>1, <3>2 DEF Lifecycle!Again
    <3> QED
      BY <3>1, <3>3 DEF Lifecycle!Next
  <2> QED
    BY <2>2, <2>3
<1>3. CASE Rivals(r) # {}
  <2> DEFINE G == {j} \cap Followed
  <2>1. overtaken' = overtaken \cup {j}
    BY <1>3 DEF Overtaking
  <2>2. \A i \in JobIds : StatusOf'[i] = IF i \in G THEN "gone" ELSE StatusOf[i]
    BY <1>1, <2>1, StatusIs, StatusIsNext DEF OneStatus, Followed
  <2>3. G \subseteq Followed
    OBVIOUS
  <2> HIDE DEF G
  <2> QED
    BY <1>1, <2>2, <2>3, LeaveRefines
<1> QED
  BY <1>2, <1>3

LEMMA RequestRefines ==
  ASSUME HeldInv, TypeOK', NEW r \in Requests, Request(r)
  PROVE  Lifecycle!Next \/ StatusOf' = StatusOf
<1>1. TypeOK /\ lastId \in Nat /\ DOMAIN jobs \subseteq 1 .. lastId /\ Overtaking(r)
  BY Ids, OnlyRetryOvertakes DEF HeldInv, SafetyInv
<1>2. CASE Retry(r)
  <2>1. req[r].at = "retry" /\ OneStatus(req[r].job, "queued")
    BY <1>1, <1>2, RetryKind
  <2> QED
    BY <1>1, <1>2, <2>1, RetryRefines
<1>3. CASE ~Retry(r)
  <2>0. overtaken' = overtaken
    BY <1>1, <1>3 DEF Overtaking
  <2>1. CASE SameStatuses
    BY <1>1, <2>0, <2>1, StatusStays
  <2>2. CASE RowAdded
    <3>1. lastId + 1 \in JobIds
      BY <1>1, <2>2, ConstantsAssumption DEF RowAdded, TypeOK, TableOK, JobIds
    <3>2. lastId + 1 \notin Followed /\ lastId + 1 > lastId /\ lastId + 1 \in Followed'
      BY <1>1, <2>0, <2>2 DEF RowAdded, Followed, HeldInv, OvertakenIsOld
    <3>3. StatusOf[lastId + 1] = "new"
      BY <1>1, <3>1, <3>2, StatusIs
    <3>4. \A i \in JobIds : StatusOf'[i] = IF i \in {lastId + 1} THEN "queued" ELSE StatusOf[i]
      <4> SUFFICES ASSUME NEW i \in JobIds
                   PROVE  StatusOf'[i] = IF i \in {lastId + 1} THEN "queued" ELSE StatusOf[i]
        OBVIOUS
      <4>1. i \in Nat
        BY ConstantsAssumption DEF JobIds
      <4>2. i # lastId + 1 => (i > lastId <=> i > lastId') /\ (i \in Followed' <=> i \in Followed)
        BY <1>1, <2>0, <2>2, <4>1 DEF RowAdded, Followed
      <4>3. i # lastId + 1 /\ i \in Followed => jobs'[i].status = jobs[i].status
        BY <2>2 DEF RowAdded, Followed
      <4>4. jobs'[lastId + 1].status = "queued"
        BY <2>2 DEF RowAdded
      <4> QED
        BY <1>1, <3>2, <4>2, <4>3, <4>4, StatusIs, StatusIsNext
    <3>5. Lifecycle!Enter(lastId + 1)
      BY <3>1, <3>3, <3>4, BecomeIs DEF Lifecycle!Enter
    <3> QED
      BY <3>1, <3>5 DEF Lifecycle!Next
  <2>3. CASE \E S : RowsGone(S)
    BY <1>1, <2>0, <2>3, DeleteRefines
  <2> QED
    BY <1>1, <1>3, <2>1, <2>2, <2>3, RequestKinds
<1> QED
  BY <1>2, <1>3

LEMMA WorkerRefines ==
  ASSUME HeldInv, TypeOK', StartServer \/ WorkerStep \/ Crash
  PROVE  Lifecycle!Next \/ StatusOf' = StatusOf
<1> DEFINE w == worker.job
<1>1. TypeOK /\ overtaken' = overtaken
  BY WorkerNeverOvertakes DEF HeldInv, SafetyInv
<1>2. CASE SameStatuses
  BY <1>1, <1>2, StatusStays
<1>3. CASE Recovered
  <2>1. CASE Running = {}
    <3>1. SameStatuses
      BY <1>3, <2>1 DEF Recovered, SameStatuses, Running, With
    <3> QED
      BY <1>1, <3>1, StatusStays
  <2>2. ASSUME NEW j \in Running PROVE Lifecycle!Next \/ StatusOf' = StatusOf
    <3>1. j \in DOMAIN jobs /\ jobs[j].status = "running" /\ \A i \in Running : i = j
      BY <2>2 DEF HeldInv, SafetyInv, OneRunning, Running, With
    <3>2. OneStatus(j, "queued")
      BY <1>3, <3>1 DEF Recovered, OneStatus, Running, With
    <3>3. CASE j \in Followed
      <4>1. j \in JobIds /\ StatusOf[j] = "running" /\ Lifecycle!Become({j}, "queued")
        BY <1>1, <3>1, <3>2, <3>3, StatusBecomes
      <4>2. Lifecycle!Interrupted(j)
        BY <4>1 DEF Lifecycle!Interrupted
      <4> QED
        BY <4>1, <4>2 DEF Lifecycle!Next
    <3>4. CASE j \notin Followed
      BY <1>1, <3>2, <3>4, StatusIdle
    <3> QED
      BY <3>3, <3>4
  <2> QED
    BY <2>1, <2>2
<1>4. CASE worker.at = "claim" /\ OneStatus(w, "running")
  <2>1. CASE w \notin Followed
    BY <1>1, <1>4, <2>1, StatusIdle
  <2>2. CASE w \in Followed
    <3>1. w \in JobIds /\ StatusOf[w] = jobs[w].status /\ Lifecycle!Become({w}, "running")
      BY <1>1, <1>4, <2>2, StatusBecomes
    <3>2. StatusOf[w] = "queued"
      BY <1>4, <2>2, <3>1 DEF HeldInv, ClaimIsWaiting, Followed
    <3>3. \A k \in JobIds : StatusOf[k] # "running"
      BY <1>1, <1>4, StatusIs DEF HeldInv, SafetyInv, RunningIsHeld, Holds, With, Followed
    <3>4. Lifecycle!Start(w)
      BY <3>1, <3>2, <3>3 DEF Lifecycle!Start
    <3> QED
      BY <3>1, <3>4 DEF Lifecycle!Next
  <2> QED
    BY <2>1, <2>2
<1>5. CASE worker.at = "run" /\ \E end \in Ended : OneStatus(w, end)
  <2>1. PICK end \in Ended : OneStatus(w, end)
    BY <1>5
  <2>2. CASE w \notin Followed
    BY <1>1, <2>1, <2>2, StatusIdle
  <2>3. CASE w \in Followed
    <3>1. w \in JobIds /\ StatusOf[w] = jobs[w].status /\ Lifecycle!Become({w}, end)
      BY <1>1, <2>1, <2>3, StatusBecomes
    <3>2. StatusOf[w] = "running"
      BY <1>5, <2>3, <3>1 DEF HeldInv, HeldRowIsRunning, Holds
    <3>3. end \in Lifecycle!Finished
      BY DEF Ended, Retryable, Lifecycle!Finished
    <3>4. Lifecycle!End(w)
      BY <3>1, <3>2, <3>3 DEF Lifecycle!End
    <3> QED
      BY <3>1, <3>4 DEF Lifecycle!Next
  <2> QED
    BY <2>2, <2>3
<1> QED
  BY <1>1, <1>2, <1>3, <1>4, <1>5, WorkerKinds

LEMMA StepRefines ==
  ASSUME HeldInv, TypeOK', [Next]_vars
  PROVE  [Lifecycle!Next]_StatusOf
<1>1. CASE UNCHANGED vars
  BY <1>1 DEF vars, StatusOf, Followed
<1> QED
  BY <1>1, RequestRefines, WorkerRefines DEF Next

LEMMA InitRefines == Init => Lifecycle!Init
<1> SUFFICES ASSUME Init PROVE Lifecycle!Init
  OBVIOUS
<1>1. \A j \in JobIds : StatusOf[j] = "new"
  BY InitType, StatusIs, ConstantsAssumption DEF Init, JobIds, Followed
<1>2. StatusOf = [j \in JobIds |-> StatusOf[j]]
  BY DEF StatusOf
<1> QED
  BY <1>1, <1>2 DEF Lifecycle!Init

(* Whatever requests interleave, every step of the table is a step of the    *)
(* lifecycle the docs promise, or changes no status of a job that no two     *)
(* requests retried at once: a job that left never comes back, a finished    *)
(* one never runs again, one that ran when the process died waits again, and *)
(* only a failed or cancelled one is retried.                               *)
THEOREM QueueFollowsLifecycle == Spec => FollowsLifecycle
<1>1. HeldInv /\ [Next]_vars => HeldInv'
  BY HeldStep
<1>2. HeldInv /\ HeldInv' /\ [Next]_vars => [Lifecycle!Next]_StatusOf
  BY StepRefines DEF HeldInv, SafetyInv
<1> QED
  BY <1>1, <1>2, HeldInitially, InitRefines, PTL DEF Spec, FollowsLifecycle, Lifecycle!Spec
=============================================================================
