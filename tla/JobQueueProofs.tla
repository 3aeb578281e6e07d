--------------------------- MODULE JobQueueProofs ---------------------------
(***************************************************************************)
(* Theorems about JobQueue for every number of request threads, videos,    *)
(* settings, jobs, calls and crashes.                                      *)
(***************************************************************************)
EXTENDS JobQueue, TLAPS

-----------------------------------------------------------------------------
(* What a step of a request does to the request's own record.              *)

(* The idle record has its type.                                           *)
LEMMA IdleType == Idle \in Local
BY DEF Idle, Local, ReqPlaces, AllDoors, JobIds, NoJob

(* Writing one well-typed record keeps RequestsOK.                         *)
LEMMA OneRecord ==
  ASSUME RequestsOK, NEW r \in Requests, NEW local \in Local,
         local.at \in {"add", "insert", "retry", "patch"} => local.payload \in Payload,
         req' = [req EXCEPT ![r] = local]
  PROVE  RequestsOK'
BY DEF RequestsOK

(* Answering a request keeps RequestsOK.                                   *)
LEMMA ReplyType ==
  ASSUME RequestsOK, NEW r \in Requests, req' = [req EXCEPT ![r] = Idle]
  PROVE  RequestsOK'
BY IdleType, OneRecord DEF Idle

(* An UPDATE by id writes a row of the right type or nothing.              *)
LEMMA UpdateType ==
  ASSUME TableOK, NEW j, NEW row, j \in DOMAIN jobs => row \in Row,
         jobs' = Update(j, row), lastId' = lastId
  PROVE  TableOK'
BY DEF TableOK, Update

(* Deleting rows leaves rows.                                              *)
LEMMA DeleteType ==
  ASSUME TableOK, NEW S, DeleteRows(S), lastId' = lastId
  PROVE  TableOK'
BY DEF TableOK, DeleteRows

(* What is known of a row that is in the table.                            *)
LEMMA RowFacts ==
  ASSUME TableOK, NEW j \in DOMAIN jobs
  PROVE  /\ j \in JobIds /\ jobs[j] \in Row
         /\ jobs[j].position \in Nat /\ jobs[j].payload \in Payload
<1>1. jobs[j] \in Row
  BY DEF TableOK
<1>2. j \in JobIds
  BY ConstantsAssumption DEF TableOK, JobIds
<1> QED
  BY <1>1, <1>2 DEF Row

(* The end of the queue is a position.                                     *)
LEMMA EndType ==
  ASSUME TableOK, NEW p \in EndCandidates
  PROVE  p \in Nat
BY DEF TableOK, EndCandidates, Row

LEMMA InitType == Init => TypeOK
<1> SUFFICES ASSUME Init PROVE TypeOK
  OBVIOUS
<1> USE DEF Init
<1>1. TableOK
  BY ConstantsAssumption DEF TableOK
<1>2. RequestsOK
  BY IdleType DEF RequestsOK, Idle
<1>3. WorkerOK
  BY DEF WorkerOK, NoWork, NoJob
<1> QED
  BY <1>1, <1>2, <1>3, ConstantsAssumption DEF TypeOK

(* Two facts many steps need: what a request carries, and a started request. *)
LEMMA Carries ==
  ASSUME RequestsOK, NEW r \in Requests
  PROVE  /\ req[r] \in Local
         /\ req[r].job \in {NoJob} \cup JobIds
         /\ req[r].position \in Nat /\ req[r].otherPosition \in Nat
         /\ req[r].at \in {"add", "insert", "retry", "patch"} => req[r].payload \in Payload
BY DEF RequestsOK, Local

LEMMA BeginType ==
  ASSUME TypeOK, NEW r \in Requests, NEW local \in Local,
         local.at \in {"add", "insert", "retry", "patch"} => local.payload \in Payload,
         Begin(r, local)
  PROVE  RequestsOK' /\ calls' \in 0 .. MaxCalls
<1>1. RequestsOK'
  BY OneRecord DEF TypeOK, Begin
<1>2. calls' \in 0 .. MaxCalls
  BY ConstantsAssumption DEF TypeOK, Begin
<1> QED
  BY <1>1, <1>2

-----------------------------------------------------------------------------
(* One lemma per operation that does not touch the worker.                 *)

LEMMA AddType == ASSUME TypeOK, NEW r \in Requests, Add(r) PROVE TypeOK'
<1>1. PICK door \in Doors, p \in Payload :
        Begin(r, [Idle EXCEPT !.at = "add", !.door = door, !.payload = p,
                              !.checks = ChecksOf(door)])
  BY DEF Add
<1>2. ChecksOf(door) \in SUBSET {"capacity", "duplicate"} /\ door \in AllDoors
  BY ConstantsAssumption DEF ChecksOf, AllDoors
<1>3. [Idle EXCEPT !.at = "add", !.door = door, !.payload = p,
                   !.checks = ChecksOf(door)] \in Local
  BY <1>2, IdleType DEF Idle, Local, ReqPlaces
<1>4. RequestsOK' /\ calls' \in 0 .. MaxCalls
  BY <1>1, <1>3, BeginType DEF Idle
<1> QED
  BY <1>4 DEF Add, TypeOK, TableOK, WorkerOK

LEMMA CheckCapacityType ==
  ASSUME TypeOK, NEW r \in Requests, CheckCapacity(r) PROVE TypeOK'
<1>1. RequestsOK'
  <2>1. CASE Step(r, "add", [req[r] EXCEPT !.checks = @ \ {"capacity"}])
    <3>1. [req[r] EXCEPT !.checks = @ \ {"capacity"}] \in Local
      BY Carries DEF TypeOK, Local
    <3> QED
      BY <2>1, <3>1, Carries, OneRecord DEF TypeOK, Step, Local
  <2>2. CASE Reply(r, "add")
    BY <2>2, ReplyType DEF Reply, Step, TypeOK
  <2> QED
    BY <2>1, <2>2 DEF CheckCapacity
<1> QED
  BY <1>1 DEF CheckCapacity, TypeOK, TableOK, WorkerOK

LEMMA CheckDuplicateType ==
  ASSUME TypeOK, NEW r \in Requests, CheckDuplicate(r) PROVE TypeOK'
<1>1. RequestsOK'
  <2>1. CASE Step(r, "add", [req[r] EXCEPT !.checks = @ \ {"duplicate"}])
    <3>1. [req[r] EXCEPT !.checks = @ \ {"duplicate"}] \in Local
      BY Carries DEF TypeOK, Local
    <3> QED
      BY <2>1, <3>1, Carries, OneRecord DEF TypeOK, Step, Local
  <2>2. CASE Reply(r, "add")
    BY <2>2, ReplyType DEF Reply, Step, TypeOK
  <2>3. ASSUME NEW j \in SameVideo(r), Step(r, "add", [Idle EXCEPT !.at = "alone", !.job = j])
        PROVE  RequestsOK'
    <3>1. j \in JobIds
      BY RowFacts DEF SameVideo, With, TypeOK
    <3>2. [Idle EXCEPT !.at = "alone", !.job = j] \in Local
      BY <3>1, IdleType DEF Idle, Local, ReqPlaces
    <3> QED
      BY <2>3, <3>2, OneRecord DEF TypeOK, Step, Idle
  <2> QED
    BY <2>1, <2>2, <2>3 DEF CheckDuplicate
<1> QED
  BY <1>1 DEF CheckDuplicate, TypeOK, TableOK, WorkerOK

LEMMA ReadPlaceType ==
  ASSUME TypeOK, NEW r \in Requests, ReadPlace(r) PROVE TypeOK'
<1>1. RequestsOK'
  <2>1. ASSUME NEW p \in EndCandidates,
               Step(r, "add", [req[r] EXCEPT !.at = "insert", !.position = p])
        PROVE  RequestsOK'
    <3>1. [req[r] EXCEPT !.at = "insert", !.position = p] \in Local
      BY Carries, EndType DEF TypeOK, Local, ReqPlaces
    <3> QED
      BY <2>1, <3>1, Carries, OneRecord DEF TypeOK, Step, Local
  <2>2. ASSUME NEW j \in WaitingVideos,
               Step(r, "add", [req[r] EXCEPT !.at = "insert", !.other = j,
                                             !.position = jobs[j].position])
        PROVE  RequestsOK'
    <3>1. j \in JobIds /\ jobs[j].position \in Nat
      BY RowFacts DEF WaitingVideos, Queued, With, TypeOK
    <3>2. [req[r] EXCEPT !.at = "insert", !.other = j, !.position = jobs[j].position] \in Local
      BY <3>1, Carries DEF TypeOK, Local, ReqPlaces
    <3> QED
      BY <2>2, <3>2, Carries, OneRecord DEF TypeOK, Step, Local
  <2> QED
    BY <2>1, <2>2 DEF ReadPlace
<1> QED
  BY <1>1 DEF ReadPlace, TypeOK, TableOK, WorkerOK

LEMMA InsertType ==
  ASSUME TypeOK, NEW r \in Requests, Insert(r) PROVE TypeOK'
<1>1. RequestsOK'
  <2>1. CASE Step(r, "insert", [Idle EXCEPT !.at = "alone", !.job = lastId + 1])
    <3>1. lastId + 1 \in JobIds
      BY ConstantsAssumption DEF Insert, TypeOK, TableOK, JobIds
    <3>2. [Idle EXCEPT !.at = "alone", !.job = lastId + 1] \in Local
      BY <3>1, IdleType DEF Idle, Local, ReqPlaces
    <3> QED
      BY <2>1, <3>2, OneRecord DEF TypeOK, Step, Idle
  <2>2. CASE Reply(r, "insert")
    BY <2>2, ReplyType DEF Reply, Step, TypeOK
  <2> QED
    BY <2>1, <2>2 DEF Insert
<1>2. req[r].at = "insert"
  BY DEF Insert, Step, Reply
<1>3. NewRow(r) \in Row
  BY <1>2, Carries DEF TypeOK, NewRow, Row, Live, Payload
<1>4. \A j \in DOMAIN jobs : Shifted(r, j) \in Row
  BY DEF TypeOK, TableOK, Shifted, Row
<1>5. TableOK'
  BY <1>3, <1>4, ConstantsAssumption DEF TypeOK, TableOK, Insert
<1> QED
  BY <1>1, <1>5 DEF Insert, TypeOK, WorkerOK

LEMMA AloneType ==
  ASSUME TypeOK, NEW r \in Requests, LookForOthers(r) \/ StartIfAlone(r) PROVE TypeOK'
<1>1. CASE LookForOthers(r)
  <2>1. RequestsOK'
    <3>1. CASE Step(r, "alone", [req[r] EXCEPT !.at = "start"])
      <4>1. [req[r] EXCEPT !.at = "start"] \in Local
        BY Carries DEF TypeOK, Local, ReqPlaces
      <4> QED
        BY <3>1, <4>1, Carries, OneRecord DEF TypeOK, Step, Local
    <3>2. CASE Reply(r, "alone")
      BY <3>2, ReplyType DEF Reply, Step, TypeOK
    <3> QED
      BY <1>1, <3>1, <3>2 DEF LookForOthers
  <2> QED
    BY <1>1, <2>1 DEF LookForOthers, TypeOK, TableOK, WorkerOK
<1>2. CASE StartIfAlone(r)
  BY <1>2, ReplyType DEF StartIfAlone, Reply, Step, TypeOK, TableOK, WorkerOK
<1> QED
  BY <1>1, <1>2

LEMMA RetryType ==
  ASSUME TypeOK, NEW r \in Requests, AskRetry(r) \/ Retry(r) PROVE TypeOK'
<1>1. CASE AskRetry(r)
  <2>1. PICK j \in With(Retryable), p \in EndCandidates, door \in Doors \cap {"handoff", "paste"} :
          Begin(r, [Idle EXCEPT !.at = "retry", !.job = j, !.door = door,
                                !.payload = jobs[j].payload, !.position = p])
    BY <1>1 DEF AskRetry, AskRetryFrom
  <2>2. j \in JobIds /\ jobs[j].payload \in Payload /\ p \in Nat /\ door \in AllDoors
    BY RowFacts, EndType DEF With, TypeOK, AllDoors
  <2>3. [Idle EXCEPT !.at = "retry", !.job = j, !.door = door,
                     !.payload = jobs[j].payload, !.position = p] \in Local
    BY <2>2, IdleType DEF Idle, Local, ReqPlaces
  <2>4. RequestsOK' /\ calls' \in 0 .. MaxCalls
    BY <2>1, <2>2, <2>3, BeginType DEF Idle
  <2> QED
    BY <1>1, <2>4 DEF AskRetry, AskRetryFrom, TypeOK, TableOK, WorkerOK
<1>2. CASE Retry(r)
  <2>1. RequestsOK'
    <3>1. CASE Step(r, "retry", [Idle EXCEPT !.at = "alone", !.job = req[r].job])
      <4>1. [Idle EXCEPT !.at = "alone", !.job = req[r].job] \in Local
        BY Carries, IdleType DEF TypeOK, Idle, Local, ReqPlaces
      <4> QED
        BY <3>1, <4>1, OneRecord DEF TypeOK, Step, Idle
    <3>2. CASE Reply(r, "retry")
      BY <3>2, ReplyType DEF Reply, Step, TypeOK
    <3> QED
      BY <1>2, <3>1, <3>2 DEF Retry
  <2>2. TableOK'
    <3> DEFINE j == req[r].job
    <3> DEFINE row == [jobs[j] EXCEPT !.status = "queued", !.payload = req[r].payload,
                                      !.position = req[r].position]
    <3>1. req[r].at = "retry"
      BY <1>2 DEF Retry, Step, Reply
    <3>2. j \in DOMAIN jobs => row \in Row
      BY <3>1, Carries, RowFacts DEF TypeOK, Row, Live
    <3>3. jobs' = Update(j, row) /\ lastId' = lastId
      BY <1>2 DEF Retry
    <3> QED
      BY <3>2, <3>3, UpdateType DEF TypeOK
  <2> QED
    BY <1>2, <2>1, <2>2 DEF Retry, TypeOK, WorkerOK
<1> QED
  BY <1>1, <1>2

LEMMA MoveType ==
  ASSUME TypeOK, NEW r \in Requests, AskMove(r) \/ Move(r) PROVE TypeOK'
<1>1. CASE AskMove(r)
  <2>1. PICK j \in Queued : \E n \in Queued \ {j} :
          Begin(r, [Idle EXCEPT !.at = "move", !.job = j, !.other = n,
                                !.position = jobs[j].position,
                                !.otherPosition = jobs[n].position])
    BY <1>1 DEF AskMove
  <2>2. PICK n \in Queued \ {j} :
          Begin(r, [Idle EXCEPT !.at = "move", !.job = j, !.other = n,
                                !.position = jobs[j].position,
                                !.otherPosition = jobs[n].position])
    BY <2>1
  <2>3. {j, n} \subseteq JobIds /\ jobs[j].position \in Nat /\ jobs[n].position \in Nat
    BY RowFacts DEF Queued, With, TypeOK
  <2>4. [Idle EXCEPT !.at = "move", !.job = j, !.other = n, !.position = jobs[j].position,
                     !.otherPosition = jobs[n].position] \in Local
    BY <2>3, IdleType DEF Idle, Local, ReqPlaces
  <2>5. RequestsOK' /\ calls' \in 0 .. MaxCalls
    BY <2>2, <2>4, BeginType DEF Idle
  <2> QED
    BY <1>1, <2>5 DEF AskMove, TypeOK, TableOK, WorkerOK
<1>2. CASE Move(r)
  <2>1. RequestsOK'
    BY <1>2, ReplyType DEF Move, Reply, Step, TypeOK
  <2>2. TableOK'
    <3> DEFINE Moved(j) ==
          CASE j = req[r].job   -> [jobs[j] EXCEPT !.position = req[r].otherPosition]
            [] j = req[r].other -> [jobs[j] EXCEPT !.position = req[r].position]
            [] OTHER            -> jobs[j]
    <3>1. \A j \in DOMAIN jobs : Moved(j) \in Row
      <4> SUFFICES ASSUME NEW j \in DOMAIN jobs PROVE Moved(j) \in Row
        OBVIOUS
      <4>1. /\ [jobs[j] EXCEPT !.position = req[r].otherPosition] \in Row
            /\ [jobs[j] EXCEPT !.position = req[r].position] \in Row
            /\ jobs[j] \in Row
        BY Carries, RowFacts DEF TypeOK, Row
      <4> QED
        BY <4>1
    <3>2. jobs' = [j \in DOMAIN jobs |-> Moved(j)] /\ lastId' = lastId
      BY <1>2 DEF Move
    <3> HIDE DEF Moved
    <3> QED
      BY <3>1, <3>2 DEF TypeOK, TableOK
  <2> QED
    BY <1>2, <2>1, <2>2 DEF Move, TypeOK, WorkerOK
<1> QED
  BY <1>1, <1>2

LEMMA RemoveType ==
  ASSUME TypeOK, NEW r \in Requests, AskRemove(r) \/ Remove(r) PROVE TypeOK'
<1>1. CASE AskRemove(r)
  <2>1. PICK j \in DOMAIN jobs : Begin(r, [Idle EXCEPT !.at = "remove", !.job = j])
    BY <1>1 DEF AskRemove
  <2>2. [Idle EXCEPT !.at = "remove", !.job = j] \in Local
    BY RowFacts, IdleType DEF TypeOK, Idle, Local, ReqPlaces
  <2>3. RequestsOK' /\ calls' \in 0 .. MaxCalls
    BY <2>1, <2>2, BeginType DEF Idle
  <2> QED
    BY <1>1, <2>3 DEF AskRemove, TypeOK, TableOK, WorkerOK
<1>2. CASE Remove(r)
  <2>1. TableOK'
    BY <1>2, DeleteType DEF Remove, TypeOK
  <2> QED
    BY <1>2, <2>1, ReplyType DEF Remove, Reply, Step, TypeOK, WorkerOK
<1> QED
  BY <1>1, <1>2

LEMMA PatchType ==
  ASSUME TypeOK, NEW r \in Requests, AskPatch(r) \/ UpdateSettings(r) PROVE TypeOK'
<1>1. CASE AskPatch(r)
  <2>1. PICK j \in WaitingVideos, o \in Options :
          Begin(r, [Idle EXCEPT !.at = "patch", !.job = j,
                                !.payload = [jobs[j].payload EXCEPT !.options = o]])
    BY <1>1 DEF AskPatch
  <2>2. j \in JobIds /\ [jobs[j].payload EXCEPT !.options = o] \in Payload
    BY RowFacts DEF WaitingVideos, Queued, With, TypeOK, Payload
  <2>3. [Idle EXCEPT !.at = "patch", !.job = j,
                     !.payload = [jobs[j].payload EXCEPT !.options = o]] \in Local
    BY <2>2, IdleType DEF Idle, Local, ReqPlaces
  <2>4. RequestsOK' /\ calls' \in 0 .. MaxCalls
    BY <2>1, <2>2, <2>3, BeginType DEF Idle
  <2> QED
    BY <1>1, <2>4 DEF AskPatch, TypeOK, TableOK, WorkerOK
<1>2. CASE UpdateSettings(r)
  <2> DEFINE row == [jobs[req[r].job] EXCEPT !.payload = req[r].payload]
  <2>1. req[r].at = "patch"
    BY <1>2 DEF UpdateSettings, Reply, Step
  <2>2. req[r].job \in DOMAIN jobs => row \in Row
    BY <2>1, Carries, RowFacts DEF TypeOK, Row
  <2>3. TableOK'
    BY <1>2, <2>2, UpdateType DEF UpdateSettings, TypeOK
  <2> QED
    BY <1>2, <2>3, ReplyType DEF UpdateSettings, Reply, Step, TypeOK, WorkerOK
<1> QED
  BY <1>1, <1>2

LEMMA ClearPauseType ==
  ASSUME TypeOK, NEW r \in Requests, Clear(r) \/ SetPaused(r) PROVE TypeOK'
<1>1. RequestsOK' /\ calls' \in 0 .. MaxCalls
  BY IdleType, BeginType DEF Clear, SetPaused, Idle
<1>2. TableOK'
  BY DeleteType DEF Clear, SetPaused, TypeOK, TableOK
<1> QED
  BY <1>1, <1>2 DEF Clear, SetPaused, TypeOK, WorkerOK

LEMMA RequestType ==
  ASSUME TypeOK, NEW r \in Requests, Request(r) PROVE TypeOK'
BY AddType, CheckCapacityType, CheckDuplicateType, ReadPlaceType, InsertType, AloneType,
   RetryType, MoveType, RemoveType, PatchType, ClearPauseType DEF Request

-----------------------------------------------------------------------------
(* The worker's steps and the crash.                                       *)

(* What the worker carries between reading a row and ending its run.       *)
LEMMA WorkerCarries ==
  ASSUME WorkerOK
  PROVE  /\ worker.job \in {NoJob} \cup JobIds
         /\ worker.at \in {"claim", "claimed", "run"} => worker.payload \in Payload
BY DEF WorkerOK

(* A step that only moves the worker on keeps its type.                    *)
LEMMA AtType ==
  ASSUME WorkerOK, NEW here, NEW next \in {"boot", "idle", "select", "claimed", "run"},
         At(here, next),
         next \in {"claimed", "run"} => here \in {"claim", "claimed"}
  PROVE  WorkerOK'
BY DEF WorkerOK, At

LEMMA NoWorkType ==
  ASSUME NEW at \in {"down", "boot", "idle", "select"}, worker' = NoWork(at)
  PROVE  WorkerOK'
BY DEF WorkerOK, NoWork, NoJob

LEMMA RecoverType == ASSUME TypeOK, Recover PROVE TypeOK'
<1> DEFINE Recovered(j) == IF jobs[j].status = "running"
                           THEN [jobs[j] EXCEPT !.status = "queued"] ELSE jobs[j]
<1>1. \A j \in DOMAIN jobs : Recovered(j) \in Row
  BY RowFacts DEF TypeOK, Row, Live
<1>2. jobs' = [j \in DOMAIN jobs |-> Recovered(j)] /\ lastId' = lastId
  BY DEF Recover
<1> HIDE DEF Recovered
<1>3. TableOK'
  BY <1>1, <1>2 DEF TypeOK, TableOK
<1>4. WorkerOK'
  BY AtType DEF Recover, TypeOK
<1> QED
  BY <1>3, <1>4 DEF Recover, TypeOK, RequestsOK

LEMMA SelectNextType == ASSUME TypeOK, SelectNext PROVE TypeOK'
<1>1. WorkerOK'
  <2>1. CASE worker' = NoWork("idle")
    BY <2>1, NoWorkType
  <2>2. ASSUME NEW j \in Queued,
               worker' = [at |-> "claim", job |-> j, payload |-> jobs[j].payload]
        PROVE  WorkerOK'
    <3>1. j \in JobIds /\ jobs[j].payload \in Payload
      BY RowFacts DEF Queued, With, TypeOK
    <3> QED
      BY <2>2, <3>1 DEF WorkerOK
  <2> QED
    BY <2>1, <2>2 DEF SelectNext
<1> QED
  BY <1>1 DEF SelectNext, TypeOK, TableOK, RequestsOK

LEMMA ClaimType == ASSUME TypeOK, Claim PROVE TypeOK'
<1> DEFINE row == [jobs[worker.job] EXCEPT !.status = "running"]
<1>1. worker.job \in DOMAIN jobs => row \in Row
  BY RowFacts DEF TypeOK, Row, Live
<1>2. TableOK'
  BY <1>1, UpdateType DEF Claim, TypeOK
<1>3. WorkerOK'
  BY AtType DEF Claim, TypeOK
<1> QED
  BY <1>2, <1>3 DEF Claim, TypeOK, RequestsOK

LEMMA RecordVideoType == ASSUME TypeOK, RecordVideo PROVE TypeOK'
<1> DEFINE row == IF jobs[worker.job].kind = "process" /\ jobs[worker.job].video = NoVideo
                  THEN [jobs[worker.job] EXCEPT !.video = worker.payload.url]
                  ELSE jobs[worker.job]
<1>1. worker.payload \in Payload
  BY WorkerCarries DEF TypeOK, RecordVideo, At
<1>2. worker.job \in DOMAIN jobs => row \in Row
  BY <1>1, RowFacts DEF TypeOK, Row, Payload
<1>3. jobs' = Update(worker.job, row) /\ lastId' = lastId
  BY DEF RecordVideo
<1>4. TableOK'
  BY <1>2, <1>3, UpdateType DEF TypeOK
<1>5. WorkerOK'
  BY AtType DEF RecordVideo, TypeOK
<1> QED
  BY <1>4, <1>5 DEF RecordVideo, TypeOK, RequestsOK

LEMMA FinishType == ASSUME TypeOK, Finish PROVE TypeOK'
<1>1. PICK end \in Ended :
        jobs' = Update(worker.job, [jobs[worker.job] EXCEPT !.status = end])
  BY DEF Finish
<1>2. worker.job \in DOMAIN jobs => [jobs[worker.job] EXCEPT !.status = end] \in Row
  BY RowFacts DEF TypeOK, Row
<1>3. TableOK'
  BY <1>1, <1>2, UpdateType DEF Finish, TypeOK
<1>4. WorkerOK'
  BY NoWorkType DEF Finish
<1> QED
  BY <1>3, <1>4 DEF Finish, TypeOK, RequestsOK

LEMMA CrashType == ASSUME TypeOK, Crash PROVE TypeOK'
<1>1. RequestsOK'
  BY IdleType DEF Crash, RequestsOK, Idle
<1>2. WorkerOK'
  BY NoWorkType DEF Crash
<1>3. crashes' \in 0 .. MaxCrashes
  BY ConstantsAssumption DEF Crash, TypeOK
<1> QED
  BY <1>1, <1>2, <1>3 DEF Crash, TypeOK, TableOK

LEMMA NextType == TypeOK /\ [Next]_vars => TypeOK'
<1> SUFFICES ASSUME TypeOK, [Next]_vars PROVE TypeOK'
  OBVIOUS
<1>1. ASSUME NEW r \in Requests, Request(r) PROVE TypeOK'
  BY <1>1, RequestType
<1>2. CASE StartServer
  <2>1. WorkerOK'
    BY <1>2, AtType DEF StartServer, TypeOK
  <2> QED
    BY <1>2, <2>1 DEF StartServer, TypeOK, TableOK, RequestsOK
<1>3. CASE SeeQueueStarted
  <2>1. WorkerOK'
    BY <1>3, AtType DEF SeeQueueStarted, TypeOK
  <2> QED
    BY <1>3, <2>1 DEF SeeQueueStarted, TypeOK, TableOK, RequestsOK
<1>4. CASE Recover \/ SelectNext \/ Claim \/ RecordVideo \/ Finish
  BY <1>4, RecoverType, SelectNextType, ClaimType, RecordVideoType, FinishType
<1>5. CASE Crash
  BY <1>5, CrashType
<1>6. CASE UNCHANGED vars
  BY <1>6 DEF vars, TypeOK, TableOK, RequestsOK, WorkerOK
<1> QED
  BY <1>1, <1>2, <1>3, <1>4, <1>5, <1>6 DEF Next, WorkerStep

(* Every reachable state is well typed: every row the worker can meet is a  *)
(* row, and a request that is about to write a payload has read one.        *)
THEOREM TypeCorrect == Spec => []TypeOK
BY InitType, NextType, PTL DEF Spec

-----------------------------------------------------------------------------
(* The running rows. RunningIsHeld and OneRunning are inductive together    *)
(* with the type: OneRunning alone is not, since Claim could meet a row     *)
(* left running.                                                           *)

Running == With({"running"})

SafetyInv == TypeOK /\ RunningIsHeld /\ OneRunning

(* A request never makes a row running.                                     *)
LEMMA RequestsStartNothing ==
  ASSUME TypeOK, NEW r \in Requests, Request(r)
  PROVE  Running' \subseteq Running /\ worker' = worker
<1> USE DEF Running, With
<1>1. CASE \/ Add(r) \/ CheckCapacity(r) \/ CheckDuplicate(r) \/ ReadPlace(r)
           \/ LookForOthers(r) \/ StartIfAlone(r) \/ AskRetry(r) \/ AskMove(r)
           \/ AskRemove(r) \/ AskPatch(r) \/ SetPaused(r)
  BY <1>1 DEF Add, CheckCapacity, CheckDuplicate, ReadPlace, LookForOthers, StartIfAlone,
              AskRetry, AskRetryFrom, AskMove, AskRemove, AskPatch, SetPaused
<1>2. CASE Insert(r)
  <2>1. NewRow(r).status = "queued"
    BY DEF NewRow
  <2>2. \A j \in DOMAIN jobs : Shifted(r, j).status = jobs[j].status
    BY DEF Shifted, TypeOK, TableOK, Row
  <2> QED
    BY <1>2, <2>1, <2>2 DEF Insert, TypeOK, TableOK
<1>3. CASE Retry(r)
  <2> DEFINE row == [jobs[req[r].job] EXCEPT !.status = "queued", !.payload = req[r].payload,
                                             !.position = req[r].position]
  <2>1. req[r].job \in DOMAIN jobs => row.status = "queued"
    BY DEF TypeOK, TableOK, Row
  <2>2. jobs' = Update(req[r].job, row) /\ worker' = worker
    BY <1>3 DEF Retry
  <2> HIDE DEF row
  <2> QED
    BY <2>1, <2>2 DEF Update, TypeOK, TableOK
<1>4. CASE Move(r)
  <2> DEFINE Moved(j) ==
        CASE j = req[r].job   -> [jobs[j] EXCEPT !.position = req[r].otherPosition]
          [] j = req[r].other -> [jobs[j] EXCEPT !.position = req[r].position]
          [] OTHER            -> jobs[j]
  <2>1. \A j \in DOMAIN jobs : Moved(j).status = jobs[j].status
    <3> SUFFICES ASSUME NEW j \in DOMAIN jobs PROVE Moved(j).status = jobs[j].status
      OBVIOUS
    <3>1. jobs[j] \in Row
      BY DEF TypeOK, TableOK
    <3>2. /\ [jobs[j] EXCEPT !.position = req[r].otherPosition].status = jobs[j].status
          /\ [jobs[j] EXCEPT !.position = req[r].position].status = jobs[j].status
      BY <3>1 DEF Row
    <3> QED
      BY <3>2
  <2>2. jobs' = [j \in DOMAIN jobs |-> Moved(j)] /\ worker' = worker
    BY <1>4 DEF Move
  <2> HIDE DEF Moved
  <2> QED
    BY <2>1, <2>2
<1>5. CASE Remove(r) \/ Clear(r)
  BY <1>5 DEF Remove, Clear, DeleteRows
<1>6. CASE UpdateSettings(r)
  <2> DEFINE row == [jobs[req[r].job] EXCEPT !.payload = req[r].payload]
  <2>1. req[r].job \in DOMAIN jobs => row.status = jobs[req[r].job].status
    BY DEF TypeOK, TableOK, Row
  <2>2. jobs' = Update(req[r].job, row) /\ worker' = worker
    BY <1>6 DEF UpdateSettings
  <2> HIDE DEF row
  <2> QED
    BY <2>1, <2>2 DEF Update, TypeOK, TableOK
<1> QED
  BY <1>1, <1>2, <1>3, <1>4, <1>5, <1>6 DEF Request

(* The worker's own steps: only Claim makes a row running, when none was.   *)
LEMMA WorkerKeepsSafety ==
  ASSUME SafetyInv, WorkerStep \/ StartServer \/ Crash
  PROVE  RunningIsHeld' /\ OneRunning'
<1> USE DEF With
<1>1. CASE Recover
  <2>1. Running' = {}
    BY <1>1 DEF Recover, Running, SafetyInv, TypeOK, TableOK, Row
  <2> QED
    BY <2>1 DEF RunningIsHeld, OneRunning, Running
<1>2. CASE Claim
  <2>1. Running = {}
    BY <1>2 DEF Claim, At, SafetyInv, RunningIsHeld, Holds, Running
  <2>2. Running' \subseteq {worker.job}
    BY <1>2, <2>1 DEF Claim, Update, Running, SafetyInv, TypeOK, TableOK
  <2>3. worker' = [worker EXCEPT !.at = "claimed"]
    BY <1>2 DEF Claim, At
  <2>4. worker'.at = "claimed" /\ worker'.job = worker.job
    BY <2>3 DEF SafetyInv, TypeOK, WorkerOK
  <2> QED
    BY <2>2, <2>4 DEF RunningIsHeld, OneRunning, Holds, Running
<1>3. CASE RecordVideo
  <2> DEFINE row == IF jobs[worker.job].kind = "process" /\ jobs[worker.job].video = NoVideo
                    THEN [jobs[worker.job] EXCEPT !.video = worker.payload.url]
                    ELSE jobs[worker.job]
  <2>1. worker.job \in DOMAIN jobs => row.status = jobs[worker.job].status
    BY DEF SafetyInv, TypeOK, TableOK, Row
  <2>2. jobs' = Update(worker.job, row)
    BY <1>3 DEF RecordVideo
  <2> HIDE DEF row
  <2>3. Running' \subseteq Running
    BY <2>1, <2>2 DEF Update, Running, SafetyInv, TypeOK, TableOK
  <2>4. worker.at = "claimed" /\ worker' = [worker EXCEPT !.at = "run"]
    BY <1>3 DEF RecordVideo, At
  <2>5. worker'.at = "run" /\ worker'.job = worker.job
    BY <2>4 DEF SafetyInv, TypeOK, WorkerOK
  <2> QED
    BY <2>3, <2>4, <2>5 DEF SafetyInv, RunningIsHeld, OneRunning, Holds, Running
<1>4. CASE Finish
  <2>1. PICK end \in Ended :
          jobs' = Update(worker.job, [jobs[worker.job] EXCEPT !.status = end])
    BY <1>4 DEF Finish
  <2>2. Running \subseteq {worker.job}
    BY <1>4 DEF Finish, SafetyInv, RunningIsHeld, Holds, Running
  <2>3. end # "running"
    BY DEF Ended, Retryable
  <2>4. Running' = {}
    BY <2>1, <2>2, <2>3 DEF Update, Running, SafetyInv, TypeOK, TableOK, Row
  <2> QED
    BY <2>4 DEF RunningIsHeld, OneRunning, Running
<1>5. CASE SeeQueueStarted \/ SelectNext
  <2>1. worker.at \in {"idle", "select"} /\ jobs' = jobs
    BY <1>5 DEF SeeQueueStarted, SelectNext, At
  <2>2. Running = {} /\ Running' = Running
    BY <2>1 DEF SafetyInv, RunningIsHeld, Holds, Running
  <2> QED
    BY <2>2 DEF RunningIsHeld, OneRunning, Running
<1>6. CASE StartServer \/ Crash
  <2>1. worker'.at \in {"down", "boot"} /\ jobs' = jobs
    BY <1>6 DEF StartServer, Crash, At, NoWork, SafetyInv, TypeOK, WorkerOK
  <2> QED
    BY <2>1 DEF SafetyInv, RunningIsHeld, OneRunning, Running
<1> QED
  BY <1>1, <1>2, <1>3, <1>4, <1>5, <1>6 DEF WorkerStep

LEMMA SafetyInitially == Init => SafetyInv
BY InitType DEF Init, SafetyInv, RunningIsHeld, OneRunning, With

LEMMA SafetyStep == SafetyInv /\ [Next]_vars => SafetyInv'
<1> SUFFICES ASSUME SafetyInv, [Next]_vars PROVE SafetyInv'
  OBVIOUS
<1>1. TypeOK'
  BY NextType DEF SafetyInv
<1>2. ASSUME NEW r \in Requests, Request(r) PROVE RunningIsHeld' /\ OneRunning'
  <2>1. Running' \subseteq Running /\ worker' = worker
    BY <1>2, RequestsStartNothing DEF SafetyInv
  <2> QED
    BY <2>1 DEF SafetyInv, RunningIsHeld, OneRunning, Holds, Running
<1>3. CASE WorkerStep \/ StartServer \/ Crash
  BY <1>1, <1>3, WorkerKeepsSafety DEF SafetyInv
<1>4. CASE UNCHANGED vars
  BY <1>1, <1>4 DEF vars, SafetyInv, RunningIsHeld, OneRunning, Holds, With
<1> QED
  BY <1>1, <1>2, <1>3, <1>4 DEF Next, SafetyInv

(* Whatever requests interleave with the worker, and however often the      *)
(* process dies, no row is left running with nobody on it.                  *)
THEOREM RunningHeld == Spec => []RunningIsHeld
<1>1. SafetyInv => RunningIsHeld
  BY DEF SafetyInv
<1> QED
  BY <1>1, SafetyInitially, SafetyStep, PTL DEF Spec

(* One video at a time, for any number of requests and crashes.             *)
THEOREM NeverTwoRunning == Spec => []OneRunning
<1>1. SafetyInv => OneRunning
  BY DEF SafetyInv
<1> QED
  BY <1>1, SafetyInitially, SafetyStep, PTL DEF Spec
=============================================================================
