---------------------------- MODULE JobRunProofs ----------------------------
(***************************************************************************)
(* Theorems about JobRun for every number of videos, jobs, cancels, hanging *)
(* downloads and crashes: whom a cancel stops, and whose video is active.   *)
(***************************************************************************)
EXTENDS JobRun, SequenceTheorems, FiniteSetTheorems, TLAPS

RunType == [at : Places, video : Videos \cup {NoVideo}, format : AllFormats,
            todo : Seq({"shorts", "longform"}), left : 0 .. Checks, result : Results]

(* What the type says of the variables a run's control depends on.         *)
ControlOK ==
  /\ waiting \in Seq(Job) /\ run \in RunType
  /\ active \in Videos \cup {NoVideo} /\ flags \subseteq Videos
  /\ asked \in BOOLEAN /\ due \in BOOLEAN

(* A job that downloads is never at a render's place, and the active video  *)
(* is exactly that of the process job between set_active and `finally`.     *)
VideoPlaces == {"claimed", "marked", "checks", "wait", "source", "fetching", "fresh", "work"}
InHand ==
  /\ run.at \in VideoPlaces => run.format # "render"
  /\ run.at = "rendering" => run.format = "render"
  /\ run.at # "idle" => run.video \in Videos
  /\ run.format # "render" /\ run.at \notin {"finishing", "cleanup"} => run.todo # <<>>
  /\ active = IF run.at \in {"idle", "claimed"} \/ run.format = "render"
              THEN NoVideo ELSE run.video

(* The flag of a run under way was set during this run.                     *)
FlagWasAsked ==
  /\ Running(run.video) /\ run.video \in flags => asked
  /\ run.at = "finishing" /\ run.result = "cancelled" => asked

(* A cancel in time is either still ahead of a boundary or has ended the run. *)
DueIsAhead ==
  due => \/ run.at = "work" /\ run.left > 0 /\ run.video \in flags
         \/ run.at = "finishing" /\ run.result # "done"
         \/ run.at = "cleanup"

RunInv == ControlOK /\ InHand /\ FlagWasAsked /\ DueIsAhead

LEMMA RunInitially == Init => RunInv
<1> SUFFICES ASSUME Init PROVE RunInv
  OBVIOUS
<1>1. <<>> \in Seq(Job) /\ <<>> \in Seq({"shorts", "longform"})
  BY EmptySeq
<1>2. IdleRun \in RunType
  BY <1>1, ConstantsAssumption DEF IdleRun, RunType, Places, AllFormats, Results
<1>3. ControlOK
  BY <1>1, <1>2 DEF Init, ControlOK
<1>4. InHand /\ FlagWasAsked /\ DueIsAhead
  BY DEF Init, IdleRun, InHand, FlagWasAsked, DueIsAhead, UnderWay, Running, VideoPlaces
<1> QED
  BY <1>3, <1>4 DEF RunInv

(* The idle record and the passes of a job have their types.                *)
LEMMA IdleRunType == IdleRun \in RunType
<1>1. <<>> \in Seq({"shorts", "longform"})
  BY EmptySeq
<1> QED
  BY <1>1, ConstantsAssumption DEF IdleRun, RunType, Places, AllFormats, Results

LEMMA PassesType ==
  \A f \in AllFormats : /\ Passes[f] \in Seq({"shorts", "longform"})
                        /\ f # "render" => Passes[f] # <<>>
<1>1. <<>> \in Seq({"shorts", "longform"})
  BY EmptySeq
<1>2. /\ <<"shorts">> \in Seq({"shorts", "longform"})
      /\ <<"longform">> \in Seq({"shorts", "longform"})
      /\ <<"shorts", "longform">> \in Seq({"shorts", "longform"})
  OBVIOUS
<1>3. /\ <<"shorts">> # <<>> /\ <<"longform">> # <<>> /\ <<"shorts", "longform">> # <<>>
  OBVIOUS
<1>4. /\ Passes["shorts"] = <<"shorts">> /\ Passes["longform"] = <<"longform">>
      /\ Passes["both"] = <<"shorts", "longform">> /\ Passes["render"] = <<>>
  BY DEF Passes
<1> QED
  BY <1>1, <1>2, <1>3, <1>4 DEF AllFormats

-----------------------------------------------------------------------------
(* Requests leave the run alone.                                           *)

LEMMA RequestKeeps == ASSUME RunInv, Request PROVE RunInv'
<1> USE DEF RunInv, InHand, FlagWasAsked, DueIsAhead, Running
<1>1. CASE Add
  <2>1. PICK v \in Videos, f \in Formats, i \in 1 .. Len(waiting) + 1 :
          waiting' = SubSeq(waiting, 1, i - 1) \o <<[video |-> v, format |-> f]>>
                     \o SubSeq(waiting, i, Len(waiting))
    BY <1>1 DEF Add
  <2>2. [video |-> v, format |-> f] \in Job
    BY ConstantsAssumption DEF Job
  <2>3. waiting' \in Seq(Job)
    BY <2>1, <2>2, SubSeqProperties, ConcatProperties DEF ControlOK
  <2> QED
    BY <1>1, <2>3 DEF Add, ControlOK, cancel, history
<1>2. CASE Remove
  <2>1. PICK i \in DOMAIN waiting :
          waiting' = SubSeq(waiting, 1, i - 1) \o SubSeq(waiting, i + 1, Len(waiting))
    BY <1>2 DEF Remove
  <2>2. waiting' \in Seq(Job)
    BY <2>1, SubSeqProperties, ConcatProperties DEF ControlOK
  <2> QED
    BY <1>2, <2>2 DEF Remove, ControlOK, cancel, history
<1>3. CASE RequestCancel
  <2>1. PICK v \in Videos :
          /\ flags' = flags \cup {v}
          /\ asked' = (asked \/ Running(v))
          /\ due' = (due \/ (Running(v) /\ run.at = "work" /\ run.left > 0))
    BY <1>3 DEF RequestCancel
  <2>2. run' = run /\ active' = active /\ waiting' = waiting
    BY <1>3 DEF RequestCancel, queue
  <2> QED
    BY <2>1, <2>2 DEF ControlOK
<1>4. CASE SetPaused \/ AskDelete \/ Delete
  BY <1>4 DEF SetPaused, AskDelete, Delete, ControlOK, queue, cancel, history
<1> QED
  BY <1>1, <1>2, <1>3, <1>4 DEF Request

-----------------------------------------------------------------------------
(* The worker's steps.                                                     *)

LEMMA BeginKeeps == ASSUME RunInv, Claim \/ SetActive \/ CleanSlate PROVE RunInv'
<1> USE DEF RunInv, InHand, FlagWasAsked, DueIsAhead, Running
<1>1. CASE Claim
  <2> DEFINE job == Head(waiting)
  <2>1. job \in Job /\ waiting' \in Seq(Job)
    BY <1>1, HeadTailProperties DEF Claim, ControlOK
  <2>2. job.video \in Videos /\ job.format \in AllFormats
    BY <2>1 DEF Job
  <2> HIDE DEF job
  <2>3. /\ run' = [at     |-> IF job.format = "render" THEN "prefetch" ELSE "claimed",
                   video  |-> job.video, format |-> job.format, todo |-> Passes[job.format],
                   left   |-> 0, result |-> "none"]
        /\ run.at = "idle" /\ active' = active /\ flags' = flags
        /\ asked' = asked /\ due' = due
    BY <1>1 DEF Claim, cancel, history, job
  <2>4. run' \in RunType
    BY <2>2, <2>3, PassesType, ConstantsAssumption DEF RunType, Places, UnderWay, Results
  <2>5. ControlOK'
    BY <2>1, <2>3, <2>4 DEF ControlOK
  <2>6. ~due
    BY <2>3
  <2>7. job.format # "render" => run'.todo # <<>>
    BY <2>2, <2>3, PassesType
  <2> QED
    BY <2>2, <2>3, <2>5, <2>6, <2>7 DEF VideoPlaces, UnderWay
<1>2. CASE SetActive \/ CleanSlate
  <2>1. CASE SetActive
    <3>1. /\ run.at = "claimed" /\ run' = [run EXCEPT !.at = "marked"] /\ active' = run.video
          /\ waiting' = waiting /\ flags' = flags /\ asked' = asked /\ due' = due
      BY <2>1 DEF SetActive, Go, queue, history
    <3> QED
      BY <3>1 DEF ControlOK, RunType, Places, UnderWay, VideoPlaces
  <2>2. CASE CleanSlate
    <3>1. /\ run.at = "marked" /\ run' = [run EXCEPT !.at = "checks"] /\ active' = active
          /\ waiting' = waiting /\ flags' = flags \ {run.video} /\ ~asked' /\ ~due'
          /\ asked' \in BOOLEAN /\ due' \in BOOLEAN
      BY <2>2 DEF CleanSlate, Go, queue
    <3> QED
      BY <3>1 DEF ControlOK, RunType, Places, UnderWay, VideoPlaces
  <2> QED
    BY <1>2, <2>1, <2>2
<1> QED
  BY <1>1, <1>2

(* A run that moves on before its stages.                                   *)
LEMMA MoveOnKeeps ==
  ASSUME RunInv, NEW to \in Places, run.at \in UnderWay \ {"work"},
         IF run.at = "prefetch" THEN to = IF run.format = "render" THEN "rendering" ELSE "source"
                                ELSE to \in UnderWay \ {"work"},
         run' = [run EXCEPT !.at = to],
         waiting' = waiting, active' = active, flags' = flags, asked' = asked, due' = due
  PROVE  RunInv'
<1>1. /\ run' \in RunType /\ run'.at = to /\ run'.video = run.video
      /\ run'.format = run.format /\ run'.todo = run.todo
  BY DEF RunInv, ControlOK, RunType
<1>2. ~due
  BY DEF RunInv, DueIsAhead, UnderWay
<1>3. ControlOK'
  BY <1>1 DEF RunInv, ControlOK
<1>4. InHand'
  BY <1>1 DEF RunInv, InHand, VideoPlaces, UnderWay
<1>5. FlagWasAsked'
  BY <1>1 DEF RunInv, FlagWasAsked, Running, UnderWay
<1> QED
  BY <1>2, <1>3, <1>4, <1>5 DEF RunInv, DueIsAhead

(* A run that ends by itself, or by an error.                               *)
LEMMA EndKeeps ==
  ASSUME RunInv, run.at \in UnderWay \cup {"rendering"},
         NEW result \in {"done", "failed"}, EndAs(result), result = "done" => ~due,
         waiting' = waiting, active' = active, flags' = flags, asked' = asked, due' = due
  PROVE  RunInv'
<1>1. /\ run' \in RunType /\ run'.at = "finishing" /\ run'.result = result
      /\ run'.video = run.video /\ run'.format = run.format
  BY DEF EndAs, RunInv, ControlOK, RunType, Places, Results
<1>2. ControlOK'
  BY <1>1 DEF RunInv, ControlOK
<1>3. InHand'
  BY <1>1 DEF RunInv, InHand, VideoPlaces, UnderWay
<1> QED
  BY <1>1, <1>2, <1>3 DEF RunInv, FlagWasAsked, DueIsAhead, Running, UnderWay

LEMMA PrepareKeeps ==
  ASSUME RunInv, CheckPlan \/ WaitFor \/ GiveUp \/ MaybeStart \/ Render \/ FindSource
  PROVE  RunInv'
<1> USE DEF Go, queue, cancel, history
<1>1. CASE CheckPlan
  BY <1>1, MoveOnKeeps, EndKeeps DEF CheckPlan, Places, UnderWay
<1>2. CASE WaitFor \/ GiveUp
  BY <1>2, MoveOnKeeps DEF WaitFor, GiveUp, Places, UnderWay
<1>3. CASE MaybeStart
  BY <1>3, MoveOnKeeps DEF MaybeStart, Places, UnderWay
<1>4. CASE Render
  <2>1. ~due
    BY <1>4 DEF Render, RunInv, DueIsAhead
  <2> QED
    BY <1>4, <2>1, EndKeeps DEF Render
<1>5. CASE FindSource
  BY <1>5, MoveOnKeeps DEF FindSource, Places, UnderWay
<1> QED
  BY <1>1, <1>2, <1>3, <1>4, <1>5

(* A run stopped by its flag was cancelled.                                *)
LEMMA CancelledKeeps ==
  ASSUME RunInv, run.at \in {"fetching", "work"}, run.video \in flags, EndAs("cancelled"),
         waiting' = waiting, active' = active, flags' = flags, asked' = asked, due' = due
  PROVE  RunInv'
<1>1. run' \in RunType /\ run'.at = "finishing" /\ run'.result = "cancelled"
      /\ run'.video = run.video /\ run'.format = run.format
  BY DEF EndAs, RunInv, ControlOK, RunType, Places, Results
<1>2. asked
  BY DEF RunInv, FlagWasAsked, Running, UnderWay, InHand, VideoPlaces
<1> QED
  BY <1>1, <1>2
     DEF RunInv, ControlOK, InHand, FlagWasAsked, DueIsAhead, Running, VideoPlaces, UnderWay

LEMMA DownloadKeeps == ASSUME RunInv, Download PROVE RunInv'
<1> USE DEF queue, cancel, history
<1>1. CASE run.video \in flags /\ EndAs("cancelled")
  BY <1>1, CancelledKeeps DEF Download
<1>2. CASE Go("fetching", "fresh") \/ EndAs("failed")
  BY <1>2, MoveOnKeeps, EndKeeps DEF Download, Go, Places, UnderWay
<1> QED
  BY <1>1, <1>2 DEF Download

(* A pass ends or begins: no cancel is pending.                            *)
LEMMA EndPassKeeps ==
  ASSUME RunInv, run.at \in {"fresh", "work"}, run.todo # <<>>, EndPass, ~due, due' = due,
         waiting' = waiting, active' = active, flags' \subseteq flags, asked' = asked
  PROVE  RunInv'
<1>1. Tail(run.todo) \in Seq({"shorts", "longform"})
  BY HeadTailProperties DEF RunInv, ControlOK, RunType
<1>2. /\ run' \in RunType
      /\ \/ run'.at = "source"
         \/ run'.at = "finishing" /\ run'.result = "done"
      /\ run'.video = run.video /\ run'.format = run.format
      /\ run'.at = "source" => run'.todo # <<>>
  BY <1>1 DEF EndPass, RunInv, ControlOK, RunType, Places, Results, UnderWay
<1> QED
  BY <1>2
     DEF RunInv, ControlOK, InHand, FlagWasAsked, DueIsAhead, Running, VideoPlaces, UnderWay

LEMMA StagesKeep == ASSUME RunInv, BeginPass \/ Stage PROVE RunInv'
<1> USE DEF queue, cancel, history
<1>1. CASE BeginPass
  <2>1. run.at = "fresh" /\ ~due /\ run.todo # <<>> /\ run.format # "render"
    BY <1>1 DEF BeginPass, RunInv, DueIsAhead, InHand, VideoPlaces
  <2>2. /\ waiting' = waiting /\ active' = active /\ asked' = asked /\ due' = due
        /\ flags' = flags \ {run.video}
    BY <1>1 DEF BeginPass
  <2>3. CASE EndPass
    BY <2>1, <2>2, <2>3, EndPassKeeps
  <2>4. CASE run' = [run EXCEPT !.at = "work", !.left = Checks]
    <3> Checks \in 0 .. Checks
      BY ConstantsAssumption
    <3>1. /\ run' \in RunType /\ run'.at = "work" /\ run'.video = run.video
          /\ run'.format = run.format /\ run'.todo = run.todo
      BY <2>4 DEF RunInv, ControlOK, RunType, Places, UnderWay
    <3> QED
      BY <2>1, <2>2, <3>1
         DEF RunInv, ControlOK, InHand, FlagWasAsked, DueIsAhead, Running, VideoPlaces, UnderWay
  <2> QED
    BY <1>1, <2>3, <2>4 DEF BeginPass
<1>2. CASE Stage
  <2>1. run.at = "work" /\ run.todo # <<>> /\ run.format # "render"
    BY <1>2 DEF Stage, RunInv, InHand, VideoPlaces
  <2>2. /\ waiting' = waiting /\ active' = active /\ asked' = asked /\ due' = due
        /\ flags' = flags
    BY <1>2 DEF Stage
  <2>3. CASE run.left > 0 /\ run.video \notin flags /\ run' = [run EXCEPT !.left = @ - 1]
    <3>1. /\ run' \in RunType /\ run'.at = "work" /\ run'.video = run.video
          /\ run'.format = run.format /\ run'.todo = run.todo
      BY <2>1, <2>3, ConstantsAssumption DEF RunInv, ControlOK, RunType
    <3>2. ~due
      BY <2>1, <2>3 DEF RunInv, DueIsAhead
    <3> QED
      BY <2>1, <2>2, <3>1, <3>2
         DEF RunInv, ControlOK, InHand, FlagWasAsked, DueIsAhead, Running, VideoPlaces, UnderWay
  <2>4. CASE run.left > 0 /\ run.video \in flags /\ EndAs("cancelled")
    BY <2>1, <2>2, <2>4, CancelledKeeps
  <2>5. CASE EndAs("failed")
    BY <2>1, <2>2, <2>5, EndKeeps DEF UnderWay
  <2>6. CASE run.left = 0 /\ EndPass
    <3>1. ~due
      BY <2>1, <2>6 DEF RunInv, DueIsAhead
    <3> QED
      BY <2>1, <2>2, <2>6, <3>1, EndPassKeeps
  <2> QED
    BY <1>2, <2>3, <2>4, <2>5, <2>6 DEF Stage
<1> QED
  BY <1>1, <1>2

LEMMA FinishKeeps == ASSUME RunInv, Finish \/ Cleanup PROVE RunInv'
<1> USE DEF queue, cancel, history
<1>1. CASE Finish
  <2>1. /\ run.at = "finishing" /\ run' \in RunType /\ run'.at = "cleanup"
        /\ run'.video = run.video /\ run'.format = run.format
    BY <1>1 DEF Finish, Go, RunInv, ControlOK, RunType, Places
  <2> QED
    BY <1>1, <2>1
       DEF Finish, RunInv, ControlOK, InHand, FlagWasAsked, DueIsAhead, Running, VideoPlaces, UnderWay
<1>2. CASE Cleanup
  BY <1>2, IdleRunType
     DEF Cleanup, IdleRun, RunInv, ControlOK, InHand, FlagWasAsked, DueIsAhead, Running,
         VideoPlaces, UnderWay
<1> QED
  BY <1>1, <1>2

LEMMA CrashKeeps == ASSUME RunInv, Crash PROVE RunInv'
<1>1. waiting' \in Seq(Job)
  <2>1. CASE run.at \in {"idle", "cleanup"}
    BY <2>1 DEF Crash, RunInv, ControlOK
  <2>2. CASE run.at \notin {"idle", "cleanup"}
    <3>1. [video |-> run.video, format |-> run.format] \in Job
      BY <2>2 DEF RunInv, InHand, ControlOK, RunType, Job
    <3>2. <<[video |-> run.video, format |-> run.format]>> \in Seq(Job)
      BY <3>1
    <3> QED
      BY <2>2, <3>2, ConcatProperties DEF Crash, RunInv, ControlOK
  <2> QED
    BY <2>1, <2>2
<1> QED
  BY <1>1, IdleRunType
     DEF Crash, IdleRun, RunInv, ControlOK, InHand, FlagWasAsked, DueIsAhead, Running,
         VideoPlaces, UnderWay

LEMMA RunStep == RunInv /\ [Next]_vars => RunInv'
<1> SUFFICES ASSUME RunInv, [Next]_vars PROVE RunInv'
  OBVIOUS
<1>1. CASE Request
  BY <1>1, RequestKeeps
<1>2. CASE WorkerStep
  BY <1>2, BeginKeeps, PrepareKeeps, DownloadKeeps, StagesKeep, FinishKeeps DEF WorkerStep
<1>3. CASE Prefetching \/ UNCHANGED vars
  BY <1>3 DEF Prefetching, PrefetchEnds, PrefetchOverdue, vars, queue, cancel, history,
              RunInv, ControlOK, InHand, FlagWasAsked, DueIsAhead, Running
<1>4. CASE Crash
  BY <1>4, CrashKeeps
<1> QED
  BY <1>1, <1>2, <1>3, <1>4 DEF Next

(* No run is stopped by a cancel that was meant for another.                *)
THEOREM NoStrayCancel == Spec => []CancelledOnlyIfAsked
<1>1. RunInv => CancelledOnlyIfAsked
  BY DEF RunInv, FlagWasAsked, CancelledOnlyIfAsked
<1> QED
  BY <1>1, RunInitially, RunStep, PTL DEF Spec

(* A cancel that a boundary is still ahead of stops its run.                *)
THEOREM TimelyCancelStops == Spec => []CancelInTimeStops
<1>1. RunInv => CancelInTimeStops
  BY DEF RunInv, DueIsAhead, CancelInTimeStops
<1> QED
  BY <1>1, RunInitially, RunStep, PTL DEF Spec

(* The video that cannot be deleted is the one in the pipeline, always.     *)
THEOREM ActiveVideoInHand == Spec => []ActiveIsInHand
<1>1. RunInv => ActiveIsInHand
  BY DEF RunInv, InHand, UnderWay, ActiveIsInHand
<1> QED
  BY <1>1, RunInitially, RunStep, PTL DEF Spec

-----------------------------------------------------------------------------
(* The prefetch threads and the disk.                                       *)
Fetch   == [video : Videos, overdue : BOOLEAN]
FetchOK ==
  /\ started \in Nat /\ DOMAIN fetches \subseteq 1 .. started
  /\ fetches \in [DOMAIN fetches -> Fetch]
  /\ slot \in [thread : 0 .. started, video : Videos \cup {NoVideo}]
  /\ abandoned \subseteq 1 .. started
DiskOK ==
  /\ paused \in BOOLEAN /\ deleting \in Videos \cup {NoVideo}
  /\ files \subseteq Videos /\ made \subseteq Videos /\ twice \subseteq Videos
AllTypes == RunInv /\ FetchOK /\ DiskOK

LEMMA FetchedVideo ==
  ASSUME FetchOK, NEW t \in DOMAIN fetches
  PROVE  fetches[t] \in Fetch /\ fetches[t].video \in Videos /\ fetches[t].overdue \in BOOLEAN
BY DEF FetchOK, Fetch

LEMMA FetchStarts ==
  ASSUME RunInv, FetchOK, MaybeStart
  PROVE  FetchOK'
<1>1. CASE UNCHANGED prefetch
  BY <1>1 DEF FetchOK, MaybeStart, prefetch, history
<1>2. ASSUME NEW i \in Wanted,
             started' = started + 1,
             slot' = [thread |-> started + 1, video |-> waiting[i].video],
             fetches' = [u \in DOMAIN fetches \cup {started + 1} |->
                           IF u = started + 1 THEN [video |-> waiting[i].video, overdue |-> FALSE]
                           ELSE fetches[u]]
      PROVE  FetchOK'
  <2>1. waiting[i].video \in Videos
    <3>1. i \in DOMAIN waiting /\ waiting \in Seq(Job)
      BY DEF Wanted, WaitingVideos, RunInv, ControlOK
    <3>2. waiting[i] \in Job
      BY <3>1, ElementOfSeq
    <3> QED
      BY <3>2 DEF Job
  <2>2. [video |-> waiting[i].video, overdue |-> FALSE] \in Fetch
    BY <2>1 DEF Fetch
  <2>3. started' \in Nat /\ DOMAIN fetches' \subseteq 1 .. started' /\ abandoned' \subseteq 1 .. started'
    BY <1>2 DEF FetchOK, MaybeStart, history
  <2>4. slot' \in [thread : 0 .. started', video : Videos \cup {NoVideo}]
    BY <1>2, <2>1 DEF FetchOK
  <2>5. fetches' \in [DOMAIN fetches' -> Fetch]
    BY <1>2, <2>2 DEF FetchOK
  <2> QED
    BY <2>3, <2>4, <2>5 DEF FetchOK
<1> QED
  BY <1>1, <1>2 DEF MaybeStart

LEMMA FetchKeeps ==
  ASSUME RunInv, FetchOK, [Next]_vars
  PROVE  FetchOK'
<1>1. CASE MaybeStart
  BY <1>1, FetchStarts
<1>2. CASE GiveUp
  <2>1. NoSlot \in [thread : 0 .. started, video : Videos \cup {NoVideo}]
    BY DEF FetchOK, NoSlot
  <2>2. Awaited \in 1 .. started
    BY <1>2 DEF GiveUp, FetchOK
  <2> QED
    BY <1>2, <2>1, <2>2 DEF GiveUp, FetchOK
<1>3. ASSUME NEW t \in DOMAIN fetches, PrefetchEnds(t)
      PROVE  FetchOK'
  BY <1>3 DEF PrefetchEnds, EndThread, FetchOK, history
<1>4. ASSUME NEW t \in DOMAIN fetches, PrefetchOverdue(t)
      PROVE  FetchOK'
  <2>1. [fetches[t] EXCEPT !.overdue = TRUE] \in Fetch
    BY FetchedVideo DEF Fetch
  <2>2. fetches' = [fetches EXCEPT ![t] = [fetches[t] EXCEPT !.overdue = TRUE]]
    BY <1>4 DEF PrefetchOverdue, FetchOK
  <2>3. DOMAIN fetches' = DOMAIN fetches /\ fetches' \in [DOMAIN fetches' -> Fetch]
    BY <2>1, <2>2 DEF FetchOK
  <2> QED
    BY <1>4, <2>3 DEF PrefetchOverdue, FetchOK, history
<1>5. CASE Crash
  <2>1. fetches' = [t \in {} |-> IdleRun] /\ started' = 0 /\ slot' = NoSlot /\ abandoned' = {}
    BY <1>5 DEF Crash
  <2> QED
    BY <2>1 DEF FetchOK, NoSlot
<1>6. CASE Request
  BY <1>6 DEF Request, Add, Remove, SetPaused, RequestCancel, AskDelete, Delete, FetchOK, prefetch, history
<1>7. CASE Claim \/ SetActive \/ CleanSlate \/ CheckPlan \/ WaitFor \/ Render \/ FindSource \/ Download
  BY <1>7 DEF Claim, SetActive, CleanSlate, CheckPlan, WaitFor, Render, FindSource, Download,
              FetchOK, prefetch, history
<1>8. CASE BeginPass \/ Stage \/ Finish \/ Cleanup \/ UNCHANGED vars
  BY <1>8 DEF BeginPass, Stage, Finish, Cleanup, vars, FetchOK, prefetch, history
<1> QED
  BY <1>1, <1>2, <1>3, <1>4, <1>5, <1>6, <1>7, <1>8 DEF Next, WorkerStep, Prefetching

LEMMA DiskKeeps ==
  ASSUME RunInv, FetchOK, DiskOK, [Next]_vars
  PROVE  DiskOK'
<1>1. CASE Request
  BY <1>1 DEF Request, Add, Remove, SetPaused, RequestCancel, AskDelete, Delete, DiskOK, queue, disk, history
<1>2. run.at # "idle" => run.video \in Videos
  BY DEF RunInv, InHand
<1>3. CASE Download
  BY <1>2, <1>3 DEF Download, DiskOK, queue, history
<1>4. CASE Stage \/ BeginPass
  BY <1>2, <1>4 DEF Stage, BeginPass, DiskOK, queue, disk, history
<1>5. CASE Claim \/ SetActive \/ CleanSlate \/ CheckPlan \/ WaitFor \/ GiveUp \/ MaybeStart \/ Render
           \/ FindSource
  BY <1>5 DEF Claim, SetActive, CleanSlate, CheckPlan, WaitFor, GiveUp, MaybeStart, Render, FindSource,
              DiskOK, queue, disk, history
<1>6. CASE Finish \/ Cleanup \/ Crash \/ UNCHANGED vars
  BY <1>6 DEF Finish, Cleanup, Crash, vars, DiskOK, queue, disk, history
<1>7. CASE Prefetching
  BY <1>7, FetchedVideo DEF Prefetching, PrefetchEnds, PrefetchOverdue, DiskOK, queue, disk, history
<1> QED
  BY <1>1, <1>3, <1>4, <1>5, <1>6, <1>7 DEF Next, WorkerStep

(* Every variable keeps its type, and a pass is under way only while there   *)
(* is one left to make.                                                     *)
THEOREM TypesHold == Spec => []AllTypes
<1>1. Init => FetchOK /\ DiskOK
  BY DEF Init, FetchOK, DiskOK, NoSlot
<1>2. AllTypes /\ [Next]_vars => AllTypes'
  BY RunStep, FetchKeeps, DiskKeeps DEF AllTypes
<1> QED
  BY <1>1, <1>2, RunInitially, PTL DEF Spec, AllTypes

(* The type invariant of the run.                                           *)
THEOREM TypeCorrect == Spec => []TypeOK
<1>1. AllTypes => TypeOK
  <2> SUFFICES ASSUME AllTypes PROVE TypeOK
    OBVIOUS
  <2>1. waiting \in Seq(Job) /\ run \in RunType /\ active \in Videos \cup {NoVideo} /\ flags \subseteq Videos
        /\ asked \in BOOLEAN /\ due \in BOOLEAN
    BY DEF AllTypes, RunInv, ControlOK
  <2>2. run.at \in {"source", "fetching", "fresh", "work"} => run.todo # <<>>
    BY DEF AllTypes, RunInv, InHand, VideoPlaces
  <2> QED
    BY <2>1, <2>2 DEF AllTypes, FetchOK, DiskOK, TypeOK, RunType, Fetch
<1> QED
  BY <1>1, TypesHold, PTL

-----------------------------------------------------------------------------
(* Why one thread downloads a video that is in the queue once: no other job  *)
(* of it waits beside the run, a live prefetch not given up on is the one in *)
(* the slot, and past wait_for none of them is after the video of the run.   *)
Of(job, v) == job.format # "render" /\ job.video = v

Apart(jobs, v)  == \A i, k \in DOMAIN jobs : i # k => ~(Of(jobs[i], v) /\ Of(jobs[k], v))
Spared(jobs, v) == \A i \in DOMAIN jobs : ~Of(jobs[i], v)

Once(v) == Apart(waiting, v) /\ (run.at \notin {"idle", "cleanup"} /\ Of(run, v) => Spared(waiting, v))
QueueInv == \A v \in Videos \ twice : Once(v)
OwnFetches == DOMAIN fetches \ abandoned
SlotOwns == \A t \in OwnFetches : t = slot.thread /\ fetches[t].video = slot.video
Alone ==
  run.format # "render" /\ run.at \in {"prefetch", "source", "fetching", "fresh", "work"}
    => run.video \in twice \/ \A t \in OwnFetches : fetches[t].video # run.video
PrefetchInv == QueueInv /\ SlotOwns /\ Alone

(* A job put into the queue, and taken out of it.                           *)
Put(jobs, i, job) == SubSeq(jobs, 1, i - 1) \o <<job>> \o SubSeq(jobs, i, Len(jobs))
Drop(jobs, i)     == SubSeq(jobs, 1, i - 1) \o SubSeq(jobs, i + 1, Len(jobs))

LEMMA Joined ==
  ASSUME NEW front \in Seq(Job), NEW back \in Seq(Job)
  PROVE  /\ front \o back \in Seq(Job) /\ Len(front \o back) = Len(front) + Len(back)
         /\ \A k \in 1 .. Len(front) : (front \o back)[k] = front[k]
         /\ \A k \in Len(front) + 1 .. Len(front) + Len(back) : (front \o back)[k] = back[k - Len(front)]
BY ConcatProperties

LEMMA Inserted ==
  ASSUME NEW jobs \in Seq(Job), NEW i \in 1 .. Len(jobs) + 1, NEW job \in Job
  PROVE  /\ Put(jobs, i, job) \in Seq(Job) /\ Len(Put(jobs, i, job)) = Len(jobs) + 1
         /\ \A k \in 1 .. Len(jobs) + 1 :
              Put(jobs, i, job)[k] = IF k < i THEN jobs[k] ELSE IF k = i THEN job ELSE jobs[k - 1]
<1> DEFINE front == SubSeq(jobs, 1, i - 1)
           back == SubSeq(jobs, i, Len(jobs))
           one == <<job>>
           start == front \o one
           new == start \o back
<1>0. Len(jobs) \in Nat
  BY LenProperties
<1>1. /\ front \in Seq(Job) /\ Len(front) = i - 1 /\ \A k \in 1 .. i - 1 : front[k] = jobs[k]
  BY SubSeqProperties
<1>2. /\ back \in Seq(Job) /\ Len(back) = Len(jobs) + 1 - i
      /\ \A k \in 1 .. Len(jobs) + 1 - i : back[k] = jobs[i + k - 1]
  BY SubSeqProperties
<1>3. one \in Seq(Job) /\ Len(one) = 1 /\ one[1] = job
  OBVIOUS
<1>4. Put(jobs, i, job) = new
  BY DEF Put
<1> HIDE DEF front, back, one
<1>5. /\ start \in Seq(Job) /\ Len(start) = Len(front) + Len(one)
      /\ \A k \in 1 .. Len(front) : start[k] = front[k]
      /\ \A k \in Len(front) + 1 .. Len(front) + Len(one) : start[k] = one[k - Len(front)]
  BY <1>1, <1>3, Joined
<1> HIDE DEF start
<1>6. /\ new \in Seq(Job) /\ Len(new) = Len(start) + Len(back)
      /\ \A k \in 1 .. Len(start) : new[k] = start[k]
      /\ \A k \in Len(start) + 1 .. Len(start) + Len(back) : new[k] = back[k - Len(start)]
  BY <1>2, <1>5, Joined
<1> HIDE DEF new
<1>7. Len(start) = i /\ Len(new) = Len(jobs) + 1
  BY <1>0, <1>1, <1>2, <1>3, <1>5, <1>6
<1>8. ASSUME NEW k \in 1 .. Len(jobs) + 1
      PROVE  new[k] = IF k < i THEN jobs[k] ELSE IF k = i THEN job ELSE jobs[k - 1]
  <2>1. CASE k < i
    <3>1. k \in 1 .. Len(front) /\ k \in 1 .. i - 1 /\ k \in 1 .. Len(start)
      BY <1>0, <1>1, <1>7, <2>1
    <3>2. new[k] = jobs[k]
      BY <1>1, <1>5, <1>6, <3>1, Zenon
    <3> QED
      BY <2>1, <3>2
  <2>2. CASE k = i
    <3>1. new[i] = start[i] /\ start[i] = one[i - Len(front)] /\ i - Len(front) = 1
      BY <1>0, <1>1, <1>3, <1>5, <1>6, <1>7
    <3> QED
      BY <1>3, <2>2, <3>1
  <2>3. CASE k > i
    <3>1. new[k] = back[k - i] /\ k - i \in 1 .. Len(jobs) + 1 - i
      BY <1>0, <1>2, <1>6, <1>7, <2>3
    <3>2. i + (k - i) - 1 = k - 1
      BY <1>0
    <3> QED
      BY <1>2, <2>3, <3>1, <3>2
  <2> QED
    BY <1>0, <2>1, <2>2, <2>3
<1> QED
  BY <1>4, <1>6, <1>7, <1>8

LEMMA Taken ==
  ASSUME NEW jobs \in Seq(Job), NEW i \in DOMAIN jobs
  PROVE  /\ Drop(jobs, i) \in Seq(Job) /\ Len(Drop(jobs, i)) = Len(jobs) - 1
         /\ \A k \in 1 .. Len(jobs) - 1 : Drop(jobs, i)[k] = IF k < i THEN jobs[k] ELSE jobs[k + 1]
<1> DEFINE front == SubSeq(jobs, 1, i - 1)
           back == SubSeq(jobs, i + 1, Len(jobs))
           new == front \o back
<1>0. i \in 1 .. Len(jobs) /\ Len(jobs) \in Nat
  BY LenProperties
<1>1. /\ front \in Seq(Job) /\ Len(front) = i - 1 /\ \A k \in 1 .. i - 1 : front[k] = jobs[k]
  BY <1>0, SubSeqProperties
<1>2. /\ back \in Seq(Job) /\ Len(back) = Len(jobs) - i
      /\ \A k \in 1 .. Len(jobs) - i : back[k] = jobs[i + k]
  BY <1>0, SubSeqProperties
<1>3. Drop(jobs, i) = new
  BY DEF Drop
<1> HIDE DEF front, back
<1>4. /\ new \in Seq(Job) /\ Len(new) = Len(front) + Len(back)
      /\ \A k \in 1 .. Len(front) : new[k] = front[k]
      /\ \A k \in Len(front) + 1 .. Len(front) + Len(back) : new[k] = back[k - Len(front)]
  BY <1>1, <1>2, Joined
<1> HIDE DEF new
<1>5. Len(new) = Len(jobs) - 1
  BY <1>0, <1>1, <1>2, <1>4
<1>6. ASSUME NEW k \in 1 .. Len(jobs) - 1
      PROVE  new[k] = IF k < i THEN jobs[k] ELSE jobs[k + 1]
  <2>1. CASE k < i
    <3>1. k \in 1 .. Len(front) /\ k \in 1 .. i - 1
      BY <1>0, <1>1, <2>1
    <3>2. new[k] = jobs[k]
      BY <1>1, <1>4, <3>1, Zenon
    <3> QED
      BY <2>1, <3>2
  <2>2. CASE k >= i
    <3>3. k \in Len(front) + 1 .. Len(front) + Len(back) /\ k - (i - 1) \in 1 .. Len(jobs) - i
      BY <1>0, <1>1, <1>2, <2>2
    <3>1. new[k] = back[k - (i - 1)] /\ k - (i - 1) \in 1 .. Len(jobs) - i
      BY <1>1, <1>4, <3>3, Zenon
    <3>2. i + (k - (i - 1)) = k + 1
      BY <1>0
    <3> QED
      BY <1>0, <1>2, <2>2, <3>1, <3>2
  <2> QED
    BY <1>0, <2>1, <2>2
<1> QED
  BY <1>3, <1>4, <1>5, <1>6

LEMMA AddKeepsApart ==
  ASSUME NEW jobs \in Seq(Job), NEW i \in 1 .. Len(jobs) + 1, NEW job \in Job, NEW v
  PROVE  LET new == Put(jobs, i, job)
         IN  /\ Apart(jobs, v) /\ (Of(job, v) => Spared(jobs, v)) => Apart(new, v)
             /\ Spared(jobs, v) /\ ~Of(job, v) => Spared(new, v)
<1> DEFINE new == Put(jobs, i, job)
<1>0. new \in Seq(Job)
  BY Inserted
<1>1. /\ Len(new) = Len(jobs) + 1 /\ DOMAIN new = 1 .. Len(jobs) + 1 /\ DOMAIN jobs = 1 .. Len(jobs)
      /\ Len(jobs) \in Nat
      /\ \A k \in DOMAIN new : new[k] = IF k < i THEN jobs[k] ELSE IF k = i THEN job ELSE jobs[k - 1]
  <2>1. /\ Len(new) = Len(jobs) + 1
        /\ \A k \in 1 .. Len(jobs) + 1 :
             new[k] = IF k < i THEN jobs[k] ELSE IF k = i THEN job ELSE jobs[k - 1]
    BY Inserted
  <2> HIDE DEF new
  <2>2. DOMAIN new = 1 .. Len(new) /\ DOMAIN jobs = 1 .. Len(jobs) /\ Len(jobs) \in Nat
    BY <1>0, LenProperties
  <2> QED
    BY <2>1, <2>2
<1> HIDE DEF new
<1> DEFINE was(k) == IF k < i THEN k ELSE k - 1
<1>2. \A k \in DOMAIN new : k # i => was(k) \in DOMAIN jobs /\ new[k] = jobs[was(k)]
  BY <1>1
<1>3. \A k, m \in DOMAIN new : k # i /\ m # i /\ k # m => was(k) # was(m)
  BY <1>1
<1>4. i \in DOMAIN new /\ new[i] = job
  BY <1>1
<1> HIDE DEF was
<1>5. ASSUME NEW k \in DOMAIN new, NEW m \in DOMAIN new, k # m, Apart(jobs, v),
             Of(job, v) => Spared(jobs, v)
      PROVE  ~(Of(new[k], v) /\ Of(new[m], v))
  <2>1. CASE k # i /\ m # i
    BY <1>2, <1>3, <1>5, <2>1 DEF Apart
  <2>2. CASE k = i
    BY <1>2, <1>4, <1>5, <2>2 DEF Spared
  <2>3. CASE m = i
    BY <1>2, <1>4, <1>5, <2>3 DEF Spared
  <2> QED
    BY <2>1, <2>2, <2>3
<1>6. Apart(jobs, v) /\ (Of(job, v) => Spared(jobs, v)) => Apart(new, v)
  BY <1>5 DEF Apart
<1>7. Spared(jobs, v) /\ ~Of(job, v) => Spared(new, v)
  BY <1>2, <1>4 DEF Spared
<1> QED
  BY <1>6, <1>7 DEF new

LEMMA TakeKeepsApart ==
  ASSUME NEW jobs \in Seq(Job), NEW i \in DOMAIN jobs, NEW v
  PROVE  LET new == Drop(jobs, i)
         IN  (Apart(jobs, v) => Apart(new, v)) /\ (Spared(jobs, v) => Spared(new, v))
<1> DEFINE new == Drop(jobs, i)
<1>0. new \in Seq(Job)
  BY Taken
<1>1. /\ Len(new) = Len(jobs) - 1 /\ DOMAIN new = 1 .. Len(jobs) - 1 /\ DOMAIN jobs = 1 .. Len(jobs)
      /\ Len(jobs) \in Nat
      /\ \A k \in DOMAIN new : new[k] = IF k < i THEN jobs[k] ELSE jobs[k + 1]
  <2>1. /\ Len(new) = Len(jobs) - 1
        /\ \A k \in 1 .. Len(jobs) - 1 : new[k] = IF k < i THEN jobs[k] ELSE jobs[k + 1]
    BY Taken
  <2> HIDE DEF new
  <2>2. DOMAIN new = 1 .. Len(new) /\ DOMAIN jobs = 1 .. Len(jobs) /\ Len(jobs) \in Nat
    BY <1>0, LenProperties
  <2> QED
    BY <2>1, <2>2
<1> HIDE DEF new
<1> DEFINE was(k) == IF k < i THEN k ELSE k + 1
<1>2. \A k \in DOMAIN new : was(k) \in DOMAIN jobs /\ new[k] = jobs[was(k)]
  BY <1>1
<1>3. \A k, m \in DOMAIN new : k # m => was(k) # was(m)
  BY <1>1
<1> HIDE DEF was
<1>4. (Apart(jobs, v) => Apart(new, v)) /\ (Spared(jobs, v) => Spared(new, v))
  BY <1>2, <1>3 DEF Apart, Spared
<1> QED
  BY <1>4 DEF new

(* A job claimed from the front, and one put back there.                    *)
LEMMA ClaimKeepsApart ==
  ASSUME NEW jobs \in Seq(Job), jobs # <<>>, NEW v, Apart(jobs, v)
  PROVE  Apart(Tail(jobs), v) /\ (Of(Head(jobs), v) => Spared(Tail(jobs), v))
<1> DEFINE new == Tail(jobs)
           head == Head(jobs)
<1>1. /\ new \in Seq(Job) /\ Len(new) = Len(jobs) - 1 /\ \A k \in 1 .. Len(new) : new[k] = jobs[k + 1]
      /\ head = jobs[1] /\ Len(jobs) > 0 /\ Len(jobs) \in Nat
  BY HeadTailProperties, EmptySeq, LenProperties
<1> HIDE DEF new, head
<1>2. DOMAIN new = 1 .. Len(jobs) - 1 /\ DOMAIN jobs = 1 .. Len(jobs)
  BY <1>1, LenProperties
<1>3. /\ \A k \in DOMAIN new : k + 1 \in DOMAIN jobs /\ new[k] = jobs[k + 1] /\ k + 1 # 1
      /\ \A k, m \in DOMAIN new : k # m => k + 1 # m + 1
  BY <1>1, <1>2
<1>4. 1 \in DOMAIN jobs
  BY <1>1, <1>2
<1>5. Apart(new, v)
  BY <1>3 DEF Apart
<1>6. Of(head, v) => Spared(new, v)
  BY <1>1, <1>3, <1>4 DEF Apart, Spared
<1> QED
  BY <1>5, <1>6 DEF new, head

LEMMA ReturnKeepsApart ==
  ASSUME NEW jobs \in Seq(Job), NEW job \in Job, NEW v, Apart(jobs, v), Of(job, v) => Spared(jobs, v)
  PROVE  Apart(<<job>> \o jobs, v)
<1> DEFINE one == <<job>>
           new == one \o jobs
<1>1. one \in Seq(Job) /\ Len(one) = 1 /\ one[1] = job /\ Len(jobs) \in Nat
  BY LenProperties
<1> HIDE DEF one
<1>2. /\ new \in Seq(Job) /\ Len(new) = Len(one) + Len(jobs)
      /\ \A k \in 1 .. Len(one) : new[k] = one[k]
      /\ \A k \in Len(one) + 1 .. Len(one) + Len(jobs) : new[k] = jobs[k - Len(one)]
  BY <1>1, Joined
<1> HIDE DEF new
<1>3. DOMAIN new = 1 .. Len(jobs) + 1 /\ DOMAIN jobs = 1 .. Len(jobs)
  BY <1>1, <1>2, LenProperties
<1>4. new[1] = job /\ 1 \in DOMAIN new
  BY <1>1, <1>2, <1>3
<1>5. /\ \A k \in DOMAIN new : k # 1 => k - 1 \in DOMAIN jobs /\ new[k] = jobs[k - 1]
      /\ \A k, m \in DOMAIN new : k # m => k - 1 # m - 1
  BY <1>1, <1>2, <1>3
<1>6. ASSUME NEW k \in DOMAIN new, NEW m \in DOMAIN new, k # m
      PROVE  ~(Of(new[k], v) /\ Of(new[m], v))
  <2>1. CASE k # 1 /\ m # 1
    BY <1>5, <1>6, <2>1 DEF Apart
  <2>2. CASE k = 1
    BY <1>4, <1>5, <1>6, <2>2 DEF Spared
  <2>3. CASE m = 1
    BY <1>4, <1>5, <1>6, <2>3 DEF Spared
  <2> QED
    BY <2>1, <2>2, <2>3
<1>7. Apart(new, v)
  BY <1>6 DEF Apart
<1> QED
  BY <1>7 DEF new, one

(* A worker's step within a job keeps the job.                              *)
InJob ==
  /\ run.at \notin {"idle", "cleanup"} /\ run'.at # "idle"
  /\ run'.video = run.video /\ run'.format = run.format
  /\ UNCHANGED <<waiting, twice>>

LEMMA WorkerInJob ==
  ASSUME run \in RunType, WorkerStep, ~Claim, ~Cleanup
  PROVE  InJob
<1>1. CASE SetActive \/ CleanSlate \/ WaitFor \/ GiveUp \/ MaybeStart \/ FindSource \/ Finish
  BY <1>1 DEF SetActive, CleanSlate, WaitFor, GiveUp, MaybeStart, FindSource, Finish, Go, InJob, RunType,
              queue, history
<1>2. CASE CheckPlan \/ Render \/ Download
  BY <1>2 DEF CheckPlan, Render, Download, Go, EndAs, InJob, RunType, queue, history
<1>3. CASE BeginPass \/ Stage
  BY <1>3 DEF BeginPass, Stage, EndPass, EndAs, InJob, RunType, queue, history
<1> QED
  BY <1>1, <1>2, <1>3 DEF WorkerStep

(* The queue: a video never added beside a job of its own is there once.    *)
LEMMA AddKeepsQueue == ASSUME RunInv, QueueInv, Add PROVE QueueInv'
<1>1. waiting \in Seq(Job)
  BY DEF RunInv, ControlOK
<1>2. PICK u \in Videos, f \in Formats, i \in 1 .. Len(waiting) + 1 :
        /\ waiting' = SubSeq(waiting, 1, i - 1) \o <<[video |-> u, format |-> f]>>
                      \o SubSeq(waiting, i, Len(waiting))
        /\ twice' = twice \cup {w \in {u} : f # "render" /\ InQueue(u)}
  BY DEF Add
<1> DEFINE job == [video |-> u, format |-> f]
<1>3. waiting' = Put(waiting, i, job)
  BY <1>2 DEF Put
<1>4. job \in Job /\ job.video = u /\ job.format = f
  BY ConstantsAssumption DEF Job
<1> HIDE DEF job
<1>5. ASSUME NEW v \in Videos \ twice' PROVE Once(v)'
  <2>1. v \notin twice /\ (Of(job, v) => ~InQueue(v))
    BY <1>2, <1>4 DEF Of
  <2>2. Once(v) /\ UNCHANGED run
    BY <2>1 DEF QueueInv, Add
  <2>3. Of(job, v) => Spared(waiting, v) /\ ~(run.at \notin {"idle", "cleanup"} /\ Of(run, v))
    BY <2>1 DEF InQueue, Spared, Of
  <2>4. /\ Apart(waiting, v) /\ (Of(job, v) => Spared(waiting, v)) => Apart(waiting', v)
        /\ Spared(waiting, v) /\ ~Of(job, v) => Spared(waiting', v)
    BY <1>1, <1>3, <1>4, AddKeepsApart
  <2> QED
    BY <2>2, <2>3, <2>4 DEF Once
<1> QED
  BY <1>5 DEF QueueInv

LEMMA QueueKeeps == ASSUME RunInv, QueueInv, [Next]_vars PROVE QueueInv'
<1>1. waiting \in Seq(Job) /\ run \in RunType
  BY DEF RunInv, ControlOK
<1>2. CASE Remove
  <2>1. PICK i \in DOMAIN waiting : waiting' = Drop(waiting, i)
    BY <1>2 DEF Remove, Drop
  <2>2. UNCHANGED <<run, twice>>
    BY <1>2 DEF Remove, history
  <2>3. \A v : /\ Apart(waiting, v) => Apart(waiting', v)
               /\ Spared(waiting, v) => Spared(waiting', v)
    BY <1>1, <2>1, TakeKeepsApart
  <2> QED
    BY <2>2, <2>3 DEF QueueInv, Once
<1>3. CASE Claim
  <2>1. /\ waiting # <<>> /\ waiting' = Tail(waiting) /\ run'.video = Head(waiting).video
        /\ run'.format = Head(waiting).format /\ UNCHANGED twice
    BY <1>3 DEF Claim, history
  <2>2. \A v : Of(run', v) <=> Of(Head(waiting), v)
    BY <2>1 DEF Of
  <2>3. \A v : Apart(waiting, v) =>
                 Apart(waiting', v) /\ (Of(Head(waiting), v) => Spared(waiting', v))
    BY <1>1, <2>1, ClaimKeepsApart
  <2> QED
    BY <2>1, <2>2, <2>3 DEF QueueInv, Once
<1>4. CASE Crash
  <2>1. run' = IdleRun /\ run'.at = "idle" /\ UNCHANGED twice
    BY <1>4 DEF Crash, IdleRun
  <2>2. ASSUME NEW v \in Videos \ twice PROVE Apart(waiting', v)
    <3>1. CASE run.at \in {"idle", "cleanup"}
      BY <1>4, <2>2, <3>1 DEF Crash, QueueInv, Once
    <3>2. CASE run.at \notin {"idle", "cleanup"}
      <4> DEFINE job == [video |-> run.video, format |-> run.format]
      <4>1. job \in Job /\ job.video = run.video /\ job.format = run.format
        BY <1>1, <3>2 DEF RunInv, InHand, RunType, Job
      <4>2. waiting' = <<job>> \o waiting
        BY <1>4, <3>2 DEF Crash
      <4> HIDE DEF job
      <4>3. Apart(waiting, v) /\ (Of(job, v) => Spared(waiting, v))
        BY <2>2, <3>2, <4>1 DEF QueueInv, Once, Of
      <4> QED
        BY <1>1, <4>1, <4>2, <4>3, ReturnKeepsApart
    <3> QED
      BY <3>1, <3>2
  <2> QED
    BY <2>1, <2>2 DEF QueueInv, Once
<1>5. CASE WorkerStep /\ ~Claim /\ ~Cleanup
  BY <1>1, <1>5, WorkerInJob DEF InJob, QueueInv, Once, Of
<1>6. CASE Cleanup
  BY <1>6 DEF Cleanup, IdleRun, queue, QueueInv, Once
<1>7. CASE SetPaused \/ RequestCancel \/ AskDelete \/ Delete \/ Prefetching \/ UNCHANGED vars
  <2>1. UNCHANGED <<waiting, run, twice>>
    BY <1>7 DEF SetPaused, RequestCancel, AskDelete, Delete, Prefetching, PrefetchEnds, PrefetchOverdue,
                vars, queue, history
  <2> QED
    BY <2>1 DEF QueueInv, Once, Of
<1> QED
  BY <1>2, <1>3, <1>4, <1>5, <1>6, <1>7, AddKeepsQueue DEF Next, Request

(* The threads.                                                             *)
LEMMA ThreadsEnd ==
  ASSUME FetchOK, SlotOwns, Alone, Prefetching
  PROVE  SlotOwns' /\ Alone'
<1>1. UNCHANGED <<run, slot, abandoned, twice>>
  BY DEF Prefetching, PrefetchEnds, PrefetchOverdue, history
<1>2. DOMAIN fetches' \subseteq DOMAIN fetches
      /\ \A u \in DOMAIN fetches' : fetches'[u].video = fetches[u].video
  <2>1. ASSUME NEW t \in DOMAIN fetches, PrefetchEnds(t)
        PROVE  DOMAIN fetches' \subseteq DOMAIN fetches
               /\ \A u \in DOMAIN fetches' : fetches'[u].video = fetches[u].video
    BY <2>1 DEF PrefetchEnds, EndThread
  <2>2. ASSUME NEW t \in DOMAIN fetches, PrefetchOverdue(t)
        PROVE  DOMAIN fetches' \subseteq DOMAIN fetches
               /\ \A u \in DOMAIN fetches' : fetches'[u].video = fetches[u].video
    <3>1. fetches' = [fetches EXCEPT ![t] = [fetches[t] EXCEPT !.overdue = TRUE]]
      BY <2>2 DEF PrefetchOverdue, FetchOK
    <3>2. [fetches[t] EXCEPT !.overdue = TRUE].video = fetches[t].video
      BY FetchedVideo DEF Fetch
    <3> QED
      BY <3>1, <3>2
  <2> QED
    BY <2>1, <2>2 DEF Prefetching
<1>3. \A u \in OwnFetches' : u \in OwnFetches /\ fetches'[u].video = fetches[u].video
  BY <1>1, <1>2 DEF OwnFetches
<1> QED
  BY <1>1, <1>3 DEF SlotOwns, Alone

LEMMA ThreadStarts ==
  ASSUME RunInv, FetchOK, PrefetchInv, MaybeStart
  PROVE  SlotOwns' /\ Alone'
<1>1. /\ run.at = "prefetch" /\ run'.at \in {"rendering", "source"} /\ UNCHANGED <<waiting, abandoned, twice>>
      /\ run'.video = run.video /\ run'.format = run.format
  BY DEF MaybeStart, Go, RunInv, ControlOK, RunType, queue, history
<1>2. CASE UNCHANGED prefetch
  BY <1>1, <1>2 DEF PrefetchInv, SlotOwns, Alone, OwnFetches, prefetch
<1>3. ASSUME NEW i \in Wanted, ~InFlight,
             slot' = [thread |-> started + 1, video |-> waiting[i].video],
             fetches' = [u \in DOMAIN fetches \cup {started + 1} |->
                           IF u = started + 1 THEN [video |-> waiting[i].video, overdue |-> FALSE]
                           ELSE fetches[u]]
      PROVE  SlotOwns' /\ Alone'
  <2>1. OwnFetches = {}
    BY <1>3 DEF PrefetchInv, SlotOwns, InFlight, OwnFetches
  <2>2. \A u \in OwnFetches' : u = started + 1 /\ fetches'[u].video = waiting[i].video
    BY <1>1, <1>3, <2>1 DEF OwnFetches
  <2>3. SlotOwns'
    BY <1>3, <2>2 DEF SlotOwns
  <2>4. run.format # "render" /\ run.video \notin twice => waiting[i].video # run.video
    <3>1. i \in DOMAIN waiting /\ waiting[i].format # "render"
      BY DEF Wanted, WaitingVideos
    <3>2. run.video \in Videos
      BY <1>1 DEF RunInv, InHand
    <3>3. Once(run.video) => (run.format # "render" => ~Of(waiting[i], run.video))
      BY <1>1, <3>1 DEF Once, Of, Spared
    <3> QED
      BY <3>1, <3>2, <3>3 DEF PrefetchInv, QueueInv, Of
  <2>5. Alone'
    BY <1>1, <2>2, <2>4 DEF Alone
  <2> QED
    BY <2>3, <2>5
<1> QED
  BY <1>2, <1>3 DEF MaybeStart

LEMMA WaitKeeps ==
  ASSUME RunInv, FetchOK, SlotOwns, WaitFor \/ GiveUp
  PROVE  SlotOwns' /\ Alone'
<1>1. /\ run'.video = run.video /\ UNCHANGED <<fetches, twice>>
  BY DEF WaitFor, GiveUp, Go, RunInv, ControlOK, RunType, prefetch, history
<1>2. ASSUME NEW t \in OwnFetches, fetches[t].video = run.video
      PROVE  Awaited = t
  BY <1>2 DEF SlotOwns, Awaited
<1>3. CASE WaitFor
  <2>1. UNCHANGED <<slot, abandoned>> /\ Awaited \notin DOMAIN fetches
    BY <1>3 DEF WaitFor, prefetch, history
  <2>2. OwnFetches' = OwnFetches /\ \A t \in OwnFetches : fetches[t].video # run.video
    BY <1>1, <1>2, <2>1 DEF OwnFetches
  <2> QED
    BY <1>1, <2>1, <2>2 DEF SlotOwns, Alone
<1>4. CASE GiveUp
  <2>1. Awaited \in DOMAIN fetches /\ abandoned' = abandoned \cup {Awaited}
    BY <1>4 DEF GiveUp
  <2>2. Awaited = slot.thread
    BY <2>1 DEF Awaited, FetchOK
  <2>3. OwnFetches' = {}
    BY <1>1, <2>1, <2>2 DEF SlotOwns, OwnFetches
  <2> QED
    BY <2>3 DEF SlotOwns, Alone
<1> QED
  BY <1>3, <1>4

LEMMA PrefetchKeeps == ASSUME RunInv, FetchOK, PrefetchInv, [Next]_vars PROVE PrefetchInv'
<1>1. QueueInv'
  BY QueueKeeps DEF PrefetchInv
<1>2. SlotOwns' /\ Alone'
  <2>1. CASE MaybeStart \/ WaitFor \/ GiveUp \/ Prefetching
    BY <2>1, ThreadStarts, WaitKeeps, ThreadsEnd DEF PrefetchInv
  <2>2. CASE Crash
    <3>1. OwnFetches' = {}
      BY <2>2 DEF Crash, OwnFetches
    <3> QED
      BY <3>1 DEF SlotOwns, Alone
  <2>3. ASSUME UNCHANGED <<fetches, slot, abandoned>>, twice \subseteq twice',
               \/ run'.at \notin {"prefetch", "source", "fetching", "fresh", "work"}
               \/ run'.format = "render"
               \/ /\ run.at \in {"prefetch", "source", "fetching", "fresh", "work"}
                  /\ run'.video = run.video /\ run'.format = run.format
        PROVE  SlotOwns' /\ Alone'
    BY <2>3 DEF PrefetchInv, SlotOwns, Alone, OwnFetches
  <2>4. CASE Request \/ UNCHANGED vars
    <3>1. UNCHANGED <<run, fetches, slot, abandoned>> /\ twice \subseteq twice'
      BY <2>4 DEF Request, Add, Remove, SetPaused, RequestCancel, AskDelete, Delete, vars, prefetch, history
    <3> QED
      BY <3>1 DEF PrefetchInv, SlotOwns, Alone, OwnFetches
  <2>5. CASE Claim \/ SetActive \/ CleanSlate \/ CheckPlan
    <3>1. /\ UNCHANGED <<fetches, slot, abandoned, twice>>
          /\ run'.at \in {"claimed", "marked", "checks", "wait", "finishing"} \/ run'.format = "render"
      <4>1. Claim => run'.at = "claimed" \/ run'.format = "render"
        BY DEF Claim
      <4>2. run \in RunType
        BY DEF RunInv, ControlOK
      <4>3. SetActive \/ CleanSlate \/ CheckPlan => run'.at \in {"marked", "checks", "wait", "finishing"}
        BY <4>2 DEF SetActive, CleanSlate, CheckPlan, Go, EndAs, RunType
      <4>4. UNCHANGED <<fetches, slot, abandoned, twice>>
        BY <2>5 DEF Claim, SetActive, CleanSlate, CheckPlan, prefetch, history
      <4> QED
        BY <2>5, <4>1, <4>3, <4>4
    <3> QED
      BY <2>3, <3>1
  <2>6. CASE Render \/ Finish \/ Cleanup
    <3>1. /\ UNCHANGED <<fetches, slot, abandoned, twice>>
          /\ run'.at \in {"finishing", "cleanup", "idle"}
      <4>1. run \in RunType
        BY DEF RunInv, ControlOK
      <4>2. run'.at \in {"finishing", "cleanup", "idle"}
        <5>1. Render \/ Finish => run'.at \in {"finishing", "cleanup"}
          BY <4>1 DEF Render, Finish, Go, EndAs, RunType
        <5>2. Cleanup => run'.at = "idle"
          BY DEF Cleanup, IdleRun
        <5> QED
          BY <2>6, <5>1, <5>2
      <4>3. UNCHANGED <<fetches, slot, abandoned, twice>>
        BY <2>6 DEF Render, Finish, Cleanup, prefetch, history
      <4> QED
        BY <4>2, <4>3
    <3> QED
      BY <2>3, <3>1
  <2>7. CASE FindSource \/ Download \/ BeginPass \/ Stage
    <3>1. run \in RunType /\ run.at \in {"source", "fetching", "fresh", "work"}
      BY <2>7 DEF FindSource, Download, BeginPass, Stage, Go, RunInv, ControlOK
    <3>2. UNCHANGED <<fetches, slot, abandoned, twice>>
      BY <2>7 DEF FindSource, Download, BeginPass, Stage, prefetch, history
    <3>3. ~Claim /\ ~Cleanup
      BY <3>1 DEF Claim, Cleanup
    <3>4. run'.video = run.video /\ run'.format = run.format
      BY <2>7, <3>1, <3>3, WorkerInJob DEF InJob, WorkerStep
    <3> QED
      BY <2>3, <3>1, <3>2, <3>4
  <2> QED
    BY <2>1, <2>2, <2>4, <2>5, <2>6, <2>7 DEF Next, WorkerStep
<1> QED
  BY <1>1, <1>2 DEF PrefetchInv

LEMMA AtMostOne == ASSUME NEW S, NEW x, S \subseteq {x} PROVE Cardinality(S) <= 1
<1>1. CASE S = {}
  BY <1>1, FS_EmptySet
<1>2. CASE S = {x}
  BY <1>2, FS_Singleton
<1> QED
  BY <1>1, <1>2

(* One thread at a time downloads a video that is in the queue once: the run *)
(* waits for a prefetch of its own video, and nothing starts another behind  *)
(* it (core/prefetch.py). The run that has NeverTwoDownloads shows that the  *)
(* condition is needed.                                                     *)
THEOREM VideoDownloadedOnce == Spec => []OneDownload
<1>1. Init => PrefetchInv
  BY DEF Init, IdleRun, PrefetchInv, QueueInv, Once, SlotOwns, Alone, OwnFetches, Apart
<1>2. AllTypes /\ PrefetchInv /\ [Next]_vars => PrefetchInv'
  BY PrefetchKeeps DEF AllTypes
<1>3. RunInv /\ PrefetchInv => OneDownload
  <2> SUFFICES ASSUME RunInv, PrefetchInv, NEW v \in Videos \ twice
               PROVE  Cardinality(Downloading(v)) <= 1
    BY DEF OneDownload
  <2>1. CASE run.at = "fetching" /\ run.video = v
    <3>1. run.format # "render"
      BY <2>1 DEF RunInv, InHand, VideoPlaces
    <3>2. Downloading(v) \subseteq {0}
      BY <2>1, <3>1 DEF PrefetchInv, Alone, OwnFetches, Downloading
    <3> QED
      BY <3>2, AtMostOne
  <2>2. CASE ~(run.at = "fetching" /\ run.video = v)
    <3>1. Downloading(v) \subseteq {slot.thread}
      BY <2>2 DEF PrefetchInv, SlotOwns, OwnFetches, Downloading
    <3> QED
      BY <3>1, AtMostOne
  <2> QED
    BY <2>1, <2>2
<1>4. AllTypes => RunInv
  BY DEF AllTypes
<1> QED
  BY <1>1, <1>2, <1>3, <1>4, TypesHold, PTL DEF Spec
=============================================================================
