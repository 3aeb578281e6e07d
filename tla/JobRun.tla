------------------------------- MODULE JobRun -------------------------------
(***************************************************************************)
(* One run of the worker thread (server/jobs.py Worker.run) from the claim *)
(* to its `finally`, with what other threads do to it meanwhile: cancel    *)
(* flags (core/cancel.py), the background download of the next video       *)
(* (core/prefetch.py), deletion of a video's files (server/api.py) and a   *)
(* crash. The table is reduced to the sequence of waiting jobs: JobQueue   *)
(* has its statements.                                                     *)
(***************************************************************************)
EXTENDS Naturals, Sequences, FiniteSets

CONSTANTS
  Videos, NoVideo,
  Formats,    \* the kinds of job this instance adds
  Checks,     \* stage boundaries of a pass at which it looks for a cancel
  MaxJobs, MaxCancels, MaxStalls, MaxDeletes, MaxCrashes   \* bounds

(* "both" is a longform job that also makes Shorts; "render" stands for     *)
(* re-renders and translations, which download nothing.                     *)
AllFormats == {"shorts", "longform", "both", "render"}

ASSUME ConstantsAssumption ==
  /\ NoVideo \notin Videos /\ Formats \subseteq AllFormats
  /\ Checks \in Nat \ {0} /\ MaxJobs \in Nat
  /\ MaxCancels \in Nat /\ MaxStalls \in Nat /\ MaxDeletes \in Nat /\ MaxCrashes \in Nat

Job    == [video : Videos, format : AllFormats]
Passes == [shorts |-> <<"shorts">>, longform |-> <<"longform">>,
           both |-> <<"shorts", "longform">>, render |-> <<>>]

VARIABLES
  waiting,   \* the queued jobs in the order they are claimed
  paused,
  run,       \* the worker thread: where it is in its job, the passes left
  active,    \* core/cancel.py _active
  flags,     \* core/cancel.py _cancelled
  fetches,   \* the prefetch threads alive: id -> its video, and whether the join's
             \* limit has passed
  started,   \* prefetch threads started since the process did
  slot,      \* Prefetcher._thread and _video_id
  files,     \* the videos whose source is in downloads/
  made,      \* the videos whose Shorts were made (shorts_made)
  deleting,  \* the video a DELETE /videos request has found idle
  asked,     \* history: this run was cancelled since its clean slate
  due,       \* history: this run was cancelled with a check still ahead
  abandoned, \* history: the prefetch threads given up on
  twice,     \* history: the videos that two jobs were to download at once
  added, cancels, stalls, deletes, crashes

bounds == <<added, cancels, stalls, deletes, crashes>>
queue    == <<waiting, paused>>
cancel   == <<active, flags>>
prefetch == <<fetches, started, slot>>
disk     == <<files, made, deleting>>
history  == <<asked, due, abandoned, twice>>
vars     == <<queue, run, cancel, prefetch, disk, history, bounds>>

IdleRun == [at |-> "idle", video |-> NoVideo, format |-> "render", todo |-> <<>>,
            left |-> 0, result |-> "none"]
NoSlot  == [thread |-> 0, video |-> NoVideo]

Init ==
  /\ waiting = <<>> /\ paused = TRUE
  /\ run = IdleRun /\ active = NoVideo /\ flags = {}
  /\ fetches = [t \in {} |-> IdleRun] /\ started = 0 /\ slot = NoSlot
  /\ files = {} /\ made = {} /\ deleting = NoVideo
  /\ asked = FALSE /\ due = FALSE /\ abandoned = {} /\ twice = {}
  /\ added = 0 /\ cancels = 0 /\ stalls = 0 /\ deletes = 0 /\ crashes = 0

-----------------------------------------------------------------------------
(* Requests.                                                               *)

(* The jobs of a video that are waiting or in hand. Most doors refuse a      *)
(* second one, but the check is apart from the insert, a forced batch item   *)
(* and a retry make none, and a longform job's link is resolved only when it *)
(* runs: a video can be in the queue twice.                                 *)
InQueue(v) ==
  \/ \E i \in DOMAIN waiting : waiting[i].video = v /\ waiting[i].format # "render"
  \/ run.at \notin {"idle", "cleanup"} /\ run.format # "render" /\ run.video = v

(* add_job: a video goes to the end, a render before the first waiting video. *)
WaitingVideos == {i \in DOMAIN waiting : waiting[i].format # "render"}
IsNext(i) == i \in WaitingVideos /\ \A k \in WaitingVideos : i <= k
Place(i, f) == \/ f = "render" /\ IsNext(i)
               \/ (f # "render" \/ WaitingVideos = {}) /\ i = Len(waiting) + 1

Add ==
  /\ added < MaxJobs /\ added' = added + 1
  /\ \E v \in Videos, f \in Formats, i \in 1 .. Len(waiting) + 1 :
       /\ Place(i, f)
       /\ waiting' = SubSeq(waiting, 1, i - 1) \o <<[video |-> v, format |-> f]>>
                     \o SubSeq(waiting, i, Len(waiting))
       /\ twice' = twice \cup {u \in {v} : f # "render" /\ InQueue(v)}
  /\ UNCHANGED <<paused, run, cancel, prefetch, disk, asked, due, abandoned,
                 cancels, stalls, deletes, crashes>>

Remove ==
  /\ \E i \in DOMAIN waiting :
       waiting' = SubSeq(waiting, 1, i - 1) \o SubSeq(waiting, i + 1, Len(waiting))
  /\ UNCHANGED <<paused, run, cancel, prefetch, disk, history, bounds>>

SetPaused ==
  /\ paused' = ~paused
  /\ UNCHANGED <<waiting, run, cancel, prefetch, disk, history, bounds>>

(* Where the run is once its clean slate is behind it, and still at work.   *)
UnderWay == {"checks", "wait", "prefetch", "source", "fetching", "fresh", "work"}
Running(v) == run.format # "render" /\ run.video = v /\ run.at \in UnderWay

(* POST /cancel: the flag is set and stays.                                 *)
RequestCancel ==
  /\ cancels < MaxCancels /\ cancels' = cancels + 1
  /\ \E v \in Videos :
       /\ flags' = flags \cup {v}
       /\ asked' = (asked \/ Running(v))
       /\ due' = (due \/ (Running(v) /\ run.at = "work" /\ run.left > 0))
  /\ UNCHANGED <<queue, run, active, prefetch, disk, abandoned, twice, added, stalls, deletes, crashes>>

(* DELETE /videos/{id}: refused while the video is active; the files go in  *)
(* a later step.                                                           *)
AskDelete ==
  /\ deleting = NoVideo
  /\ deletes < MaxDeletes /\ deletes' = deletes + 1
  /\ \E v \in Videos \ {active} : deleting' = v
  /\ UNCHANGED <<queue, run, cancel, prefetch, files, made, history, added, cancels, stalls, crashes>>

Delete ==
  /\ deleting # NoVideo
  /\ files' = files \ {deleting} /\ made' = made \ {deleting}
  /\ deleting' = NoVideo
  /\ UNCHANGED <<queue, run, cancel, prefetch, history, bounds>>

Request == Add \/ Remove \/ SetPaused \/ RequestCancel \/ AskDelete \/ Delete

-----------------------------------------------------------------------------
(* The worker thread.                                                      *)

Go(from, to) == run.at = from /\ run' = [run EXCEPT !.at = to]
EndAs(result) == run' = [run EXCEPT !.at = "finishing", !.result = result]

(* A render goes straight to the prefetch; a video is resolved first.       *)
Claim ==
  /\ run.at = "idle" /\ ~paused /\ waiting # <<>>
  /\ LET job == Head(waiting) IN
       run' = [at     |-> IF job.format = "render" THEN "prefetch" ELSE "claimed",
               video  |-> job.video, format |-> job.format, todo |-> Passes[job.format],
               left   |-> 0, result |-> "none"]
  /\ waiting' = Tail(waiting)
  /\ UNCHANGED <<paused, cancel, prefetch, disk, history, bounds>>

SetActive ==
  /\ Go("claimed", "marked")
  /\ active' = run.video
  /\ UNCHANGED <<queue, flags, prefetch, disk, history, bounds>>

(* Faulty variant of CleanSlate: a flag left by an earlier run stays.      *)
KeepFlags ==
  /\ Go("marked", "checks")
  /\ asked' = FALSE /\ due' = FALSE
  /\ UNCHANGED <<queue, cancel, prefetch, disk, abandoned, twice, bounds>>

(* The run starts with no flag of its video.                               *)
CleanSlate ==
  /\ Go("marked", "checks")
  /\ flags' = flags \ {run.video}
  /\ asked' = FALSE /\ due' = FALSE
  /\ UNCHANGED <<queue, active, prefetch, disk, abandoned, twice, bounds>>

(* _check_plan and _check_local_model pass or raise.                        *)
CheckPlan ==
  /\ run.at = "checks"
  /\ Go("checks", "wait") \/ EndAs("failed")
  /\ UNCHANGED <<queue, cancel, prefetch, disk, history, bounds>>

Awaited == IF slot.video = run.video THEN slot.thread ELSE 0
InFlight == slot.thread \in DOMAIN fetches

(* Faulty variant of WaitFor: the job does not wait.                       *)
DoNotWait ==
  /\ Go("wait", "prefetch")
  /\ UNCHANGED <<queue, cancel, prefetch, disk, history, bounds>>

(* wait_for: nothing of this video is in flight, or it has ended.           *)
WaitFor ==
  /\ Awaited \notin DOMAIN fetches
  /\ Go("wait", "prefetch")
  /\ UNCHANGED <<queue, cancel, prefetch, disk, history, bounds>>

(* Faulty variant of GiveUp: a join without a timeout.                      *)
NeverGiveUp == FALSE /\ UNCHANGED vars

(* The join times out on a download that hangs, and the thread is disowned. *)
GiveUp ==
  /\ Awaited \in DOMAIN fetches /\ fetches[Awaited].overdue
  /\ Go("wait", "prefetch")
  /\ slot' = NoSlot
  /\ abandoned' = abandoned \cup {Awaited}
  /\ UNCHANGED <<queue, cancel, fetches, started, disk, asked, due, twice, bounds>>

(* maybe_start: the first waiting video, unless the queue is paused, a      *)
(* prefetch is in flight or the file is there. started numbers the threads. *)
Wanted == {i \in WaitingVideos : IsNext(i) /\ waiting[i].video \notin files}

MaybeStart ==
  /\ Go("prefetch", IF run.format = "render" THEN "rendering" ELSE "source")
  /\ \/ /\ paused \/ InFlight \/ Wanted = {}
        /\ UNCHANGED prefetch
     \/ /\ ~paused /\ ~InFlight
        /\ \E i \in Wanted :
             LET t == started + 1  v == waiting[i].video IN
               /\ started' = t
               /\ slot' = [thread |-> t, video |-> v]
               /\ fetches' = [u \in DOMAIN fetches \cup {t} |->
                                IF u = t THEN [video |-> v, overdue |-> FALSE] ELSE fetches[u]]
  /\ UNCHANGED <<queue, cancel, disk, history, bounds>>

(* A render ends; no cancel reaches it (cancel.set_active is not called).   *)
Render ==
  /\ run.at = "rendering"
  /\ EndAs("done") \/ EndAs("failed")
  /\ UNCHANGED <<queue, cancel, prefetch, disk, history, bounds>>

(* _cached_or_download.                                                    *)
FindSource ==
  /\ Go("source", IF run.video \in files THEN "fresh" ELSE "fetching")
  /\ UNCHANGED <<queue, cancel, prefetch, disk, history, bounds>>

(* The job's own download arrives, fails, or its progress hook sees the     *)
(* flag.                                                                   *)
Download ==
  /\ run.at = "fetching"
  /\ \/ Go("fetching", "fresh") /\ files' = files \cup {run.video}
     \/ EndAs("failed") /\ UNCHANGED files
     \/ run.video \in flags /\ EndAs("cancelled") /\ UNCHANGED files
  /\ UNCHANGED <<queue, cancel, prefetch, made, deleting, history, bounds>>

(* Faulty variant of EndPass: there is always another pass.                *)
EndPassAgain == run' = [run EXCEPT !.at = "source", !.todo = Tail(@)]

(* The pass ends: the next one starts from the source again, or the job is  *)
(* done.                                                                   *)
EndPass ==
  run' = IF Tail(run.todo) = <<>>
         THEN [run EXCEPT !.at = "finishing", !.result = "done", !.todo = <<>>]
         ELSE [run EXCEPT !.at = "source", !.todo = Tail(@)]

(* cancel.clear after the download; a Shorts pass already made is skipped   *)
(* unless it is forced.                                                    *)
BeginPass ==
  /\ run.at = "fresh"
  /\ flags' = flags \ {run.video}
  /\ \/ run' = [run EXCEPT !.at = "work", !.left = Checks]
     \/ Head(run.todo) = "shorts" /\ run.video \in made /\ EndPass
  /\ UNCHANGED <<queue, active, prefetch, disk, history, bounds>>

(* Faulty variant of Stage: the last boundary does not look for a cancel.   *)
StageUnchecked ==
  /\ run.at = "work"
  /\ \/ run.left > 0 /\ (run.left = 1 \/ run.video \notin flags)
        /\ run' = [run EXCEPT !.left = @ - 1] /\ UNCHANGED made
     \/ run.left > 1 /\ run.video \in flags /\ EndAs("cancelled") /\ UNCHANGED made
     \/ EndAs("failed") /\ UNCHANGED made
     \/ run.left = 0 /\ EndPass
        /\ made' = made \cup (IF Head(run.todo) = "shorts" THEN {run.video} ELSE {})
  /\ UNCHANGED <<queue, cancel, prefetch, files, deleting, history, bounds>>

(* A stage boundary: a flag raises CancelledError. Any stage may raise      *)
(* something else. After the last boundary the pass ends.                   *)
Stage ==
  /\ run.at = "work"
  /\ \/ run.left > 0 /\ run.video \notin flags
        /\ run' = [run EXCEPT !.left = @ - 1] /\ UNCHANGED made
     \/ run.left > 0 /\ run.video \in flags /\ EndAs("cancelled") /\ UNCHANGED made
     \/ EndAs("failed") /\ UNCHANGED made
     \/ run.left = 0 /\ EndPass
        /\ made' = made \cup (IF Head(run.todo) = "shorts" THEN {run.video} ELSE {})
  /\ UNCHANGED <<queue, cancel, prefetch, files, deleting, history, bounds>>

(* finish_job, the follow-up and the announcement.                         *)
Finish ==
  /\ Go("finishing", "cleanup")
  /\ UNCHANGED <<queue, cancel, prefetch, disk, history, bounds>>

(* Faulty variant of Cleanup: `finally` does not clear the active video.    *)
CleanupKeepsActive ==
  /\ run.at = "cleanup" /\ run' = IdleRun /\ asked' = FALSE /\ due' = FALSE
  /\ UNCHANGED <<queue, cancel, prefetch, disk, abandoned, twice, bounds>>

Cleanup ==
  /\ run.at = "cleanup" /\ run' = IdleRun /\ asked' = FALSE /\ due' = FALSE
  /\ active' = NoVideo
  /\ UNCHANGED <<queue, flags, prefetch, disk, abandoned, twice, bounds>>

WorkerStep ==
  \/ Claim \/ SetActive \/ CleanSlate \/ CheckPlan \/ WaitFor \/ GiveUp \/ MaybeStart
  \/ Render \/ FindSource \/ Download \/ BeginPass \/ Stage \/ Finish \/ Cleanup

-----------------------------------------------------------------------------
(* The prefetch threads.                                                   *)

EndThread(t) == fetches' = [u \in DOMAIN fetches \ {t} |-> fetches[u]]

(* The download arrives, or fails and is logged (a cancel of its video is   *)
(* one way to fail). One that hung may still come back.                     *)
PrefetchEnds(t) ==
  /\ EndThread(t)
  /\ \/ files' = files \cup {fetches[t].video}
     \/ UNCHANGED files
  /\ UNCHANGED <<queue, run, cancel, started, slot, made, deleting, history, bounds>>

PrefetchOverdue(t) ==
  /\ stalls < MaxStalls /\ stalls' = stalls + 1
  /\ ~fetches[t].overdue
  /\ fetches' = [fetches EXCEPT ![t].overdue = TRUE]
  /\ UNCHANGED <<queue, run, cancel, started, slot, disk, history, added, cancels, deletes, crashes>>

Prefetching == \E t \in DOMAIN fetches : PrefetchEnds(t) \/ PrefetchOverdue(t)

-----------------------------------------------------------------------------
(* The process dies and starts again: recovery puts the job it was running  *)
(* back where it was, in front; what is kept in memory is gone.             *)
Crash ==
  /\ crashes < MaxCrashes /\ crashes' = crashes + 1
  /\ waiting' = IF run.at \in {"idle", "cleanup"} THEN waiting
                ELSE <<[video |-> run.video, format |-> run.format]>> \o waiting
  /\ run' = IdleRun /\ active' = NoVideo /\ flags' = {}
  /\ fetches' = [t \in {} |-> IdleRun] /\ started' = 0 /\ slot' = NoSlot /\ deleting' = NoVideo
  /\ asked' = FALSE /\ due' = FALSE /\ abandoned' = {}
  /\ UNCHANGED <<paused, files, made, twice, added, cancels, stalls, deletes>>

-----------------------------------------------------------------------------
Next == Request \/ WorkerStep \/ Prefetching \/ Crash

Spec == Init /\ [][Next]_vars

(* The worker thread keeps running and its own stages end. A prefetch ends  *)
(* unless the limit passes first; of one that is overdue nothing is assumed. *)
PrefetchInTime == \E t \in DOMAIN fetches : ~fetches[t].overdue /\ PrefetchEnds(t)
FairSpec == Spec /\ WF_vars(WorkerStep) /\ WF_vars(PrefetchInTime)

-----------------------------------------------------------------------------
(* Every variable keeps its type, and a pass is under way only while there  *)
(* is one left to make.                                                    *)
Places  == {"idle", "claimed", "marked", "rendering", "finishing", "cleanup"} \cup UnderWay
Results == {"none", "done", "failed", "cancelled"}
TypeOK ==
  /\ waiting \in Seq(Job) /\ paused \in BOOLEAN
  /\ run \in [at : Places, video : Videos \cup {NoVideo}, format : AllFormats,
             todo : Seq({"shorts", "longform"}), left : 0 .. Checks, result : Results]
  /\ run.at \in {"source", "fetching", "fresh", "work"} => run.todo # <<>>
  /\ active \in Videos \cup {NoVideo} /\ deleting \in Videos \cup {NoVideo}
  /\ flags \subseteq Videos /\ files \subseteq Videos /\ made \subseteq Videos
  /\ started \in Nat /\ slot \in [thread : 0 .. started, video : Videos \cup {NoVideo}]
  /\ DOMAIN fetches \subseteq 1 .. started
  /\ fetches \in [DOMAIN fetches -> [video : Videos, overdue : BOOLEAN]]
  /\ abandoned \subseteq 1 .. started /\ twice \subseteq Videos /\ asked \in BOOLEAN /\ due \in BOOLEAN

(* A run ends as cancelled only if somebody cancelled this run: a flag left *)
(* by an earlier run, by a deleted or retried video or by a cancel that     *)
(* came too late never stops the next one (server/jobs.py 168-174).         *)
CancelledOnlyIfAsked == run.at = "finishing" /\ run.result = "cancelled" => asked

(* A cancel that arrives while the pass still has a boundary ahead of it    *)
(* ends the run: it never ends as done (core/cancel.py 3-7, 42-47). One made *)
(* before the pass's own clearing of the flag is lost, and not meant here.  *)
CancelInTimeStops == run.at = "finishing" /\ run.result = "done" => ~due

(* core/cancel.py 21-24: the active video is the one of the job in hand, so *)
(* a deletion asked for while nobody works on the video is let through, and *)
(* one asked for while the pipeline is at it is refused. (What a deletion    *)
(* let through meets when it unlinks is not said: the claim may come first.) *)
ActiveIsInHand ==
  /\ active # NoVideo => run.video = active /\ run.format # "render" /\ run.at # "idle"
  /\ run.at \in UnderWay /\ run.format # "render" => active = run.video

(* "a job never races its own half-written prefetch download": no two        *)
(* threads download one video that was never in the queue twice, the        *)
(* threads given up on apart, whatever hangs, is cancelled, deleted or       *)
(* starts again (core/prefetch.py 12-13).                                   *)
Downloading(v) ==
  {t \in DOMAIN fetches \ abandoned : fetches[t].video = v} \cup
  (IF run.at = "fetching" /\ run.video = v THEN {0} ELSE {})
OneDownload == \A v \in Videos \ twice : Cardinality(Downloading(v)) <= 1

(* The same of every video, as core/prefetch.py 82-83 says: "so the job     *)
(* never starts a second yt-dlp run over a half-written file".              *)
NeverTwoDownloads == \A v \in Videos : Cardinality(Downloading(v)) <= 1

(* Whatever a prefetch does, every run ends: a download that hangs cannot   *)
(* keep the single worker thread (core/prefetch.py 82-101).                 *)
RunEnds == run.at # "idle" ~> run.at = "idle"
=============================================================================
