---------------------------- MODULE ChannelWatch ----------------------------
(***************************************************************************)
(* A watched channel (server/automation.py ChannelWatcher): what each look  *)
(* at it records, when a video found can be downloaded, its one job, and    *)
(* the retries of a run that failed. The watcher's thread works on rows it  *)
(* read when the pass began, beside the worker and a person's buttons.      *)
(***************************************************************************)
EXTENDS Naturals, FiniteSets

CONSTANTS
  Backlog,     \* the watch's catch-up policy: "newest", "none" or "all"
  MaxRetries,  \* the length of PROCESS_RETRY_DELAYS
  MaxActive,   \* the places of the queue
  Listing,     \* how many of the newest videos a look reads (LISTING_SIZE)
  MaxVideos,   \* bound: videos on the channel
  MaxJobs,     \* bound: rows of the jobs table
  MaxTroubles, \* bound: runs that fail, and stops of the app
  MaxOps       \* bound: a person's buttons

ASSUME WatchAssumption ==
  /\ Backlog \in {"newest", "none", "all"} /\ MaxActive \in Nat \ {0} /\ MaxRetries \in Nat
  /\ Listing \in Nat \ {0}
  /\ MaxVideos \in Nat /\ MaxJobs \in Nat /\ MaxTroubles \in Nat /\ MaxOps \in Nat

VARIABLES
  posted,   \* the channel: videos 1 .. posted, the newest last
  noted,    \* history: the videos a first look listed, or had recorded already
  watch,    \* enabled, and last_ok_poll_at: "never", "lately" or "long ago"
  items,    \* watch_items: state, job_id and retries; wait: next_check_at is
            \* ahead, old: detected_at is a week ago, retry: retry_at ("", "set",
            \* "past"), decided: publish_state is not ''
  jobs,     \* the jobs table
  done,     \* the videos whose status is done
  tick,     \* the watcher's thread: where it is, the rows it read, the row in hand
  person,   \* a request between its read of an item and its write
  asked,    \* history: videos a person asked to be clipped, how often
  queued,   \* history: jobs the watch added, and runs it retried, for each video
  stops, troubles, ops

table   == <<items, jobs, done>>
history == <<noted, asked, queued>>
vars    == <<posted, watch, table, tick, person, history, stops, troubles, ops>>

Videos == 1 .. MaxVideos
JobIds == 1 .. MaxJobs
Live   == {"queued", "running"}
NoItem == [state |-> "none", wait |-> FALSE, old |-> FALSE, job |-> 0, tries |-> 0,
           retry |-> "", decided |-> FALSE]
NoJob  == [video |-> 0, status |-> "none"]
NoRows == [v \in {} |-> NoItem]
Idle   == [at |-> "idle", rows |-> NoRows, video |-> 0, job |-> 0]
Nobody == [does |-> "nothing", video |-> 0]

Init ==
  /\ posted \in 0 .. MaxVideos /\ noted = {}
  /\ watch = [enabled |-> TRUE, looked |-> "never"]
  /\ items = [v \in Videos |-> NoItem] /\ jobs = [j \in JobIds |-> NoJob] /\ done = {}
  /\ tick = Idle /\ person = Nobody
  /\ asked = [v \in Videos |-> 0] /\ queued = [v \in Videos |-> 0]
  /\ stops = 0 /\ troubles = 0 /\ ops = 0

Trouble == troubles < MaxTroubles /\ troubles' = troubles + 1
Operate == ops < MaxOps /\ ops' = ops + 1
In(states) == [v \in {u \in Videos : items[u].state \in states} |-> items[v]]
Rest(rows, v) == [u \in DOMAIN rows \ {v} |-> rows[u]]
SetItem(v, row) == items' = [items EXCEPT ![v] = row]
LiveJobs(v) == {j \in JobIds : jobs[j].video = v /\ jobs[j].status \in Live}

-----------------------------------------------------------------------------
(* _poll. The listing is the newest videos the channel shows, newest first; *)
(* what is not known yet is recorded. Shorts, and videos hidden or removed,  *)
(* are not in it, and an older video is when enough newer ones are not: so   *)
(* it is any few videos of the channel, and can be empty.                    *)

Newest(vs) == {v \in vs : \A u \in vs : u <= v}

(* _catch_up, when more than two intervals went by and more than one came.  *)
Take(fresh) ==
  IF watch.looked # "long ago" \/ Cardinality(fresh) <= 1 THEN fresh
  ELSE CASE Backlog = "all"    -> fresh
         [] Backlog = "none"   -> {}
         [] Backlog = "newest" -> Newest(fresh)

As(state) == [NoItem EXCEPT !.state = state]

(* The rows to insert: the back catalogue of a first look, or the videos     *)
(* taken and those set aside.                                               *)
ToInsert(fresh) ==
  [v \in fresh |-> As(IF watch.looked = "never" THEN "baseline"
                      ELSE IF v \in Take(fresh) THEN "new" ELSE "skipped")]

Unknown(vs) == {v \in vs : items[v].state = "none"}

Look ==
  /\ tick.at = "idle" /\ watch.enabled
  /\ \E listing \in SUBSET (1 .. posted) :
       /\ Cardinality(listing) <= Listing
       /\ tick' = [Idle EXCEPT !.at = "noting", !.rows = ToInsert(Unknown(listing))]
       /\ noted' = IF watch.looked = "never" THEN listing \cup (Videos \ Unknown(Videos)) ELSE noted
  /\ UNCHANGED <<posted, watch, table, person, asked, queued, stops, troubles, ops>>

(* What is taken is inserted before what is set aside, and newest first.    *)
First(rows) ==
  LET taken == {v \in DOMAIN rows : rows[v].state # "skipped"}
  IN  IF taken # {} THEN Newest(taken) ELSE Newest(DOMAIN rows)

Insert ==
  /\ tick.at = "noting"
  /\ \E v \in First(tick.rows) :
       /\ SetItem(v, tick.rows[v])
       /\ tick' = [tick EXCEPT !.rows = Rest(@, v)]
  /\ UNCHANGED <<posted, watch, jobs, done, person, history, stops, troubles, ops>>

(* Faulty variant of Looked: the look is recorded before what it found.     *)
LookedFirst ==
  /\ tick.at = "noting"
  /\ \/ watch.looked # "lately" /\ watch' = [watch EXCEPT !.looked = "lately"] /\ UNCHANGED tick
     \/ /\ watch.looked = "lately" /\ tick.rows = NoRows /\ UNCHANGED watch
        /\ tick' = [Idle EXCEPT !.at = "checking", !.rows = In({"new", "not_ready"})]
  /\ UNCHANGED <<posted, table, person, history, stops, troubles, ops>>

Looked ==
  /\ tick.at = "noting" /\ tick.rows = NoRows
  /\ watch' = [watch EXCEPT !.looked = "lately"]
  /\ tick' = [Idle EXCEPT !.at = "checking", !.rows = In({"new", "not_ready"})]
  /\ UNCHANGED <<posted, table, person, history, stops, troubles, ops>>

-----------------------------------------------------------------------------
(* _check_readiness: the rows as read at its start, one question each.      *)

Unchecked == {v \in DOMAIN tick.rows : ~tick.rows[v].wait /\ watch.enabled}
TooLate(v) == tick.rows[v].state = "not_ready" /\ tick.rows[v].old

(* Faulty variant of GiveUp: a video that never came is passed over, for ever. *)
PassOver(v) ==
  /\ tick.at = "checking" /\ v \in Unchecked /\ TooLate(v)
  /\ tick' = [tick EXCEPT !.rows = Rest(@, v)]
  /\ UNCHANGED <<posted, watch, table, person, history, stops, troubles, ops>>

GiveUp(v) ==
  /\ tick.at = "checking" /\ v \in Unchecked /\ TooLate(v)
  /\ SetItem(v, [items[v] EXCEPT !.state = "skipped"])
  /\ tick' = [tick EXCEPT !.rows = Rest(@, v)]
  /\ UNCHANGED <<posted, watch, jobs, done, person, history, stops, troubles, ops>>

Ask(v) ==
  /\ tick.at = "checking" /\ v \in Unchecked /\ ~TooLate(v)
  /\ tick' = [tick EXCEPT !.at = "asking", !.video = v, !.rows = Rest(@, v)]
  /\ UNCHANGED <<posted, watch, table, person, history, stops, troubles, ops>>

(* The answer is written whatever the row says by now.                      *)
Answer ==
  /\ tick.at = "asking"
  /\ \/ \E state \in {"waiting", "skipped"} :
          SetItem(tick.video, [items[tick.video] EXCEPT !.state = state])
     \/ SetItem(tick.video, [items[tick.video] EXCEPT !.state = "not_ready", !.wait = TRUE])
  /\ tick' = [tick EXCEPT !.at = "checking", !.video = 0]
  /\ UNCHANGED <<posted, watch, jobs, done, person, history, stops, troubles, ops>>

Checked ==
  /\ tick.at = "checking" /\ Unchecked = {}
  /\ tick' = [Idle EXCEPT !.at = "queueing", !.rows = In({"waiting"})]
  /\ UNCHANGED <<posted, watch, table, person, history, stops, troubles, ops>>

-----------------------------------------------------------------------------
(* _queue_waiting, and enqueue_once (its statements are JobQueue's).        *)

Active == {j \in JobIds : jobs[j].status \in Live}
Free   == {j \in JobIds : jobs[j] = NoJob /\ \A i \in 1 .. (j - 1) : jobs[i] # NoJob}

Enqueue(v) ==
  /\ tick.at = "queueing" /\ v \in DOMAIN tick.rows /\ watch.enabled
  /\ \/ /\ v \in done
        /\ tick' = [tick EXCEPT !.at = "clipped", !.video = v]
        /\ UNCHANGED <<jobs, queued>>
     \/ \E j \in LiveJobs(v) :
          /\ v \notin done
          /\ tick' = [tick EXCEPT !.at = "linking", !.video = v, !.job = j]
          /\ UNCHANGED <<jobs, queued>>
     \/ /\ v \notin done /\ LiveJobs(v) = {} /\ Cardinality(Active) >= MaxActive
        /\ tick' = [tick EXCEPT !.rows = NoRows]
        /\ UNCHANGED <<jobs, queued>>
     \/ \E j \in Free :
          /\ v \notin done /\ LiveJobs(v) = {} /\ Cardinality(Active) < MaxActive
          /\ jobs' = [jobs EXCEPT ![j] = [video |-> v, status |-> "queued"]]
          /\ queued' = [queued EXCEPT ![v] = @ + 1]
          /\ tick' = [tick EXCEPT !.at = "linking", !.video = v, !.job = j]
  /\ UNCHANGED <<posted, watch, items, done, person, noted, asked, stops, troubles, ops>>

(* Faulty variant of Queued: the item stays as it was.                      *)
QueuedUnmarked(v, j) == [items[v] EXCEPT !.job = j]

Queued(v, j) == [items[v] EXCEPT !.state = "queued", !.job = j]

Link ==
  /\ tick.at \in {"linking", "clipped"}
  /\ SetItem(tick.video, IF tick.at = "linking" THEN Queued(tick.video, tick.job)
                         ELSE [items[tick.video] EXCEPT !.state = "skipped"])
  /\ tick' = [tick EXCEPT !.at = "queueing", !.rows = Rest(@, tick.video), !.video = 0, !.job = 0]
  /\ UNCHANGED <<posted, watch, jobs, done, person, history, stops, troubles, ops>>

QueuedAll ==
  /\ tick.at = "queueing" /\ (tick.rows = NoRows \/ ~watch.enabled)
  /\ tick' = [Idle EXCEPT !.at = "retrying", !.rows = In({"queued"})]
  /\ UNCHANGED <<posted, watch, table, person, history, stops, troubles, ops>>

-----------------------------------------------------------------------------
(* _retry_failed_runs, of a watch that publishes by itself: the delay is     *)
(* set, and after it the job is queued again and the retry counted.         *)

JobStatus(v) ==
  IF items[v].job = 0 THEN "none"
  ELSE LET status == jobs[items[v].job].status IN
       IF status # "gone" THEN status ELSE IF v \in done THEN "done" ELSE "cancelled"

(* Faulty variant of Failed: one retry too many.                            *)
FailedOnceMore(v) ==
  /\ tick.rows[v].tries <= MaxRetries /\ ~tick.rows[v].decided
  /\ JobStatus(v) = "failed" /\ watch.enabled

Failed(v) ==
  /\ tick.rows[v].tries < MaxRetries /\ ~tick.rows[v].decided
  /\ JobStatus(v) = "failed" /\ watch.enabled
Due == {v \in DOMAIN tick.rows : Failed(v) /\ tick.rows[v].retry # "set"}

Delay(v) ==
  /\ tick.at = "retrying" /\ v \in Due /\ tick.rows[v].retry = ""
  /\ SetItem(v, [items[v] EXCEPT !.retry = "set"])
  /\ tick' = [tick EXCEPT !.rows = Rest(@, v)]
  /\ UNCHANGED <<posted, watch, jobs, done, person, history, stops, troubles, ops>>

Retry(v) ==
  /\ tick.at = "retrying" /\ v \in Due /\ tick.rows[v].retry = "past"
  /\ jobs' = [jobs EXCEPT ![items[v].job].status = "queued"]
  /\ tick' = [tick EXCEPT !.at = "counting", !.video = v]
  /\ queued' = [queued EXCEPT ![v] = @ + 1]
  /\ UNCHANGED <<posted, watch, items, done, person, noted, asked, stops, troubles, ops>>

Counted(v) == [items[v] EXCEPT !.retry = "", !.tries = tick.rows[v].tries + 1]

Count ==
  /\ tick.at = "counting"
  /\ SetItem(tick.video, Counted(tick.video))
  /\ tick' = [tick EXCEPT !.at = "retrying", !.rows = Rest(@, tick.video), !.video = 0]
  /\ UNCHANGED <<posted, watch, jobs, done, person, history, stops, troubles, ops>>

Retried ==
  /\ tick.at = "retrying" /\ Due = {}
  /\ tick' = [Idle EXCEPT !.at = "deciding", !.rows = In({"queued"})]
  /\ UNCHANGED <<posted, watch, table, person, history, stops, troubles, ops>>

(* _decide_publishing: the clips of a finished run are published or asked    *)
(* about; HandsOff goes on from here.                                       *)
Finished == {v \in DOMAIN tick.rows : ~tick.rows[v].decided /\ JobStatus(v) = "done"}

Decide(v) ==
  /\ tick.at = "deciding" /\ v \in Finished
  /\ SetItem(v, [items[v] EXCEPT !.decided = TRUE])
  /\ tick' = [tick EXCEPT !.rows = Rest(@, v)]
  /\ UNCHANGED <<posted, watch, jobs, done, person, history, stops, troubles, ops>>

Decided ==
  /\ tick.at = "deciding" /\ Finished = {} /\ tick' = Idle
  /\ UNCHANGED <<posted, watch, table, person, history, stops, troubles, ops>>

Watcher ==
  \/ Look \/ Insert \/ Looked \/ Answer \/ Checked \/ Link \/ QueuedAll \/ Count \/ Retried
  \/ Decided
  \/ \E v \in Videos : GiveUp(v) \/ Ask(v) \/ Enqueue(v) \/ Delay(v) \/ Retry(v) \/ Decide(v)

-----------------------------------------------------------------------------
(* The worker's thread: one job at a time.                                  *)

Work ==
  /\ \E j \in JobIds :
       \/ /\ jobs[j].status = "queued" /\ \A i \in JobIds : jobs[i].status # "running"
          /\ jobs' = [jobs EXCEPT ![j].status = "running"]
          /\ UNCHANGED <<done, troubles>>
       \/ /\ jobs[j].status = "running"
          /\ jobs' = [jobs EXCEPT ![j].status = "done"] /\ done' = done \cup {jobs[j].video}
          /\ UNCHANGED troubles
       \/ /\ jobs[j].status = "running" /\ Trouble
          /\ jobs' = [jobs EXCEPT ![j].status = "failed"] /\ UNCHANGED done
  /\ UNCHANGED <<posted, watch, items, tick, person, history, stops, ops>>

(* A person in the queue: remove, cancel, retry, or paste the link.         *)
UseQueue ==
  /\ Operate
  /\ \E j \in JobIds :
       \/ jobs[j].status = "queued" /\ jobs' = [jobs EXCEPT ![j].status = "gone"]
       \/ jobs[j].status = "running" /\ jobs' = [jobs EXCEPT ![j].status = "cancelled"]
       \/ jobs[j].status \in {"failed", "cancelled"} /\ jobs' = [jobs EXCEPT ![j].status = "queued"]
       \/ \E v \in 1 .. posted :
            /\ j \in Free /\ LiveJobs(v) = {} /\ Cardinality(Active) < MaxActive
            /\ jobs' = [jobs EXCEPT ![j] = [video |-> v, status |-> "queued"]]
  /\ UNCHANGED <<posted, watch, items, done, tick, person, history, stops, troubles>>

(* Clip this and Skip: the item is read, and written in a later step.       *)
Press ==
  /\ person = Nobody /\ Operate
  /\ \E v \in Videos :
       \/ items[v].state \in {"baseline", "skipped"} /\ person' = [does |-> "clip", video |-> v]
       \/ items[v].state \in {"new", "not_ready", "waiting"} /\ person' = [does |-> "skip", video |-> v]
  /\ UNCHANGED <<posted, watch, table, tick, history, stops, troubles>>

ClipThis ==
  /\ person.does = "clip" /\ person' = Nobody
  /\ LET v == person.video IN
     \/ /\ \/ SetItem(v, [items[v] EXCEPT !.state = "waiting"])
           \/ SetItem(v, [items[v] EXCEPT !.state = "not_ready", !.wait = TRUE, !.old = FALSE])
        /\ asked' = [asked EXCEPT ![v] = @ + 1]
     \/ UNCHANGED <<items, asked>>
  /\ UNCHANGED <<posted, watch, jobs, done, tick, noted, queued, stops, troubles, ops>>

Skip ==
  /\ person.does = "skip" /\ person' = Nobody
  /\ SetItem(person.video, [items[person.video] EXCEPT !.state = "skipped"])
  /\ UNCHANGED <<posted, watch, jobs, done, tick, history, stops, troubles, ops>>

Switch ==
  /\ Operate /\ watch' = [watch EXCEPT !.enabled = ~@]
  /\ UNCHANGED <<posted, table, tick, person, history, stops, troubles>>

-----------------------------------------------------------------------------
Post ==
  /\ posted < MaxVideos /\ posted' = posted + 1
  /\ UNCHANGED <<watch, table, tick, person, history, stops, troubles, ops>>

(* The time an item waits for passes; a video not ready is a week old.      *)
TimePasses ==
  /\ \E v \in Videos :
       \/ items[v].wait /\ SetItem(v, [items[v] EXCEPT !.wait = FALSE])
       \/ items[v].retry = "set" /\ SetItem(v, [items[v] EXCEPT !.retry = "past"])
  /\ UNCHANGED <<posted, watch, jobs, done, tick, person, history, stops, troubles, ops>>

WeekPasses(v) ==
  /\ items[v].state = "not_ready" /\ ~items[v].old
  /\ SetItem(v, [items[v] EXCEPT !.old = TRUE])
  /\ UNCHANGED <<posted, watch, jobs, done, tick, person, history, stops, troubles, ops>>

(* The app stops, and starts again at once or much later; a job that was     *)
(* running is queued again.                                                 *)
Restart ==
  /\ Trouble /\ stops' = stops + 1
  /\ tick' = Idle /\ person' = Nobody
  /\ jobs' = [j \in JobIds |-> [jobs[j] EXCEPT !.status = IF @ = "running" THEN "queued" ELSE @]]
  /\ \/ UNCHANGED watch
     \/ watch.looked = "lately" /\ watch' = [watch EXCEPT !.looked = "long ago"]
  /\ UNCHANGED <<posted, items, done, history, ops>>

Next ==
  \/ Watcher \/ Work \/ UseQueue \/ Press \/ ClipThis \/ Skip \/ Switch
  \/ Post \/ TimePasses \/ Restart \/ \E v \in Videos : WeekPasses(v)

Spec == Init /\ [][Next]_vars

(* Both threads go on, the queue is started, and time passes. Nothing is     *)
(* assumed of a person, of the channel, or of what an answer says.          *)
FairSpec ==
  /\ Spec /\ WF_vars(Watcher) /\ WF_vars(Work) /\ WF_vars(TimePasses)
  /\ \A v \in Videos : WF_vars(WeekPasses(v))

-----------------------------------------------------------------------------
(* Every variable holds what its column or object may hold.                 *)
ItemStates == {"none", "baseline", "new", "not_ready", "waiting", "queued", "skipped"}
Item == [state : ItemStates, wait : BOOLEAN, old : BOOLEAN, job : 0 .. MaxJobs,
         tries : 0 .. MaxRetries, retry : {"", "set", "past"}, decided : BOOLEAN]
TypeOK ==
  /\ posted \in 0 .. MaxVideos /\ noted \subseteq Videos
  /\ watch \in [enabled : BOOLEAN, looked : {"never", "lately", "long ago"}]
  /\ items \in [Videos -> Item] /\ done \subseteq Videos
  /\ jobs \in [JobIds -> [video : 0 .. MaxVideos,
                         status : {"none", "queued", "running", "done", "failed", "cancelled", "gone"}]]
  /\ \A v \in DOMAIN tick.rows : tick.rows[v] \in Item
  /\ tick.at \in {"idle", "noting", "checking", "asking", "queueing", "linking", "clipped",
                  "retrying", "counting", "deciding"}
  /\ tick.video \in 0 .. MaxVideos /\ tick.job \in 0 .. MaxJobs
  /\ person \in [does : {"nothing", "clip", "skip"}, video : 0 .. MaxVideos]

(* "The first look records what is already there": what it listed is        *)
(* clipped only if a person asks, though the look may be cut off between two *)
(* of its rows and made again over another listing.                          *)
CatalogueStays == \A v \in noted : asked[v] = 0 => queued[v] = 0

(* "A video is one row keyed by its id, which is what keeps it to one job":  *)
(* the watch starts a video once, once more each time a person asks, as      *)
(* often as a failed run is retried, and once for each stop between its two  *)
(* writes; whatever a person does in the queue meanwhile.                   *)
StartedOnce == \A v \in Videos : queued[v] <= 1 + asked[v] + MaxRetries + stops

(* A video taken up comes to an end while the watch is on: set aside, or run *)
(* without a failure that is left to be retried.                            *)
Pending(v) ==
  \/ items[v].state \in {"new", "not_ready", "waiting"}
  \/ items[v].state = "queued" /\ ~items[v].decided /\ JobStatus(v) = "failed"
     /\ items[v].tries < MaxRetries
VideoEnds == \A v \in Videos : Pending(v) ~> (~Pending(v) \/ ~watch.enabled)
=============================================================================
