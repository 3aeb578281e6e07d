----------------------------- MODULE Publisher -----------------------------
(***************************************************************************)
(* Uploading one clip to YouTube (server/publisher.py): the publish jobs,   *)
(* the re-renders they wait for, and the clip row both of them name.        *)
(* Three threads share the database: the publisher's, the worker's when it  *)
(* re-renders (server/jobs.py _rerender_clip), and a request of the app. A  *)
(* re-render gives the clip a new id; the row of `uploads` refers to the id *)
(* by a foreign key, the publish job does not.                              *)
(***************************************************************************)
EXTENDS Naturals, Sequences

CONSTANTS
  Windows,      \* the starts and ends a clip may have
  First,        \* the one this clip was made with
  UploadLimit,  \* uploads a day (publish/quota.py UPLOAD_LIMIT)
  MaxJobs, MaxRenders, MaxOps, MaxTroubles, MaxDays   \* bounds

ASSUME PublisherAssumption ==
  /\ Windows \subseteq Nat \ {0}
  /\ First \in Windows /\ UploadLimit \in Nat \ {0}
  /\ MaxJobs \in Nat /\ MaxRenders \in Nat /\ MaxOps \in Nat
  /\ MaxTroubles \in Nat /\ MaxDays \in Nat

VARIABLES
  clip,     \* the row of `clips`: its id (0: there is none) and window
  ids,      \* ids given so far (AUTOINCREMENT)
  upload,   \* the row of `uploads`: the clip it refers to (0: none), whose video it is
  renders,  \* the rows of `jobs` that re-render the clip ("gone": removed)
  jobs,     \* the rows of publish_jobs
  ledger,   \* the quota ledger: its day, and the uploads counted that day
  rend,     \* the worker's thread in _rerender_clip
  pub,      \* the publisher's thread
  flags,    \* its _cancelled
  verify,   \* its _verify: the clips and jobs to read back
  ask,      \* the request in hand
  up,       \* the world: job -> how often YouTube made a video of it
  today,    \* the world: the day, the videos made that day, those nobody counted
  kept,     \* history: an upload was recorded, and neither its clip was deleted
            \* nor did the app die while a re-render had the row in its hands
  ops, troubles

table  == <<clip, ids, upload, renders, jobs, ledger>>
memory == <<rend, pub, flags, verify, ask>>
world  == <<up, today, kept>>
vars   == <<table, memory, world, ops, troubles>>

Renders == 1 .. Len(renders)
Jobs    == 1 .. Len(jobs)
Ids     == Nat
Same    == 0              \* a re-render that leaves the window alone
NoUpload == [clip |-> 0, job |-> 0]

RenderRow == [status : {"queued", "running", "done", "failed", "cancelled", "gone"},
              clip : Ids, to : Windows \cup {Same}]
JobRow == [status : {"queued", "running", "done", "failed", "cancelled", "interrupted"},
           clip : Ids, window : Windows \cup {0}, after : Nat]
NoRend == [at |-> "idle", render |-> 0, clip |-> 0, to |-> 0, new |-> 0, saved |-> 0]
NoPub  == [at |-> "top", job |-> 0, clip |-> 0, todo |-> {}]
NoAsk  == [at |-> "idle", job |-> 0, clip |-> 0, window |-> 0, to |-> 0]

Init ==
  /\ clip = [id |-> 1, window |-> First]
  /\ ids = 1 /\ upload = NoUpload
  /\ renders = <<>> /\ jobs = <<>> /\ ledger = [day |-> 0, uploads |-> 0]
  /\ rend = NoRend /\ pub = [NoPub EXCEPT !.at = "start"] /\ ask = NoAsk
  /\ flags = {} /\ verify = {}
  /\ up = [j \in 1 .. MaxJobs |-> 0]
  /\ today = [day |-> 0, made |-> 0, missed |-> 0] /\ kept = FALSE
  /\ ops = 0 /\ troubles = 0

Here(id) == id # 0 /\ clip.id = id                \* get_clip
SetJob(j, status)    == jobs' = [jobs EXCEPT ![j].status = status]
SetRender(r, status) == renders' = [renders EXCEPT ![r].status = status]
Trouble == troubles < MaxTroubles /\ troubles' = troubles + 1

-----------------------------------------------------------------------------
(* Requests of the app, one at a time.                                      *)

Asks == ask.at = "idle" /\ ops < MaxOps /\ ops' = ops + 1
AloneInTable == UNCHANGED <<ids, ledger, rend, pub, flags, verify, up, today, troubles>>

(* active_publish_job_for_clip                                              *)
Active(id) == \E j \in Jobs : jobs[j].clip = id /\ jobs[j].status \in {"queued", "running"}

RenderOf(id, to) == [status |-> "queued", clip |-> id, to |-> to]

(* publish_clip: its checks, and the clip as it was read ..                 *)
AskPublish ==
  /\ Asks /\ clip.id # 0 /\ ~Active(clip.id) /\ Len(jobs) < MaxJobs
  /\ \E at \in {"publish", "render"}, to \in Windows \cup {Same} :
       /\ at = "render" => Len(renders) < MaxRenders
       /\ at = "publish" => to = Same
       /\ ask' = [at |-> at, job |-> 0, clip |-> clip.id, window |-> clip.window, to |-> to]
  /\ AloneInTable /\ UNCHANGED <<clip, upload, renders, jobs, kept>>

JobAfter(r) == [status |-> "queued", clip |-> ask.clip, window |-> ask.window, after |-> r]

(* .. and its inserts: the re-render it waits for, and the publish job.     *)
Publish ==
  /\ \/ /\ ask.at = "publish"
        /\ jobs' = Append(jobs, JobAfter(0)) /\ UNCHANGED renders
     \/ /\ ask.at = "render"
        /\ renders' = Append(renders, RenderOf(ask.clip, ask.to))
        /\ jobs' = Append(jobs, JobAfter(Len(renders) + 1))
  /\ ask' = NoAsk
  /\ AloneInTable /\ UNCHANGED <<clip, upload, kept, ops>>

(* cancel_publish: a job read as queued is cancelled by id, any other is     *)
(* flagged for the upload to see.                                           *)
AskCancel(j) ==
  /\ Asks
  /\ \/ jobs[j].status = "queued" /\ ask' = [NoAsk EXCEPT !.at = "cancel", !.job = j] /\ UNCHANGED flags
     \/ jobs[j].status # "queued" /\ flags' = flags \cup {j} /\ UNCHANGED ask
  /\ UNCHANGED <<table, rend, pub, verify, world, troubles>>

Cancel ==
  /\ ask.at = "cancel"
  /\ SetJob(ask.job, "cancelled") /\ ask' = NoAsk
  /\ AloneInTable /\ UNCHANGED <<clip, upload, renders, kept, ops>>

Rerender(to) ==
  /\ Asks /\ clip.id # 0 /\ Len(renders) < MaxRenders
  /\ renders' = Append(renders, RenderOf(clip.id, to))
  /\ AloneInTable /\ UNCHANGED <<clip, upload, jobs, ask, kept>>

DeleteClip ==
  /\ Asks /\ clip.id # 0
  /\ clip' = [clip EXCEPT !.id = 0]
  /\ upload' = IF upload.clip = clip.id THEN NoUpload ELSE upload
  /\ kept' = FALSE
  /\ AloneInTable /\ UNCHANGED <<renders, jobs, ask>>

(* The Queue page: a row that is not running is removed, one that went       *)
(* wrong is retried (core/queue.py remove, retry).                          *)
RemoveRender(r) ==
  /\ Asks /\ renders[r].status \notin {"running", "gone"}
  /\ SetRender(r, "gone")
  /\ AloneInTable /\ UNCHANGED <<clip, upload, jobs, ask, kept>>

RetryRender(r) ==
  /\ Asks /\ renders[r].status \in {"failed", "cancelled"}
  /\ SetRender(r, "queued")
  /\ AloneInTable /\ UNCHANGED <<clip, upload, jobs, ask, kept>>

-----------------------------------------------------------------------------
(* The worker's thread: one re-render after another.                        *)

RendOnly == UNCHANGED <<jobs, ledger, pub, flags, verify, ask, up, today, ops>>

ClaimRender ==
  /\ rend.at = "idle"
  /\ \E r \in Renders :
       /\ renders[r].status = "queued"
       /\ \A s \in 1 .. (r - 1) : renders[s].status # "queued"
       /\ SetRender(r, "running")
       /\ rend' = [NoRend EXCEPT !.at = "open", !.render = r]
  /\ RendOnly /\ UNCHANGED <<clip, ids, upload, kept, troubles>>

RendEnds(status) == SetRender(rend.render, status) /\ rend' = NoRend

OpenClip ==
  /\ rend.at = "open"
  /\ LET row == renders[rend.render] IN
     \/ /\ Here(row.clip)
        /\ rend' = [rend EXCEPT !.at = "rendering", !.clip = row.clip,
                                !.to = IF row.to = Same THEN clip.window ELSE row.to]
        /\ UNCHANGED renders
     \/ ~Here(row.clip) /\ RendEnds("failed")
  /\ RendOnly /\ UNCHANGED <<clip, ids, upload, kept, troubles>>

RenderFails ==
  /\ rend.at = "rendering" /\ Trouble
  /\ \E status \in {"failed", "cancelled"} : RendEnds(status)
  /\ RendOnly /\ UNCHANGED <<clip, ids, upload, kept>>

(* detach_clip_rows: the row of `uploads` is in the thread's memory.        *)
Detach ==
  /\ rend.at = "rendering"
  /\ \/ /\ upload.clip = rend.clip
        /\ rend' = [rend EXCEPT !.at = "detached", !.saved = upload.job]
        /\ upload' = NoUpload
     \/ /\ upload.clip # rend.clip
        /\ rend' = [rend EXCEPT !.at = "detached"] /\ UNCHANGED upload
  /\ RendOnly /\ UNCHANGED <<clip, ids, renders, kept, troubles>>

(* The DELETE fails when an upload has been recorded since.                 *)
DeleteOld ==
  /\ rend.at = "detached"
  /\ \/ upload.clip = rend.clip /\ RendEnds("failed") /\ UNCHANGED clip
     \/ /\ upload.clip # rend.clip
        /\ clip' = IF Here(rend.clip) THEN [clip EXCEPT !.id = 0] ELSE clip
        /\ rend' = [rend EXCEPT !.at = "deleted"] /\ UNCHANGED renders
  /\ RendOnly /\ UNCHANGED <<ids, upload, kept, troubles>>

(* _register_clip                                                           *)
Register ==
  /\ rend.at = "deleted"
  /\ ids' = ids + 1
  /\ clip' = [id |-> ids + 1, window |-> rend.to]
  /\ rend' = [rend EXCEPT !.at = "registered", !.new = ids + 1]
  /\ RendOnly /\ UNCHANGED <<upload, renders, kept, troubles>>

(* Faulty variant of Reattach: the row keeps the clip id it had.            *)
ReattachOldId ==
  /\ rend.at = "registered" /\ rend' = [rend EXCEPT !.at = "reattached"]
  /\ upload' = IF rend.saved # 0 /\ Here(rend.clip)
               THEN [clip |-> rend.clip, job |-> rend.saved] ELSE upload
  /\ RendOnly /\ UNCHANGED <<clip, ids, renders, kept, troubles>>

(* reattach_clip_rows: the row saved replaces whatever is there, unless the  *)
(* clip has gone meanwhile.                                                 *)
Reattach ==
  /\ rend.at = "registered" /\ rend' = [rend EXCEPT !.at = "reattached"]
  /\ upload' = IF rend.saved # 0 /\ Here(rend.new)
               THEN [clip |-> rend.new, job |-> rend.saved] ELSE upload
  /\ RendOnly /\ UNCHANGED <<clip, ids, renders, kept, troubles>>

RenderDone ==
  /\ rend.at = "reattached" /\ RendEnds("done")
  /\ RendOnly /\ UNCHANGED <<clip, ids, upload, kept, troubles>>

RenderStep ==
  \/ ClaimRender \/ OpenClip \/ RenderFails \/ Detach \/ DeleteOld
  \/ Register \/ Reattach \/ RenderDone

-----------------------------------------------------------------------------
(* The publisher's thread.                                                  *)

PubOnly == UNCHANGED <<ids, renders, rend, ask, ops>>

(* Faulty variants of Recover: a status nothing else knows; an upload cut   *)
(* off is tried again.                                                      *)
RecoverBlank ==
  /\ pub.at = "start" /\ pub' = NoPub
  /\ jobs' = [j \in Jobs |-> IF jobs[j].status = "running"
                             THEN [jobs[j] EXCEPT !.status = ""] ELSE jobs[j]]
  /\ PubOnly /\ UNCHANGED <<clip, upload, ledger, flags, verify, world, troubles>>

RecoverAsQueued ==
  /\ pub.at = "start"
  /\ jobs' = [j \in Jobs |-> IF jobs[j].status = "running"
                             THEN [jobs[j] EXCEPT !.status = "queued"] ELSE jobs[j]]
  /\ pub' = NoPub
  /\ PubOnly /\ UNCHANGED <<clip, upload, ledger, flags, verify, world, troubles>>

(* recover_running_publish_jobs                                             *)
Recover ==
  /\ pub.at = "start"
  /\ jobs' = [j \in Jobs |-> IF jobs[j].status = "running"
                             THEN [jobs[j] EXCEPT !.status = "interrupted"] ELSE jobs[j]]
  /\ pub' = NoPub
  /\ PubOnly /\ UNCHANGED <<clip, upload, ledger, flags, verify, world, troubles>>

Waiting == {j \in Jobs : jobs[j].status = "queued"}

(* claim_next_publish_job: the queued rows ..                               *)
List ==
  /\ pub.at = "top" /\ Waiting # {}
  /\ pub' = [NoPub EXCEPT !.at = "listed", !.todo = Waiting]
  /\ PubOnly /\ UNCHANGED <<clip, upload, jobs, ledger, flags, verify, world, troubles>>

(* Faulty variants of Readiness.                                            *)
ReadinessFailedOnly(j) ==
  LET after == jobs[j].after IN
  IF after = 0 THEN "go"
  ELSE CASE renders[after].status \in {"gone", "failed"} -> "fail"
         [] renders[after].status = "done" -> "go"
         [] OTHER -> "wait"
ReadinessRunningOnly(j) ==
  LET after == jobs[j].after IN
  IF after = 0 THEN "go"
  ELSE CASE renders[after].status = "running" -> "wait"
         [] renders[after].status \in {"gone", "failed", "cancelled"} -> "fail"
         [] OTHER -> "go"

(* .. each looked at in turn: what its re-render has come to.               *)
Readiness(j) ==
  LET after == jobs[j].after IN
  IF after = 0 THEN "go"
  ELSE CASE renders[after].status \in {"queued", "running"} -> "wait"
         [] renders[after].status = "done" -> "go"
         [] OTHER -> "fail"

Oldest(js) == {j \in js : \A i \in js : j <= i}
Past(j)    == [pub EXCEPT !.todo = @ \ {j}]

Claim ==
  /\ pub.at = "listed"
  /\ \/ pub.todo = {} /\ pub' = NoPub /\ UNCHANGED jobs
     \/ \E j \in Oldest(pub.todo) :
          \/ Readiness(j) = "wait" /\ pub' = Past(j) /\ UNCHANGED jobs
          \/ Readiness(j) = "fail" /\ pub' = Past(j) /\ SetJob(j, "failed")
          \/ Readiness(j) = "go" /\ pub' = [NoPub EXCEPT !.at = "claimed", !.job = j]
                                 /\ SetJob(j, "running")
  /\ PubOnly /\ UNCHANGED <<clip, upload, ledger, flags, verify, world, troubles>>

(* _resolve_clip: the clip by its id, or by the window it had.              *)
Resolves(j) == clip.id # 0 /\ (clip.id = jobs[j].clip \/ clip.window = jobs[j].window)

(* Ledger._roll                                                             *)
Rolled == IF ledger.day = today.day THEN ledger ELSE [day |-> today.day, uploads |-> 0]

PubEnds(status) == SetJob(pub.job, status) /\ pub' = NoPub

Prepare ==
  /\ pub.at = "claimed"
  /\ LET ready == Resolves(pub.job) /\ Rolled.uploads < UploadLimit IN
     \/ /\ ready
        /\ jobs' = [jobs EXCEPT ![pub.job].clip = clip.id]
        /\ pub' = [pub EXCEPT !.at = "sending", !.clip = clip.id]
     \/ /\ ~ready
        /\ jobs' = [jobs EXCEPT ![pub.job].status = "failed",
                                ![pub.job].clip = IF Resolves(pub.job) THEN clip.id ELSE @]
        /\ pub' = NoPub
  /\ PubOnly /\ UNCHANGED <<clip, upload, ledger, flags, verify, world, troubles>>

(* What becomes of the upload: the flag was seen between two chunks; YouTube *)
(* refused it, for want of quota or otherwise; it is up, and the answer came *)
(* or was lost.                                                             *)
UploadCancelled ==
  /\ pub.at = "sending" /\ pub.job \in flags
  /\ flags' = flags \ {pub.job} /\ PubEnds("cancelled")
  /\ PubOnly /\ UNCHANGED <<clip, upload, ledger, verify, world, troubles>>

UploadFails ==
  /\ pub.at = "sending" /\ Trouble /\ PubEnds("failed")
  /\ \/ UNCHANGED ledger
     \/ ledger' = [Rolled EXCEPT !.uploads = IF @ < UploadLimit THEN UploadLimit ELSE @]
  /\ PubOnly /\ UNCHANGED <<clip, upload, flags, verify, world>>

Goes == up' = [up EXCEPT ![pub.job] = @ + 1]

UploadLost ==
  /\ pub.at = "sending" /\ Trouble /\ Goes /\ PubEnds("failed")
  /\ today' = [today EXCEPT !.made = @ + 1, !.missed = @ + 1]
  /\ PubOnly /\ UNCHANGED <<clip, upload, ledger, flags, verify, kept>>

UploadDone ==
  /\ pub.at = "sending" /\ Goes
  /\ pub' = [pub EXCEPT !.at = "sent"]
  /\ today' = [today EXCEPT !.made = @ + 1]
  /\ PubOnly /\ UNCHANGED <<clip, upload, jobs, ledger, flags, verify, kept, troubles>>

(* Faulty variant of Count: saved before it is counted.                     *)
CountUnsaved ==
  /\ pub.at = "sent" /\ pub' = [pub EXCEPT !.at = "counted"]
  /\ ledger' = Rolled
  /\ PubOnly /\ UNCHANGED <<clip, upload, jobs, flags, verify, world, troubles>>

(* record_upload, save_ledger                                               *)
Count ==
  /\ pub.at = "sent" /\ pub' = [pub EXCEPT !.at = "counted"]
  /\ ledger' = [Rolled EXCEPT !.uploads = @ + 1]
  /\ PubOnly /\ UNCHANGED <<clip, upload, jobs, flags, verify, world, troubles>>

(* record_publish refers to the clip as it was resolved: when that row has   *)
(* gone the job fails, although its video is up.                            *)
Record ==
  /\ pub.at = "counted"
  /\ \/ /\ Here(pub.clip)
        /\ upload' = [clip |-> pub.clip, job |-> pub.job]
        /\ kept' = TRUE /\ pub' = [pub EXCEPT !.at = "recorded"] /\ UNCHANGED jobs
     \/ ~Here(pub.clip) /\ PubEnds("failed") /\ UNCHANGED <<upload, kept>>
  /\ PubOnly /\ UNCHANGED <<clip, ledger, flags, verify, up, today, troubles>>

Done ==
  /\ pub.at = "recorded" /\ PubEnds("done")
  /\ verify' = verify \cup {<<pub.clip, pub.job>>}
  /\ PubOnly /\ UNCHANGED <<clip, upload, ledger, flags, world, troubles>>

(* _run_due_verifications: the row is read; YouTube is asked; the row is     *)
(* written, outside the loop's `try`, whether its clip is still there or not. *)
ReadBack(v) ==
  /\ pub.at = "top" /\ v \in verify /\ verify' = verify \ {v}
  /\ pub' = IF upload.clip = v[1] /\ upload.job = v[2]
            THEN [NoPub EXCEPT !.at = "asked", !.clip = v[1], !.job = v[2]] ELSE pub
  /\ PubOnly /\ UNCHANGED <<clip, upload, jobs, ledger, flags, world, troubles>>

WriteBack ==
  /\ pub.at = "asked"
  /\ \/ /\ Here(pub.clip)
        /\ upload' = [clip |-> pub.clip, job |-> pub.job] /\ pub' = NoPub
     \/ ~Here(pub.clip) /\ pub' = [NoPub EXCEPT !.at = "dead"] /\ UNCHANGED upload
     \/ pub' = NoPub /\ UNCHANGED upload
  /\ PubOnly /\ UNCHANGED <<clip, jobs, ledger, flags, verify, world, troubles>>

PubStep ==
  \/ Recover \/ List \/ Claim \/ Prepare
  \/ UploadCancelled \/ UploadFails \/ UploadLost \/ UploadDone \/ Count \/ Record \/ Done
  \/ \E v \in verify : ReadBack(v)
  \/ WriteBack

-----------------------------------------------------------------------------
(* (A day nobody uploaded on is like the one before it.)                    *)
DayPasses ==
  /\ today.day < MaxDays /\ today.made + ledger.uploads > 0
  /\ today' = [day |-> today.day + 1, made |-> 0, missed |-> 0]
  /\ UNCHANGED <<table, memory, up, kept, ops, troubles>>

(* The process dies and is started: the worker's recovery queues its render  *)
(* again (recover_interrupted_jobs), the publisher's has yet to run.        *)
Restart ==
  /\ Trouble
  /\ rend' = NoRend /\ pub' = [NoPub EXCEPT !.at = "start"] /\ ask' = NoAsk
  /\ flags' = {} /\ verify' = {}
  /\ renders' = [r \in Renders |-> IF renders[r].status = "running"
                                   THEN [renders[r] EXCEPT !.status = "queued"] ELSE renders[r]]
  /\ today' = [today EXCEPT !.missed = @ + IF pub.at = "sent" THEN 1 ELSE 0]
  /\ kept' = (kept /\ rend.at \notin {"detached", "deleted", "registered"})
  /\ UNCHANGED <<clip, ids, upload, jobs, ledger, up, ops>>

RequestStep == Publish \/ Cancel

Next ==
  \/ AskPublish \/ (\E j \in Jobs : AskCancel(j)) \/ DeleteClip
  \/ \E to \in Windows \cup {Same} : Rerender(to)
  \/ \E r \in Renders : RemoveRender(r) \/ RetryRender(r)
  \/ RequestStep \/ RenderStep \/ PubStep
  \/ DayPasses \/ Restart

Spec == Init /\ [][Next]_vars

(* Every thread that has something to do goes on, and an upload comes to an  *)
(* end (publish/youtube_shorts.py gives a chunk up after a few attempts).   *)
FairSpec == Spec /\ WF_vars(RenderStep) /\ WF_vars(PubStep) /\ WF_vars(RequestStep)

-----------------------------------------------------------------------------
Unfinished(j) == j \in Jobs /\ jobs[j].status \in {"queued", "running"}

(* Every variable holds what its column or object may hold.                 *)
ClipOK ==
  /\ clip \in [id : Ids, window : Windows] /\ ids \in Nat
  /\ upload \in [clip : Ids, job : Nat]
  /\ ledger \in [day : Nat, uploads : Nat]
RowsOK ==
  /\ renders \in Seq(RenderRow) /\ jobs \in Seq(JobRow) /\ Len(jobs) <= MaxJobs
  /\ \A j \in Jobs : jobs[j].after \in {0} \cup Renders
RendOK ==
  /\ rend \in [at : {"idle", "open", "rendering", "detached", "deleted", "registered", "reattached"},
               render : Nat, clip : Ids, to : Windows \cup {0}, new : Ids, saved : Nat]
  /\ rend.at # "idle" => rend.render \in Renders
  /\ rend.at \in {"rendering", "detached", "deleted"} => rend.to \in Windows
PubOK ==
  /\ pub \in [at : {"start", "top", "listed", "claimed", "sending", "sent", "counted", "recorded",
                    "asked", "dead"}, job : Nat, clip : Ids, todo : SUBSET Jobs]
  /\ pub.at \in {"claimed", "sending", "sent", "counted", "recorded"} => pub.job \in Jobs
  /\ flags \subseteq Jobs /\ verify \subseteq Ids \X Jobs
AskOK ==
  /\ ask \in [at : {"idle", "publish", "render", "cancel"}, job : Nat, clip : Ids,
              window : Windows \cup {0}, to : Windows \cup {Same}]
  /\ ask.at = "cancel" => ask.job \in Jobs
  /\ ask.at \in {"publish", "render"} => Len(jobs) < MaxJobs
WorldOK ==
  /\ up \in [1 .. MaxJobs -> Nat] /\ today \in [day : Nat, made : Nat, missed : Nat]
  /\ ops \in Nat /\ troubles \in Nat
TypeOK == ClipOK /\ RowsOK /\ RendOK /\ PubOK /\ AskOK /\ WorldOK /\ kept \in BOOLEAN

(* A publish job puts at most one video on the channel, whatever is cut off,  *)
(* cancelled, recovered or retried around it.                               *)
OneUpload == \A j \in Jobs : up[j] <= 1

(* Nothing goes up before the re-render it was to wait for is done: an       *)
(* upload of the old file is never the outcome of a failed or repeated       *)
(* render.                                                                  *)
RenderedFirst ==
  \A j \in Jobs : up[j] > 0 /\ jobs[j].after # 0 =>
    renders[jobs[j].after].status \in {"done", "gone"}

(* Once an upload is recorded the clip shows one for as long as it exists:    *)
(* re-rendering it, which gives it a new id, loses none, not even when       *)
(* another upload is recorded meanwhile.                                    *)
UploadShown ==
  kept => upload.clip = clip.id \/ rend.at \in {"detached", "deleted", "registered"}

(* No more videos go up in a day than the key allows, but for those whose    *)
(* answer was lost or that the app died over before it counted them.        *)
QuotaKept == today.made <= UploadLimit + today.missed

(* A publish job does not wait for good: it goes up, fails or is cancelled,  *)
(* and its re-render's failing, being cancelled or removed ends it too,      *)
(* unless the publisher's thread has died.                                  *)
PublishEnds == \A j \in 1 .. MaxJobs : Unfinished(j) ~> ~Unfinished(j) \/ pub.at = "dead"
=============================================================================
