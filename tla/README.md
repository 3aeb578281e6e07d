# Clips Kitty: specifications, model checks and proofs

Clips Kitty (the engine in this repository) turns long videos into short
clips. A FastAPI process serves the user interface, keeps its state in one
SQLite database and runs one video at a time on a worker thread. Around that
core are a prefetch thread, watchers that find videos by themselves, remote
render PCs, publishing to social networks and a workflow for campaign
submissions. What finds and cuts the clips is sequential; what is hard is who
writes which row, and when. That is what these modules are about.

Contents: 1 the system's parts; 2 the modules and how they correspond to the
code; 3 what each run checks; 4 fairness; 5 the proofs; 6 disagreements between
the code and what is said of it; 7 abstractions; 8 what is not modelled; 9 the
plan.

To check a run: `tlc -config queue_pair.cfg MCJobQueue`. To check the proofs:
`tlapm JobQueueProofs.tla` (the large ones, `CampaignProofs` and `HandsOffProofs`,
take some minutes).

## 1. The system's parts

| Part | State it keeps | Operations | What is hard | What makes it correct |
|---|---|---|---|---|
| **Job queue**: `core/queue.py`, `core/state.py` 1575-1699, routes in `server/api.py` 993-1374 | table `jobs`, `queue_paused` | add (link, batch, file, longform, hand-over by a watch, render), move, edit, retry, remove, clear, pause, claim, finish, recover | each thread has its own connection; a SELECT and the write after it are not one transaction; a crash during a run | no row left `running` with nobody on it; one at a time; every job ends; a video is not queued twice |
| **Worker run, cancellation, prefetch**: `server/jobs.py`, `core/cancel.py`, `core/prefetch.py` | the run, sticky cancel flags, the active video, the prefetch slot, files in `downloads/` | claim, clean slate, wait for the prefetch, start the next one, download, stages, finish; cancel; delete a video | flags outlive runs; a cancel may come at any point; a prefetch may hang; three threads touch one file | a cancel stops its own run and no other; one thread per download; every run ends |
| **Remote rendering**: `remote_render/{queue,gateway,worker,dispatch,service}.py` | tables `workers` and `jobs` of `queue.db`, `uploads/*.part`, `results/*.mp4`, threads of the render PCs | send, claim, transfer, render, upload, complete, fail, heartbeat, sweep, hold, remove, render locally, retry, cancel, take | late owners, power cuts, lost answers, an `await` inside a handler, two lock objects on one database | the first result wins and is kept; no clip lost or made twice; every run in Automatic ends |
| **Remote pairing, discovery, settings**: `remote_render/{settings,tls,protocol,piece}.py` | certificates, `settings.json` | pair, discover, cut a piece | file and network I/O | a credential stops working when its PC is removed |
| **Campaign submissions**: `campaigns/*.py`, `core/state.py` 2001-2170 | `campaign_submissions` with status, method, hold, due time; a unique index on links; campaigns; webhooks | attach, look for the post, evaluate, approve, hold, submit, send, retry, send again, record, move, cancel, reopen, archive, recover | the publisher's thread and requests work on rows they read earlier; a send cut off in the middle | a message sent at most once for each time it is asked for; one link once per campaign; no row stays `sending` |
| **Publisher**: `server/publisher.py`, `publish/{youtube_shorts,quota}.py`, `core/state.py` 190-245, 1451-1553, `server/jobs.py` 860-1010 | `publish_jobs`, `uploads`, `clips`, the quota ledger, what to read back | queue, claim, upload, count, record, read back, cancel, recover as `interrupted`; re-render a clip (a new id) | waits for a render that may fail or vanish; an upload of minutes; a re-render in three writes; a crash anywhere | nothing uploaded twice by itself or before its render; no recorded upload lost; the key's limit; every job ends |
| **WoopSocial and Upload-Post**: `server/{woopsocial,uploadpost}_service.py`, `publish/{woopsocial,uploadpost}.py`, `server/posts.py` | `clip_publishes`: one row a platform, its request and media | send to several platforms, record, refresh, reconcile a send cut off, send again what was rejected | lost answers; a check of an old post against a new one; a stop between two rows | on each platform once for the watch and once for each press; what was published is shown |
| **Watched channels, integrations, scheduler**: `server/automation.py`, `server/integrations.py`, `core/scheduler.py` | `watches`, `watch_items` | look, catch up, check readiness, queue, retry a failed run, decide, publish, clip this, skip | a pass works on rows read when it began, over seconds of questions; cut off between two writes | the back catalogue never queued; a video started once; every video found comes to an end |
| **Stream workflows**: `stream_workflows/*.py` | trigger runs, nominations, votes, digests | trigger, nominate, vote, close, digest | events repeated or late | one run per event |
| **Connected accounts**: `connected_accounts/*.py` | tokens, EventSub socket | connect, refresh, reconnect, disconnect | refresh raced by disconnect; reconnects | no event lost silently |
| **Plugins**: `plugins/*.py` | installed plugins, step runs | install, update, run, remove | a step that hangs or is removed while it runs | the pipeline goes on without it |
| **Text updates, Discord bot**: `server/{text_updates,discord_bot}.py` | who was told what | notify, answer commands | network I/O | |
| **Language models**: `llm/*.py` | model pulls, sign-in | generate, pull | network I/O | |
| **Video pipeline and analysis**: `core/pipeline.py`, `analysis/`, `transcription/`, `video/` | files in a work directory | transcribe, score, pick, cut | signal processing, one stage after another | |
| **Longform, sports, gaming, languages, creator** | as the pipeline | compilations, translations | as the pipeline | |
| **Video editor**: `video_editor/` | none | a timeline for one render | | |
| **Sources**: `sources/` | partial files | resolve, download | external programs | |
| **Housekeeping, preflight**: `core/{housekeeping,preflight,outcome}.py` | files by age | clean up, warn | | |
| **Desktop app**: `ui/` | the engine's process | start, update | | |
| **Proxies and relay**: `twitch-proxy/`, `feedback-relay/` | none | forward | | |
| **Agents, webhooks, events**: `server/{mcp,agent,webhooks,events}.py` | subscribers | tools over the API, fan-out | | |

How they interact. Requests, watchers, the scheduler, stream workflows and the
tools for agents all add to **one** `jobs` table, directly or through
`queue.enqueue_once`. The worker thread claims the first row, marks its video
active, waits for a prefetch of it, starts the prefetch of the next, and runs
the pipeline. The pipeline asks `cancel.check` at its stage boundaries; when
the clips are cut it renders them itself or hands them to `RemoteRenderer`,
which submits rows to `queue.db` and polls them; the gateway (another thread of
the process, with an event loop) serves the render PCs from that table. A
finished clip may become a publish job, which may wait for a re-render in the
`jobs` table, or be posted by WoopSocial, by a person or by the watch that found
its video; a published link may become a campaign submission, which the
publisher's thread looks after between two uploads.

## 2. The modules

| Module | What it models | Extends |
|---|---|---|
| `JobQueue` | the jobs table, statement by statement | |
| `JobLifecycle` | what the queue promises about each job | |
| `JobQueueClaims` | the refinement mapping, and the promise about duplicates | `JobQueue` |
| `JobRun` | one run of the worker thread, cancel flags, prefetch threads, deletion | |
| `RenderQueue` | the render PCs' table and its operations | |
| `RenderGateway` | gateway, render PCs, network, sweeper | `RenderQueue` |
| `RenderDispatch` | `render_all` for one video; the composed next-state relation | `RenderGateway` |
| `Submission` | the table of campaign submissions, its state machine, evaluation's outcomes | |
| `SubmissionWorker` | the threads over it: evaluating, following, the pass, sending | `Submission` |
| `CampaignDesk` | the user's requests; the composed next-state relation | `SubmissionWorker` |
| `Publisher` | YouTube uploads of one clip, its re-renders and its rows | |
| `FanOut` | one clip to several platforms through WoopSocial | |
| `HandsOff` | the watch that sends it with nobody watching; composed with the sends | `FanOut` |
| `ChannelWatch` | a watched channel, from a look to a finished run | |
| `MCJobQueue`, `MCJobRun`, `MCRender`, `MCCampaign`, `MCPublisher`, `MCHandsOff`, `MCChannelWatch` | symmetry sets and instances for TLC | |
| `JobQueueProofs`, `JobRunProofs`, `RenderProofs`, `CampaignProofs`, `PublisherProofs`, `HandsOffProofs`, `WatchProofs` | theorems about `JobQueue`, `JobRun`, `RenderDispatch`, `CampaignDesk`, `Publisher`, `HandsOff`, `ChannelWatch` | that module |
| `JobClaimsProofs` | the refinement of `JobLifecycle` | `JobQueueClaims`, `JobQueueProofs` |

### JobQueue

`core/state.py` gives every thread its own connection, and Python's `sqlite3`
opens a transaction at the first write only. So each SELECT is a step, each
write with its commit is a step, and anything may happen between them. `jobs`
is the table (a function from the ids of the rows there are), `lastId` the
AUTOINCREMENT counter, `paused` the row of `app_state`. `req[r]` is what request
thread `r` has read so far and which write it is about to make; `worker` is the
same for the worker thread. `overtaken` is a history variable: the jobs that a
request put back in the queue while another had read them as failed, too.

| Action | Code |
|---|---|
| `Add`, `CheckCapacity`, `CheckDuplicate`, `ReadPlace`, `Insert` | `queue.check_capacity`, `duplicate_of`, `state.add_job`; the five *doors* differ in the checks they make and the columns they fill |
| `LookForOthers`, `StartIfAlone` | `queue.start_if_alone` |
| `AskRetry`, `Retry` | `queue.retry` and `POST /jobs/{id}/retry` |
| `AskMove`, `Move` | `queue.move` |
| `AskRemove`, `Remove` | `DELETE /jobs/{id}`, `queue.remove` |
| `AskPatch`, `UpdateSettings` | `PATCH /jobs/{id}`, `queue.update_settings` |
| `Clear`, `SetPaused` | `queue.clear`, `/queue/pause`, `/queue/resume`: one statement each |
| `Recover` | `state.recover_interrupted_jobs` at the start of `Worker.run` |
| `SeeQueueStarted`, `SelectNext`, `Claim` | the loop of `Worker.run` and the two statements of `claim_next_job` |
| `RecordVideo`, `Finish` | `set_job(video_id=...)`, `finish_job` |
| `Crash`, `StartServer` | the process dies, and the app is opened again |

`JobLifecycle` is six transitions of one job: it enters, starts, ends, is taken
again after a failure or a cancel, is interrupted, leaves; a job starts only
while no other is running. `JobQueueClaims` maps the table to it (`StatusOf`:
ids not yet handed out are *new*, ids whose row is deleted, and jobs `overtaken`,
are *gone*).

### JobRun

The same worker thread from the claim to its `finally`, with the table reduced
to the sequence of waiting jobs. `run.at` is the place in `Worker.run` and in
the pipeline; `todo` the passes (a longform job that also makes Shorts has two),
`left` the stage boundaries still ahead. `flags` is `cancel._cancelled`,
`active` is `cancel._active`, `slot` the prefetcher's thread and video, `fetches`
the download threads that are alive (a disowned one stays alive). `asked`, `due`
and `abandoned` are history variables: this run was cancelled since its clean
slate; it was cancelled with a boundary still ahead; this thread was given up on.
`Add` puts any video in the queue at any time, as the forced batch door, a retry,
and two adds that both pass the duplicate check can: `twice` is the history of the
videos that were in it when they were added.

### RenderQueue, RenderGateway, RenderDispatch

`RenderQueue` has the rows and one operator per method of the class;
`RenderGateway` the render PCs' threads (`hand[w]`: the clip, the place in
`worker._run_job`, its cancel flag), the handlers of the gateway and the files
it writes (`part`: how many chunks, and whose; `results`: whose render). The body
of an upload is awaited with the file open: `put[w]` is the chunk a worker's PUT was
granted and has not written, with the file it will go to. `Upload` begins it, `Arrive`
appends it wherever the open file is by then (`part`, moved to `results`, or
deleted), `Broken` is a connection that ends first, `Resume` the worker asking again
after its own limit. `spoilt` is the history of the clips that were completed while
such a chunk was awaited.
`RenderDispatch` is `RemoteRenderer.render_all` run for one video again and
again (`run`), a cancel and a crash of the main PC. The handlers of the gateway
run on one event loop, so a handler is one step up to its `await`: `complete` is
`AskComplete` before it and `Verify` after it. The gateway and the pipeline share
one `RenderQueue` object; its lock keeps `fail`'s SELECT and UPDATE together
(`Unlocked`), but not against the Settings page, whose routes make objects of
their own (`RenderLocally`, `Retry`, `Hold`, `Unpair` are not kept out).

### Submission, SubmissionWorker, CampaignDesk

`subs` is `campaign_submissions`, one row for each campaign and post; `Sources`
and `Guard` are the `TRANSITIONS` of `campaigns/statemachine.py`, and `Apply` its
UPDATE, which compares the status and the watched columns again. Two threads
act: the publisher's, which makes the background pass (`queue.advance`: sweep,
deadlines, archived campaigns, posts to look for, sends), and one request at a
time. `act[a]` is where a thread is and what it read, decided and listed: a row
listed or read may have moved by the time it is written. `Judge` and `Write` are
the two halves of `evaluate`, `Look` one call of `follow`, `SendStart` the write of
`sending`, then `Deliver` (Discord takes the message) and the seven `Answer...`
actions of `_send`; `Restart` is a stop of the app and
`_recover_campaign_sends`. `CampaignDesk` has one action for each request: attach,
reopen, edit (link, method, hold), the eight buttons of a row (`Press`), move,
switch, archive, extend, a new method for a campaign (`ChangeMethod`, row by row
in `Reapply`), the webhook removed or pasted again. `posted` counts the messages
Discord took since the user last asked for one.

### Publisher

Three threads share the database. The publisher's (`pub`): `Recover`, `List` and
`Claim` (the loop of `claim_next_publish_job`, which looks at the render each
queued row waits for), `Prepare` (`_resolve_clip` and the quota), what becomes of
the upload, `Count` (the ledger), `Record` (`record_publish`, a foreign key on the
clip), `Done`, and between two jobs `ReadBack` and `WriteBack`
(`_run_due_verifications`). The worker's (`rend`): `OpenClip`, then the writes of
`_rerender_clip`, each a step: `Detach`, `DeleteOld`, `Register` (a new id),
`Reattach`. A request (`ask`): the checks of `publish_clip` and its inserts, a
cancel's read and its write; deleting a clip and the buttons of the Queue page are
one step. `up`, `today` and `kept` are the world and history: how often YouTube
made a video of a job, how many that day and how many of them nobody counted,
and that an upload was recorded for a clip that still exists.

### FanOut, HandsOff

`rows` is `clip_publishes`, a row a platform; `posts` and `medias` are WoopSocial's,
which the code sees only through answers. Two threads send: the watcher's
(`once`: mark `sending`, upload, tag the media, post, record, row by row) and a
person's, which marks nothing beforehand. Two threads check (`fresh`): the
publisher's, which either asks about a request in flight (`AskDue`) or reconciles
sends that stayed `sending` too long (`AskMedia`, `Find`), and a person's refresh
(`AskPressed`). Each reads its rows (`ReadRows`), asks (`Hear`), and writes what is
news row by row (`Write`); the other may write in between, which `doubted` remembers.

| Action | What becomes of the request |
|---|---|
| `Create` | the post is made, and its answer is read |
| `CreateUnanswered` | no answer, the post made or not: the rows stay `sending` |
| `Refused` | an error that will not pass, and no post: the rows fail |
| `Unreadable` | the post is made, and its 2xx reply cannot be read: the rows fail as well |
| `Find` | the post is found by its media; there is none; or there is one that is not among the newest 100 posts |
| `Lapse` | a post due more than `FOLLOW_DAYS` ago is no longer asked about (`late`) |

`slips` is a history variable: the platforms on which the code lost sight of a post of the
watch's (`Unreadable`, an overlooked post, a stop between two rows of one record or
adoption, and a check that wrote what the other had made old, `Undoes`). `HandsOff` adds
the item of the watch: `Publish`, `StartFails` with its tries, `Published`, and
`RetryRejected`, which sends again what was rejected.

### ChannelWatch

One watch of one channel. The watcher's thread (`tick`) goes through a pass:
`Look` and one `Insert` a row, `Looked` (last_ok_poll_at), `Ask` and `Answer` for each
item not ready, `Enqueue` and `Link` for each waiting one, `Delay`, `Retry` and `Count`
for failed runs, `Decide` for finished ones. `tick.rows` are the rows as read when
the phase began, which is what the code goes on with. The worker (`Work`), a person
in the queue (`UseQueue`), *Clip this* and *Skip* (a read and a later write), the
switch, the clock and `Restart` interleave with each of these steps. A look lists
any of the channel's videos, as many as `Listing`, or none: the code reads the newest 15
entries and drops the Shorts among them, and videos are hidden and removed. `noted` is
what a first look listed, or had recorded already.

## 3. The runs

| Run | Instance | Checks | Distinct states |
|---|---|---|---|
| `queue_pair` | 2 requests (symmetric), 1 video, every door, 2 rows, 4 calls, 1 crash | `TypeOK`, `RunningIsHeld`, `OneRunning`, `HeldRowIsRunning`, `FollowsLifecycle` | 861,594 |
| `queue_solo` | 1 request, doors paste, handoff, render, 3 rows, 4 calls, 1 crash | `Drains` | 273,064 |
| `job_run` | 2 videos, jobs for Shorts, both, renders, 2 jobs, 1 cancel, 1 stall, 1 deletion, 1 crash | `TypeOK`, `CancelledOnlyIfAsked`, `CancelInTimeStops`, `ActiveIsInHand`, `OneDownload`, `RunEnds` | 1.2 million |
| `render_safe` | 2 render PCs, a clip to send and one that stays here, 2 runs in any mode, uploads of 2 chunks, any 2 troubles of eight | `TypeOK`, `CompletedIsFinal`, `ResultIsKept`, `HandedOnce` | 411,217 |
| `render_ends` | 2 render PCs, a clip in Automatic and one that stays here, any 2 troubles of eight | `RunEnds`, `StaleStops` | 90,785 |
| `campaign_safe` | 1 campaign, 2 posts that may turn out to have one link, 3 requests, 1 trouble | `TypeOK`, `PostedOnce`, `PostedIsKnown`, `LinkOnce` | 2.1 million |
| `campaign_move` | 2 campaigns, 1 post, attached at once or for review, 3 requests | `HandSentStays` | 2.6 million |
| `campaign_settles` | 1 submission, 3 requests, 1 trouble | `SendEnds`, `ArchivedSettles` | 377,000 |
| `publish` | 2 publish jobs, 2 re-renders, 2 windows, a limit of 1 upload a day, 2 days, 3 requests, 1 trouble | `TypeOK`, `OneUpload`, `RenderedFirst`, `UploadShown`, `QuotaKept`, `PublishEnds` | 895,096 |
| `hands_off` | 2 platforms (symmetric), 3 posts, 1 press of Publish, Approve or Refresh, 2 troubles, 1 re-send | `TypeOK`, `PostedOnce`, `PostedIsKnown` | 3.6 million |
| `hands_off_ends` | 2 platforms, 4 posts, 2 troubles, 1 re-send, 1 failed start, 1 post no longer followed | `HandsOffEnds`, `PublishedShown` | 40,625 |
| `watch` | 2 videos, some there before the watch, a listing of 1, 1 place in the queue, 1 retry, 2 troubles, 1 press | `TypeOK`, `CatalogueStays`, `StartedOnce`, `VideoEnds` | 741,337 |

What they show.

- **RunningIsHeld**: whatever requests interleave with the worker, a row says
  `running` only while the worker has it, or between a crash and its recovery.
  It could fail through a delete, an edit or a retry between the claim's two
  statements, or through `finish_job` writing to a row that was replaced; it
  does not, because ids are never handed out twice and the only statement that
  writes `running` is the worker's own.
- **OneRunning**: never two running rows, over crashes too.
- **HeldRowIsRunning**: the converse, beside two request threads: the row of the job
  that runs says so, until it is deleted. Set apart are the jobs that two requests
  retried at once (`overtaken`), for which it fails (section 6).
- **FollowsLifecycle**: the table with its request threads implements the abstract
  lifecycle, for every job until two requests retry it at once.
- **Drains**: a queue that is started and left started empties: renders that jump
  ahead of the videos, interrupted runs that are queued again, and moves starve
  nobody. As calls are bounded, at most that many renders can jump ahead; with
  an endless stream of renders a video would wait for ever, as
  `core/state.py:1582` intends.
- **CancelledOnlyIfAsked**: flags are sticky and outlive their run; none ever
  stops another run. **CancelInTimeStops**: a cancel with a boundary ahead of it in
  the same pass never ends as `done`.
- **ActiveIsInHand**: the video that may not be deleted is the one in hand.
- **OneDownload**: no two threads download one video, apart from those given up
  on, for every video that was never in the queue twice (`twice`; when one was, the
  prefetch may start on the video the running job downloads: section 6).
- **RunEnds** (of `JobRun`): every run ends whatever a prefetch does.
- **CompletedIsFinal**, **ResultIsKept**: the first valid result wins. Late owners,
  sweeps, removals, failures written by id alone, crashes and the Settings page
  do not undo a completed row, and its file is one worker's whole render until a
  run takes it, though two owners may have uploaded into one part file, and a chunk
  accepted from the first may arrive after the second has begun. Set apart are the
  clips completed while such a chunk was still awaited (`spoilt`, section 6).
- **HandedOnce**: every clip of a run is in exactly one place (to be sent, waited
  for, rendering here, handed over), and is handed over once.
- **RunEnds** (of `RenderDispatch`): in Automatic a run ends if the renders do,
  whichever of two render PCs are off, back at once, silent, failing, held or removed,
  and whatever answers and bodies are lost or late, unless some clip stays for ever
  with a worker that has no hand on it (`Orphaned`, section 6): the code has no way out
  of that state, and it is the one state excepted. **StaleStops**: a render
  that is no longer wanted is stopped, however long it would take.
- **PostedOnce**, **PostedIsKnown** (of `CampaignDesk`): a submission's message goes out
  at most once for each time the user asks, and a row whose message went out is
  never shown as one still to be sent: not after a lost answer, a crash between
  the write of `sending` and the answer's, an edit, a cancel or a move meanwhile.
- **LinkOnce**: two rows of a campaign never come to one link, though both may pass
  the duplicate check before either is written: the index catches the second, and
  only `evaluate`, which handles that, can bring it there.
- **HandSentStays**: what the user recorded as submitted by hand is not sent by the
  webhook afterwards, over any sequence of buttons short of attaching it again.
- **SendEnds**, **ArchivedSettles**: no row stays `sending`; no unsent row of an
  archived campaign stays open, not even one that was out when it was archived.
- **OneUpload**: a publish job makes at most one video, over crashes, lost answers,
  cancels and retries of its render. **RenderedFirst**: none goes up before the
  render it waits for.
- **UploadShown**: an upload that was recorded stays with the clip, though re-rendering
  gives the clip a new id in separate writes, and a second upload may be recorded
  between any two of them.
- **QuotaKept**: a day's videos exceed the limit only by those nobody could count (an
  answer lost, a crash before the ledger was saved).
- **PublishEnds**: every publish job goes up, fails or is cancelled, whatever becomes
  of the render it waits for, unless the publisher's thread has died (section 6).
- **PostedOnce**, **PostedIsKnown** (of `HandsOff`): a clip is on a platform at most once
  for the watch and once for each press; while the watch's post lives its row says
  so. This needs the marking before the upload, the media recorded on the row
  before the post, the adoption by media afterwards, and `news`, which keeps the
  check of an old post from writing over a re-send, with two threads checking at
  once. It holds of every platform on which no post was lost sight of (`slips`): each of
  the four ways is one in which the code does post twice (section 6).
- **HandsOffEnds**, **PublishedShown**: a publish nobody watches is sent or put before a
  person, and what a platform published is shown as published in the end, unless it
  was due more than 14 days ago by then (`late`), or lost sight of.
- **CatalogueStays**: what the first look listed is never queued unless a person asks,
  though it is inserted row by row and may be cut off: the next look is still a
  first one, because `last_ok_poll_at` is written last. It does not say so of what the
  channel had and the first look did not list (section 6).
- **StartedOnce**: a video is started once, once more for each press, each retry of a
  failed run, and each stop between adding a job and noting it.
- **VideoEnds**: a video found is set aside or run, past questions that never say
  *ready*, a queue with no place, failed runs and stops.

Why the bounds are enough. Two requests and the worker are three threads on one
row: the claims concern one row or a pair, and every race of three statements
fits in four calls with one crash. In `queue_solo` three rows let a render jump
ahead of two others. In `job_run` a cancel can come in an earlier run of the
video, in its own or between the two, and one boundary a pass distinguishes "one
ahead" from "none". In `render_safe` two workers are an old and a new owner, two
chunks let them mix in one file, two troubles with two attempts reach `failed`,
and a second run meets the rows of the first; one chunk of a worker is awaited at a time.
`render_ends` has the same two workers and troubles in one run. In the campaign runs the claims are
about one row or a pair of rows of one campaign, and three requests give attach,
one button, and one more in the middle of what follows; `campaign_move` needs a
second campaign, and nothing that fails. In `publish` two jobs can record an
upload each inside and outside one re-render, a second re-render can follow, and
a limit of one is met by the second upload of a day. In `hands_off` two troubles
are an unanswered post and a crash, or a rejection and a second one, and two
platforms are the smallest send that is only half rejected; states in which a post
was lost sight of on every platform are not explored further (`Seen`), as nothing is
claimed there, and no post lapses (`MaxLate = 0`), which only keeps checks from being
made; `hands_off_ends` has a lapse. In `watch` two videos
are enough for one to be in the other's way, and a queue of one place is full as
soon as one is queued. Each bound is a constant that appears in one guard. The
theorems of section 5 hold for every value.

`CHECK_DEADLOCK FALSE` everywhere: once the bounds are used up and the queues are
empty nothing need happen any more.

## 4. Fairness

- `JobQueue!FairSpec`: weak fairness of `WorkerStep` (the thread runs while the
  process lives, and a run of the pipeline ends) and of `StartServer` (the app is
  opened again). Nothing is assumed of requests: a request may stop between its
  two statements for ever.
- `JobRun!FairSpec`: weak fairness of `WorkerStep` and of `PrefetchInTime` (a
  download ends or its limit passes). Of a download whose limit has passed nothing
  is assumed.
- `RenderDispatch!FairSpec`: `render_all` polls in a loop without a blocking wait;
  the sweeper thread and the handlers run; a worker that is on works and checks
  in, and gives up a PUT that stalls; the clock runs for one that is off. Nothing is
  assumed of a body that is awaited: it may never come. Nothing is assumed of people, of a
  worker that was switched off (it may stay off), or of a render: that renders
  end is the hypothesis `RendersEnd` of `RunEnds` alone, and `StaleStops` holds
  without it.
- `CampaignDesk!FairSpec`: the publisher's thread makes its passes, a request that has
  begun goes on, and the time a row waits for comes. The answers are left open: it
  is not assumed that a send ever succeeds.
- `Publisher!FairSpec`: each of the three threads takes its next step. An upload ends
  because `publish/youtube_shorts.py` gives a chunk up after a few attempts; whether
  it succeeds is open.
- `HandsOff!FairSpec`: the watcher, the senders and the publisher's thread go on, a
  refresh a person pressed ends, the delays and the limit on `sending` pass, and WoopSocial ends by publishing or
  rejecting what it accepted. Lost answers, refusals and stops are bounded.
- `ChannelWatch!FairSpec`: the watcher and the worker go on, with the queue started;
  the time an item waits for, and a week for one that is never ready, pass. Nothing
  is assumed of the answer to a readiness question.

## 5. The proofs

All theorems are about `Spec`, for every value of the constants that satisfies
the named assumptions (`ConstantsAssumption` of `JobQueue` and of `JobRun`,
`QueueAssumption`, `GatewayAssumption`, `DispatchAssumption`, `SubmissionAssumption`,
`WorkerAssumption`, `DeskAssumption`, `PublisherAssumption`, `FanOutAssumption`,
`HandsOffAssumption`, `WatchAssumption`: bounds are natural numbers, limits are not
zero, the "none" values are not elements). One theorem has a hypothesis in its
statement, `slips = {}` in `HandsOffProofs`, explained below. Each safety invariant and
each action property of the runs is stated by a theorem, but `PostedOnce` of `HandsOff`.

**JobQueueProofs**: `TypeCorrect`, `RunningHeld`, `NeverTwoRunning`. The inductive
invariant is `SafetyInv == TypeOK /\ RunningIsHeld /\ OneRunning`. `OneRunning`
is not inductive alone: `Claim` could meet a row left running. `RunningIsHeld`
rules that out, since the worker is at `claim` and holds nothing; its own step
needs that no request writes `running`, and that `Insert` makes a row under a
fresh id (`TypeOK`: ids in the table are at most `lastId`).

**JobClaimsProofs**: `RunningSaysSo` and `QueueFollowsLifecycle`, for any number of
request threads beside the worker. Two requests may both read a job as failed and
ask for a retry; the worker takes it after the first, and the second puts the row
that runs back in the queue. Such jobs are `overtaken` from the second write on, and only
they are set apart. `HeldInv` adds to `SafetyInv` that what the worker
(`ClaimIsWaiting`) and a retry (`RetryIsEnded`) have read is still true of the row
when they write by id alone, unless the row has gone or another retry came
first, and that the id they hold was handed out already (`HeldIsOld`, `RetryIsOld`,
`OvertakenIsOld`), so that no new row takes it. From this, every step is classed by
what it does to the statuses (`SameStatuses`, `OneStatus`, ...), and each class is a step
of `JobLifecycle` or leaves the mapped statuses as they are.

**JobRunProofs**: `TypeCorrect`, `NoStrayCancel`, `TimelyCancelStops`,
`ActiveVideoInHand`, `VideoDownloadedOnce`. The inductive invariant `RunInv` is made of `ControlOK`, `InHand` (which video is
active at each place of the run), `FlagWasAsked` (a flag of the running video
is up only if this run was cancelled: true from the clean slate on) and
`DueIsAhead` (a cancel that was in time still has its flag up and a boundary
ahead of it, until the run has ended other than `done`). `VideoDownloadedOnce`
has its own, `PrefetchInv`: a video that was never added while it was in the queue is
named by at most one job that downloads it, waiting or running (`QueueInv`), a download that was
not given up on is the slot's, for the slot's video (`SlotOwns`), and once the run is past
`wait_for`, no such download is for its own video (`Alone`).

**RenderProofs**: `TypesHold`, `FirstResultWins`, `ResultWaits`, `EveryClipOnce`. The
inductive invariant is `StoreInv /\ RunInv`. `GivenBackIsOpen`: a row that `fail`
is about to write over by id alone is not completed, because the lock keeps
completions out between its SELECT and its UPDATE. `NothingToVerify`: a completed
job has no part file (uploads to it are refused), so a late `Verify` finds nothing
and cannot touch the result. `AwaitedKnown`: a body still awaited goes into no completed
job's part, and into no result but those moved while it was (`spoilt`). `RunPlaces`: where the loop is and what it still
holds, from which `HandedOnce` follows.

**CampaignProofs**: `TypeCorrect`, then `MessagePostedOnce`, `PostKnown`, `HandSentKept` and
`OutStaysSending` from one invariant, `SendingInv`. `PostedOnce` is not inductive alone:
a second message would need a row that was posted and is ready again, or one that
left `sending` while its request was out. So the invariant says that while the request is
out its row is `sending` (`OutIsSending`) and Discord has nothing of it yet (`OutFresh`),
that a row Discord has is in none of the statuses a send starts from (`PostedIsKnown`),
and that what the user sent by hand is never unsent (`HandKnown`). The many requests
need few arguments: each change of a row is one of a handful of kinds
(`Quiet`, `Freshly`, `Again`). `OneRowPerLink` is by the links alone: a step keeps or
clears a row's link (`Gentle`), or writes it where the same step looked for
another row that holds it.

**PublisherProofs**: `TypesHold`, then four safety properties, each from the types
(`Parts`, the conjuncts of `TypeOK`) and an invariant of its own.
`NeverTwice`: `UploadInv` says that a job that may yet be sent (not made, queued, in
the list the publisher read, or in its hands before the upload ends) has no video,
and that one that was sent becomes none of these again.
`RendersFirst`: `AfterDone` says that a job which has a video, or
is on its way, has its render done or gone; this is kept because the Queue page
never takes a row that is done back to the queue, and `WorkerRow` says that the row
the worker writes is one that runs. `QuotaHolds`: `QuotaInv` relates the ledger of
the day to the day's videos, those nobody counted, and the one in hand.
`StaysShown`: `ShownInv` says that the upload's row is the clip's or in the hands of
the re-render (`Saved`), and `ClipInHand` that the id the re-render works with is the
clip's or that the clip has gone.

**HandsOffProofs**: `TypeCorrect`, and `LivePostIsKnown`, which is `PostedIsKnown` as long as
no post was lost sight of (`slips = {}`). It follows
from `Kept`, of three parts. `Rest` is who has what: which upload (`media`) belongs to
which row, send and post, and that a live post has a row that names its request or
its upload. `Told` is what each checking thread heard and has yet to write, which
must still be news of that post when it is written, though rows move under
it, and the other thread's writes (`doubted`) with them. `Whole` says that a post nobody
is recording is still to be adopted for all its platforms or for none. The hypothesis is
on the state reached, not on the code: each way of losing sight of a post is an action of
the specification, and after it nothing is claimed, since the code does post twice then
(section 6). TLC claims a little more: a slip on one platform leaves the others claimed.

**WatchProofs**: `TypeCorrect`, `CatalogueNotQueued`, `VideoStartedOnce`. `CatalogueKept`:
until a first look is recorded as done, each video it listed has a row that
is left alone (`baseline`, `skipped`) or is among those the look has yet to insert as
`baseline`, and after it none is without a row (`Recorded`, `ToRecord`); no pass that starts
videos has one of them in hand (`NotInHand`). `AllStarted` is an account for each video: the
times it was put in the queue, and one more while the pass is about to, are at
most one plus what a person asked for, the retries counted in its row or about to
be, and the stops of the app (`Account`); `AsRead` says what of the rows
read when the phase began is still true of the table.

Only model-checked are `PostedOnce` of `HandsOff`, which needs a count of what lives, of
what a row or thread may still find dead and of who may still send, and liveness:
`Drains`, the `RunEnds`, `StaleStops`, `SendEnds`,
`ArchivedSettles`, `PublishEnds`, `HandsOffEnds`, `PublishedShown`, `VideoEnds`. Liveness needs
fairness and `ENABLED`, which are out of the prover's reach.

## 6. Disagreements between the code and what is said of it

Seen while modelling. None of the checked properties claims them, and each is
left as the code has it, so that the properties hold beside them.

Queue and run:

- **A video in the queue twice.** `queue.retry` does not look for another
  job of the video (`core/queue.py:52`: such a video "must not be queued a second
  time"): a job fails, the link is pasted again, the failed job is retried. Two adds
  of one link can pass the duplicate check together, and a batch can be forced past
  it (`server/api.py:1345`). The prefetch of the second job then starts on the video the first
  is about to download (against `core/prefetch.py:12-13`); so it does with a longform job
  of a video ahead of its Shorts job. `OneDownload` sets these videos apart (`twice`).
- **The limit of the queue**: `queue.retry` asks for no room, and two adds can both
  see the last free place, so more than `MAX_ACTIVE` jobs can wait.
- **Double retry**: both requests see `failed`; the second writes `queued` by id
  alone (`core/queue.py:231`, `server/api.py:1256`) over a row the worker may be
  running by then, and the job runs a second time. `HeldRowIsRunning` and
  `FollowsLifecycle` set these jobs apart (`overtaken`), and hold of all others beside
  them.
- **Removal of a running job**: the status checked is stale when the row is deleted;
  the run goes on without a row.
- **The claim is not atomic**: `core/state.py:1627` says "Atomically claim", the UPDATE
  at 1638 is by id alone. An edit in between is shown and not used. With the one
  worker thread nothing worse follows.
- **start_if_alone** (`core/queue.py:153`) reads who else waits and then starts the
  queue: a video added in between is started too.
- **Moves between equal positions** change nothing: two adds can share a position
  (`core/state.py:1605`).
- **Cancel flags live in memory**: a cancelled run whose process dies before it reaches
  a boundary is queued again and runs.
- **A cancel is wiped.** `process_video` clears the flag again after the download
  (`core/pipeline.py:284`), so a cancel that came while the worker waited for a
  prefetch, or after the download's last progress callback, is lost, against
  `server/jobs.py:173`. `CancelInTimeStops` counts the boundaries of the pass only.
- **After a prefetch is given up on** its thread still downloads, and a later run may
  download the same video beside it, or start the wait over.
- **delete_video** checks the active video and unlinks later: a run that starts in
  between loses its source.

Remote rendering:

- **A completed clip without a file.** `_take` deletes the result and leaves the row
  `completed`; a second run with the same settings is told the clip is done and
  fails to save it (against `remote_render/queue.py:225-226`). `ResultIsKept` ends
  with the taking.
- **A clip that stays with a render PC for ever.** A PC that loses its power and is
  back within 45 seconds is never swept, and does not know of its clip; in
  Automatic the run waits without end (against `docs/REMOTE-RENDERING.md:92-93`). A lost
  answer to a claim, and a late failure report (below), have the same effect. `RunEnds`
  excepts this state, `Orphaned` for ever, and nothing else.
- **A body that arrives late.** `result_chunk` checks the owner and the offset, opens the
  file and then awaits the body (`gateway.py:143-155`). A worker that stalls there and
  is swept has a file open that the next owner fills: its chunk lands after or between the
  new owner's, and the completion is refused by the hash; or, where an open file can be
  renamed, it lands in the result after that was verified and moved. `ResultIsKept`
  sets the clips apart that were completed while a body was awaited (`spoilt`).
- **A cancel while clips are being sent** leaves those already sent with the render
  PCs (against `docs/REMOTE-RENDERING.md:101`).
- **Removal of a render PC** requeues its clips and deletes it in two statements; a
  claim in between leaves a clip with a worker that is gone, which the sweep never
  looks at.
- **"Render locally" during a failure report**: the Settings page's lock is not the
  gateway's, so `fail` can write `queued` over `local`; the clip renders here and on
  a worker, and is still handed over once.
- **A late failure report** deletes the part file the new owner is filling
  (`gateway.py` deletes it whether or not the job was the sender's); the new owner's
  completion is refused, and its job stays active.
- **Several clips at a time** (`max_jobs` above 1): a worker whose clip was swept can
  be given the same clip again beside its first thread. Not modelled; the default
  is one.

Campaign submissions:

- **A campaign switched off between the listing and the send** still posts
  (`core/state.py:2117-2122` says that nothing is sent for one that is off): `_send`
  does not look at the campaign again.
- **The words and the destination as they were listed** go out after an edit made
  between the listing and the send: the compare-and-set watches the status, the
  link, the method, the hold and the time, not the text.
- **Evaluation decides from the row it read** (`campaigns/queue.py:113-154`) and writes
  comparing status and link only (against 96-98): a row made the user's own meanwhile
  can become ready to send.
- **A "gone" answer**, to a send or to a test message, wipes the webhook link the user
  has pasted in its place since.
- **A row listed unsent, and recorded as sent meanwhile**, is cancelled by the pass over
  archived campaigns and by `remove_campaign`, whose cancel accepts a row that was
  sent.

Publisher:

- **Publishing with a re-render that trims**: the job keeps the window the clip had, so
  after the re-render neither its id nor its window finds the clip, and it fails
  with "clip no longer exists" (`server/publisher.py:446`). A second re-render
  queued under the old id fails in the same way.
- **The publisher's thread can die**: `_run_due_verifications` writes its row outside the
  loop's `try`; when the clip went away during the question, the foreign key's
  IntegrityError ends the thread, and nothing is published until the app is started
  again. `PublishEnds` excepts this state, `pub.at = "dead"`.
- **A clip re-rendered or deleted during its upload**: the result refers to an id that
  is gone, and the job says `failed` although the video is up.
- **A lost answer to the last chunk** is told as `failed` too.
- **Cancel against claim**: the cancel that read `queued` writes `cancelled` over a row
  claimed since, and its upload goes on; a claim writes `running` over a cancel.
- **Two presses** can both pass the check for an active publish, and make two jobs.
- **A crash between a re-render's delete and its reattach** loses the clip, or the
  upload's row that was in memory; `kept` is false from then on. A clip deleted
  during its re-render comes back with it.

Posting:

- **A reply that cannot be read.** A 2xx reply to `create_post` that is not JSON raises
  an error that is not retryable (`publish/woopsocial.py:208-215`), and the rows are
  marked `failed`, as "no post exists, so it is safe to send again"
  (`server/woopsocial_service.py:545`); the post exists, and the retry posts it again.
- **A post that is overlooked.** `find_by_media` reads the newest 100 posts of the accounts
  (`publish/woopsocial.py:294-304`). A send that was cut off before a stop of days, on
  accounts that post a lot, is not among them, and its rows say "It is safe to send
  again" (`server/woopsocial_service.py:599`).
- **A record torn between two rows.** The app stops between the rows of one
  `record_outcomes`, or of an adoption by `reconcile_sending`; the first platform
  rejects and is sent again; later
  `reconcile_sending` adopts the old post for the second row and calls `record_refresh`
  without `known` (`server/woopsocial_service.py:611-614`), which writes the old
  `failed` over the re-sent row, and that platform is sent a third time, against
  `server/posts.py:131-135`.
- **Two checks at once.** A person's refresh reads a request's rows and asks; the
  publisher's thread meanwhile writes the rejection, and the watch sends the platform
  again; then the refresh writes what it heard of the old request over the row
  (`server/woopsocial_api.py:459-471`: `known` is what it read before asking).
- These four are the `slips`: `PostedOnce` and `PostedIsKnown` set apart the platforms they
  concern, and TLC shows either violated when one is not counted.
- **A post no longer followed** (due more than 14 days ago) stays `processing` in its row for
  good, unless a person refreshes it (`server/posts.py:16-18` says so). `PublishedShown`
  excepts it.
- **Two senders nobody watches**: the worker's follow-up (`server/jobs.py:609-677`) and
  the watcher each read `already_sent` and mark afterwards. The model has the
  watcher's only.
- **find_by_media** asks for the posts of the accounts that are connected: a post to an
  account disconnected since is not found, and its row says that sending again is
  safe.

Watches:

- **Skip during a pass**: the answer of a readiness question, and the link to a job, are
  written over a *skipped* made meanwhile, and the video is clipped.
- **Approve during `_decide_publishing`**: its `ask` is written over what the person
  decided between its read and its write.
- **A crash between adding the job and linking it**: the job runs, and the item then
  finds the video clipped and says `skipped`; its clips are never published by the
  watch.
- **A crash between the videos taken and those set aside** in one catch-up: the next
  look takes one that was to be set aside, since fewer are new.
- **`_catch_up` asks a question of its own**; when that raises, the rest of the pass is
  given up until the next.
- **The back catalogue can be queued.** A first look that lists less than the channel has
  (the newest 15 entries, Shorts dropped, an empty or short answer) still sets
  `last_ok_poll_at`; when videos are removed later, older ones come into the listing as
  new and are queued, against `server/automation.py:710-712` ("never queues its back
  catalogue"). `CatalogueStays` is about what the first look listed.
- **The list of items is cut at the newest 200**, and older ones that wait are not
  looked at again.

## 7. Abstractions

- Payloads of `jobs` are a link and an options value; `identify` maps a link to its
  video, so a link is its video here. Estimates, progress and the snapshot the UI
  reads are left out: nothing reads them back.
- The stages of a pass are a number of boundaries (`Checks`) at which
  `cancel.check` is called, each of which may fail.
- The five states of `ACTIVE` in `remote_render/queue.py` are one, `active`: every
  guard asks for the set. A worker has one hand (`max_jobs` 1) and fixed
  capabilities (`Able`). The order of the waiting clips is left open.
- In `Verify`, moving the file, the UPDATE and the unlink of a refused file are one
  step; they are in one handler without an `await`.
- An open file goes on when it is moved or deleted, as on POSIX systems; on Windows the
  move would be refused. A worker has one body awaited at a time; a second stalled PUT
  counts as a lost one. What goes wrong is bounded by `MaxTrouble`.
- A local render that fails is not told from one that succeeds (`here`): the loop
  does the same.
- `StopEarly` stands for both loops that raise on a cancel without touching the rows
  (`dispatch.py` 135 and 265-273). A row is never found `cancelled` while polled:
  only the end of a run of this video cancels it.
- Time is abstracted to what a limit decides: `overdue`, `fresh`, `waited`, `due`,
  `old`, `wait`, `retry`.
- Campaigns: one webhook; the assisted and the website methods are one, `hand`; what
  the checks decide is a choice among the outcomes `_outcome` can give; the spacing
  of sends is one send a pass, and the pause after a 429 for all rows is left out; a
  5xx answer counts as not posted, as the code takes it.
- Publisher: one clip; its file is always there; the worker's queue is started, and
  holds re-renders of this clip only. The requests that read and write in one breath
  (delete, the Queue page) are one step.
- Posting: one clip; schedules, captions and the accounts behind a platform are left
  out, and with them the state `skipped` of a platform without one. An upload to
  WoopSocial that fails and one that is refused are one action. A 2xx reply without an id,
  which leaves rows without a request, and an answer that is cut off while it is read,
  which raises out of `publish_clips`, are left out; so are the limits of 60 requests in
  one refresh and `refresh_missing_urls`, which asks again about posts already
  published. A post found by its media has the outcomes of one moment for all
  its platforms, as the answer has.
- Watches: the catch-up policy "day" (a set of fresh videos the clock decides) is left
  out; `enqueue_once` is one step, its statements being `JobQueue`'s; what a person
  does to a finished video is `HandsOff`'s.

## 8. What is not modelled, and why

Stream workflows, connected accounts (the EventSub socket) and plugins have
protocols worth a module and are in the plan below, as are Upload-Post's own polling
and the quota of each account. Pairing, text updates, the Discord bot, language models
and sources are network or file I/O with little shared state. The pipeline's
analysis, longform, sports, gaming, languages, creator profiles and the video
editor are sequential computations on media, out of a model checker's reach. The
desktop app, the proxies, the relay and the agents' tools keep no rows. Within the
modelled parts: thumbnails, playlists and metadata of an upload, schedules and plans
of publish jobs, the words of a submission and the rules of its checks, sign-in, disk
clean-up of watches, Twitch clip watches.

## 9. The plan

1. **Proofs beside the liveness runs.** The safety half of what `Drains`, `SendEnds` and
   `HandsOffEnds` rest on: that a row which has not ended is always in some thread's
   reach (waiting, in hand, or with a time to wait for). An abstract specification of
   one post, which `FanOut` and Upload-Post both implement.
2. **`StreamWorkflow`**: trigger and action runs, nominations and votes, digests.
3. **`EventSub`**: the socket's reconnect with old and new sessions, refresh against
   disconnect.
4. **`Plugins`**: install, update and remove against a running step.
5. **Upload-Post** beside `FanOut`, with the same abstract promise.
