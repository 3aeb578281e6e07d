----------------------------- MODULE WatchProofs -----------------------------
(***************************************************************************)
(* ChannelWatch keeps its types, never queues the back catalogue of a      *)
(* channel and starts no video again and again, for every catch-up policy, *)
(* number of retries, of places in the queue, of videos, jobs, buttons and *)
(* stops of the app.                                                        *)
(***************************************************************************)
EXTENDS ChannelWatch, TLAPS

-----------------------------------------------------------------------------
(* Types. Besides TypeOK: the watcher's thread holds rows of the items it   *)
(* read, and a video of the channel where it is about to write one; a job   *)
(* that was ever added has a video.                                         *)
Places   == {"idle", "noting", "checking", "asking", "queueing", "linking", "clipped",
             "retrying", "counting", "deciding"}
Statuses == {"none", "queued", "running", "done", "failed", "cancelled", "gone"}
JobRow   == [video : 0 .. MaxVideos, status : Statuses]

ChannelOK == noted \subseteq Videos /\ posted \in 0 .. MaxVideos
WatchOK == watch \in [enabled : BOOLEAN, looked : {"never", "lately", "long ago"}]
ItemsOK == items \in [Videos -> Item] /\ done \subseteq Videos
JobsOK  == /\ jobs \in [JobIds -> JobRow]
           /\ \A j \in JobIds : jobs[j].status # "none" => jobs[j].video \in Videos
ReadOK  == /\ DOMAIN tick.rows \subseteq Videos /\ tick.rows \in [DOMAIN tick.rows -> Item]
           /\ tick = [at |-> tick.at, rows |-> tick.rows, video |-> tick.video, job |-> tick.job]
           /\ tick.at \in Places
InHandOK == /\ tick.video \in 0 .. MaxVideos /\ tick.job \in 0 .. MaxJobs
            /\ tick.at \in {"asking", "linking", "clipped", "counting"} => tick.video \in Videos
            /\ tick.at = "counting" =>
                 tick.video \in DOMAIN tick.rows /\ tick.rows[tick.video].tries < MaxRetries
PersonOK == /\ person \in [does : {"nothing", "clip", "skip"}, video : 0 .. MaxVideos]
            /\ person.does # "nothing" => person.video \in Videos
HistoryOK == asked \in [Videos -> Nat] /\ queued \in [Videos -> Nat] /\ stops \in Nat
Types == ChannelOK /\ WatchOK /\ ItemsOK /\ JobsOK /\ ReadOK /\ InHandOK /\ PersonOK /\ HistoryOK

USE WatchAssumption

(* What is read of the items, and what is left of it, are rows.             *)
LEMMA RowsRead ==
  ASSUME ItemsOK, NEW states
  PROVE  /\ DOMAIN In(states) \subseteq Videos /\ In(states) \in [DOMAIN In(states) -> Item]
         /\ \A v \in DOMAIN In(states) : In(states)[v] = items[v] /\ items[v].state \in states
         /\ \A v \in Videos : items[v].state \in states => v \in DOMAIN In(states)
BY DEF In, ItemsOK

LEMMA RowsLeft ==
  ASSUME NEW rows, NEW v, DOMAIN rows \subseteq Videos, rows \in [DOMAIN rows -> Item]
  PROVE  /\ DOMAIN Rest(rows, v) = DOMAIN rows \ {v}
         /\ Rest(rows, v) \in [DOMAIN Rest(rows, v) -> Item]
         /\ \A u \in DOMAIN Rest(rows, v) : Rest(rows, v)[u] = rows[u]
BY DEF Rest

LEMMA NoRowsRead == DOMAIN NoRows = {} /\ NoRows \in [DOMAIN NoRows -> Item]
BY DEF NoRows

LEMMA NoItemType == NoItem \in Item
<1>1. 0 \in 0 .. MaxJobs /\ 0 \in 0 .. MaxRetries
  OBVIOUS
<1> QED
  BY <1>1 DEF NoItem, Item, ItemStates

(* A row written over a row.                                                *)
LEMMA RowType ==
  ASSUME NEW row \in Item
  PROVE  /\ \A state \in ItemStates : [row EXCEPT !.state = state] \in Item
         /\ \A state \in ItemStates :
              /\ [row EXCEPT !.state = state, !.wait = TRUE] \in Item
              /\ [row EXCEPT !.state = state, !.wait = TRUE, !.old = FALSE] \in Item
         /\ [row EXCEPT !.wait = FALSE] \in Item /\ [row EXCEPT !.old = TRUE] \in Item
         /\ \A state \in ItemStates, job \in 0 .. MaxJobs :
              [row EXCEPT !.state = state, !.job = job] \in Item
         /\ \A retry \in {"", "set", "past"} : [row EXCEPT !.retry = retry] \in Item
         /\ \A tries \in 0 .. MaxRetries : [row EXCEPT !.retry = "", !.tries = tries] \in Item
         /\ [row EXCEPT !.decided = TRUE] \in Item
BY DEF Item

LEMMA AsType ==
  ASSUME NEW state \in ItemStates
  PROVE  As(state) \in Item /\ As(state).state = state /\ As(state).tries = 0
<1>1. NoItem \in Item
  BY NoItemType
<1>2. NoItem.tries = 0
  BY DEF NoItem
<1> QED
  BY <1>1, <1>2 DEF Item, As

LEMMA NotedType ==
  ASSUME NEW fresh \in SUBSET Videos
  PROVE  /\ DOMAIN ToInsert(fresh) = fresh /\ ToInsert(fresh) \in [DOMAIN ToInsert(fresh) -> Item]
         /\ \A v \in fresh : /\ ToInsert(fresh)[v].state \in {"baseline", "new", "skipped"}
                             /\ ToInsert(fresh)[v].tries = 0
                             /\ watch.looked = "never" => ToInsert(fresh)[v].state = "baseline"
BY AsType DEF ToInsert, ItemStates

(* What a look is about to record, and what it notes.                       *)
LEMMA LookIs ==
  ASSUME ChannelOK, ItemsOK, Look
  PROVE  \E fresh \in SUBSET Videos :
           /\ tick' = [Idle EXCEPT !.at = "noting", !.rows = ToInsert(fresh)]
           /\ \A v \in fresh : items[v].state = "none"
           /\ noted' = noted \/ watch.looked = "never"
           /\ noted' \subseteq Videos
           /\ watch.looked = "never" =>
                \A v \in noted' : items[v].state = "none" => v \in fresh
<1>1. PICK listing \in SUBSET (1 .. posted) :
        /\ tick' = [Idle EXCEPT !.at = "noting", !.rows = ToInsert(Unknown(listing))]
        /\ noted' = IF watch.looked = "never" THEN listing \cup (Videos \ Unknown(Videos)) ELSE noted
  BY DEF Look
<1>2. listing \in SUBSET Videos
  BY DEF ChannelOK, Videos
<1>3. /\ Unknown(listing) \in SUBSET Videos
      /\ \A v \in Unknown(listing) : items[v].state = "none"
      /\ \A v \in listing : items[v].state = "none" => v \in Unknown(listing)
      /\ \A v \in Videos : items[v].state = "none" => v \in Unknown(Videos)
  BY <1>2 DEF Unknown
<1>4. noted' \subseteq Videos /\ (noted' = noted \/ watch.looked = "never")
  BY <1>1, <1>2 DEF ChannelOK
<1>5. watch.looked = "never" => \A v \in noted' : items[v].state = "none" => v \in Unknown(listing)
  BY <1>1, <1>2, <1>3
<1> QED
  BY <1>1, <1>3, <1>4, <1>5

-----------------------------------------------------------------------------
LEMMA InitTypes == Init => Types
BY NoItemType, NoRowsRead
   DEF Init, Types, ChannelOK, WatchOK, ItemsOK, JobsOK, JobRow, Statuses, ReadOK, Places, InHandOK,
       PersonOK, HistoryOK, Idle, Nobody, NoJob, Videos

(* What one step does to the types, a variable at a time.                   *)
LEMMA ItemWritten ==
  ASSUME ItemsOK, NEW v \in Videos, NEW row \in Item, SetItem(v, row), UNCHANGED done
  PROVE  ItemsOK'
BY DEF ItemsOK, SetItem

LEMMA JobWritten ==
  ASSUME JobsOK, NEW j \in JobIds, NEW row \in JobRow, row.video \in Videos,
         jobs' = [jobs EXCEPT ![j] = row]
  PROVE  JobsOK'
BY DEF JobsOK

LEMMA StatusWritten ==
  ASSUME JobsOK, NEW j \in JobIds, NEW status \in Statuses, jobs[j].status # "none",
         jobs' = [jobs EXCEPT ![j].status = status]
  PROVE  JobsOK'
<1> DEFINE row == [jobs[j] EXCEPT !.status = status]
<1>1. row \in JobRow /\ row.video = jobs[j].video
  BY DEF JobsOK, JobRow
<1>2. jobs' = [jobs EXCEPT ![j] = row]
  BY DEF JobsOK
<1>3. jobs[j].video \in Videos
  BY DEF JobsOK
<1> QED
  BY <1>1, <1>2, <1>3, JobWritten

(* The thread holds rows and a video, begins a part of its pass with the     *)
(* rows it reads, or is done with one of them.                              *)
LEMMA TickMoves ==
  ASSUME NEW at \in Places, NEW rows, NEW video \in 0 .. MaxVideos,
         NEW job \in 0 .. MaxJobs, DOMAIN rows \subseteq Videos, rows \in [DOMAIN rows -> Item],
         tick' = [at |-> at, rows |-> rows, video |-> video, job |-> job],
         at \in {"asking", "linking", "clipped", "counting"} => video \in Videos,
         at = "counting" => video \in DOMAIN rows /\ rows[video].tries < MaxRetries
  PROVE  ReadOK' /\ InHandOK'
BY DEF ReadOK, InHandOK

LEMMA TickBegins ==
  ASSUME NEW at \in {"noting", "checking", "queueing", "retrying", "deciding"}, NEW rows,
         DOMAIN rows \subseteq Videos, rows \in [DOMAIN rows -> Item],
         tick' = [Idle EXCEPT !.at = at, !.rows = rows]
  PROVE  ReadOK' /\ InHandOK'
<1>1. tick' = [at |-> at, rows |-> rows, video |-> 0, job |-> 0]
  BY DEF Idle
<1>2. 0 \in 0 .. MaxVideos /\ 0 \in 0 .. MaxJobs
  OBVIOUS
<1>3. at \in Places /\ at \notin {"asking", "linking", "clipped", "counting"}
  BY DEF Places
<1>4. at # "counting"
  OBVIOUS
<1> QED
  BY <1>1, <1>2, <1>3, <1>4, TickMoves

LEMMA RowDone ==
  ASSUME ReadOK, InHandOK, NEW v, tick.at \notin {"asking", "linking", "clipped", "counting"},
         tick' = [tick EXCEPT !.rows = Rest(@, v)]
  PROVE  ReadOK' /\ InHandOK'
<1> DEFINE rows == Rest(tick.rows, v)
<1>1. DOMAIN rows \subseteq Videos /\ rows \in [DOMAIN rows -> Item]
  <2>1. DOMAIN tick.rows \subseteq Videos /\ tick.rows \in [DOMAIN tick.rows -> Item]
    BY DEF ReadOK
  <2>2. /\ DOMAIN Rest(tick.rows, v) = DOMAIN tick.rows \ {v}
        /\ Rest(tick.rows, v) \in [DOMAIN Rest(tick.rows, v) -> Item]
    BY <2>1, RowsLeft, Zenon
  <2> QED
    BY <2>1, <2>2
<1>2. tick' = [at |-> tick.at, rows |-> rows, video |-> tick.video, job |-> tick.job]
  BY DEF ReadOK
<1> HIDE DEF rows
<1> QED
  BY <1>1, <1>2, TickMoves DEF ReadOK, InHandOK

LEMMA TickRests == tick' = Idle => ReadOK' /\ InHandOK'
<1>1. SUFFICES ASSUME tick' = Idle PROVE ReadOK' /\ InHandOK'
  OBVIOUS
<1>2. tick' = [at |-> "idle", rows |-> NoRows, video |-> 0, job |-> 0]
  BY <1>1 DEF Idle
<1>3. 0 \in 0 .. MaxVideos /\ 0 \in 0 .. MaxJobs /\ "idle" \in Places
  BY DEF Places
<1>4. DOMAIN NoRows \subseteq Videos /\ NoRows \in [DOMAIN NoRows -> Item]
  BY NoRowsRead
<1> QED
  BY <1>2, <1>3, <1>4, TickMoves

(* A part whose variables stay is kept.                                     *)
LEMMA Still ==
  ASSUME Types
  PROVE  /\ UNCHANGED <<posted, noted>> => ChannelOK'
         /\ UNCHANGED watch => WatchOK'
         /\ UNCHANGED <<items, done>> => ItemsOK'
         /\ UNCHANGED jobs => JobsOK'
         /\ UNCHANGED tick => ReadOK' /\ InHandOK'
         /\ UNCHANGED person => PersonOK'
         /\ UNCHANGED <<asked, queued, stops>> => HistoryOK'
BY DEF Types, ChannelOK, WatchOK, ItemsOK, JobsOK, ReadOK, InHandOK, PersonOK, HistoryOK

(* The watcher's own steps.                                                 *)
LEMMA WatcherTypes ==
  ASSUME Types, Watcher
  PROVE  Types'
<1> USE DEF table, history
<1>a. /\ ItemsOK /\ JobsOK /\ ReadOK /\ InHandOK /\ WatchOK /\ HistoryOK /\ ChannelOK
      /\ tick.video \in 0 .. MaxVideos /\ tick.job \in 0 .. MaxJobs
      /\ DOMAIN tick.rows \subseteq Videos /\ tick.rows \in [DOMAIN tick.rows -> Item]
      /\ \A v \in Videos : items[v] \in Item
  BY DEF Types, InHandOK, ReadOK, ItemsOK
<1>b. \A v : /\ DOMAIN Rest(tick.rows, v) \subseteq Videos
             /\ Rest(tick.rows, v) \in [DOMAIN Rest(tick.rows, v) -> Item]
  <2>1. ASSUME NEW v
        PROVE  /\ DOMAIN Rest(tick.rows, v) = DOMAIN tick.rows \ {v}
               /\ Rest(tick.rows, v) \in [DOMAIN Rest(tick.rows, v) -> Item]
    BY <1>a, RowsLeft, Zenon
  <2> QED
    BY <1>a, <2>1
<1>c. \A states : /\ DOMAIN In(states) \subseteq Videos
                  /\ In(states) \in [DOMAIN In(states) -> Item]
  BY <1>a, RowsRead, Zenon
<1>1. CASE Look
  <2>1. PICK fresh \in SUBSET Videos :
          /\ tick' = [Idle EXCEPT !.at = "noting", !.rows = ToInsert(fresh)]
          /\ noted' \subseteq Videos
    BY <1>1, <1>a, LookIs
  <2>2. DOMAIN ToInsert(fresh) = fresh /\ ToInsert(fresh) \in [DOMAIN ToInsert(fresh) -> Item]
    BY NotedType
  <2>3. DOMAIN ToInsert(fresh) \subseteq Videos
    BY <2>2
  <2>4. ReadOK' /\ InHandOK'
    BY <2>1, <2>2, <2>3, TickBegins
  <2>5. ChannelOK'
    BY <1>1, <1>a, <2>1 DEF Look, ChannelOK, Videos
  <2> QED
    BY <1>1, <2>4, <2>5, Still DEF Look, Types, HistoryOK
<1>2. CASE Insert
  <2>1. PICK v \in First(tick.rows) : /\ SetItem(v, tick.rows[v])
                                      /\ tick' = [tick EXCEPT !.rows = Rest(@, v)]
    BY <1>2 DEF Insert
  <2>2. v \in DOMAIN tick.rows
    BY DEF First, Newest
  <2>3. v \in Videos /\ tick.rows[v] \in Item /\ UNCHANGED done
    BY <1>2, <1>a, <2>2 DEF Insert
  <2>4. ItemsOK'
    BY <1>a, <2>1, <2>3, ItemWritten
  <2>5. ReadOK' /\ InHandOK'
    BY <1>2, <1>a, <2>1, RowDone DEF Insert
  <2> QED
    BY <1>2, <2>4, <2>5, Still DEF Insert, Types
<1>3. CASE Looked
  <2>1. ReadOK' /\ InHandOK'
    BY <1>3, <1>c, TickBegins DEF Looked
  <2>2. WatchOK'
    BY <1>3, <1>a DEF Looked, WatchOK
  <2> QED
    BY <1>3, <2>1, <2>2, Still DEF Looked, Types
<1>4. CASE Answer
  <2>1. tick.video \in Videos
    BY <1>4, <1>a DEF Answer, InHandOK
  <2>2. items[tick.video] \in Item
    BY <1>a, <2>1
  <2>3. PICK row \in Item : SetItem(tick.video, row)
    BY <1>4, <2>2, RowType DEF Answer, ItemStates
  <2>4. ItemsOK'
    BY <1>4, <1>a, <2>1, <2>3, ItemWritten DEF Answer
  <2>5. tick' = [at |-> "checking", rows |-> tick.rows, video |-> 0, job |-> tick.job]
    BY <1>4, <1>a DEF Answer, ReadOK
  <2>6. 0 \in 0 .. MaxVideos /\ "checking" \in Places
    BY DEF Places
  <2>7. ReadOK' /\ InHandOK'
    BY <1>a, <2>5, <2>6, TickMoves
  <2> QED
    BY <1>4, <2>4, <2>7, Still DEF Answer, Types
<1>5. CASE Checked
  <2>1. ReadOK' /\ InHandOK'
    BY <1>5, <1>c, TickBegins DEF Checked
  <2> QED
    BY <1>5, <2>1, Still DEF Checked, Types
<1>6. CASE Link
  <2>1. tick.video \in Videos
    BY <1>6, <1>a DEF Link, InHandOK
  <2>2. items[tick.video] \in Item
    BY <1>a, <2>1
  <2>3. PICK row \in Item : SetItem(tick.video, row)
    BY <1>6, <1>a, <2>2, RowType DEF Link, Queued, ItemStates
  <2>4. ItemsOK'
    BY <1>6, <1>a, <2>1, <2>3, ItemWritten DEF Link
  <2>5. tick' = [at |-> "queueing", rows |-> Rest(tick.rows, tick.video), video |-> 0, job |-> 0]
    BY <1>6, <1>a DEF Link, ReadOK
  <2>6. 0 \in 0 .. MaxVideos /\ 0 \in 0 .. MaxJobs /\ "queueing" \in Places
    BY DEF Places
  <2>7. ReadOK' /\ InHandOK'
    BY <1>b, <2>5, <2>6, TickMoves
  <2> QED
    BY <1>6, <2>4, <2>7, Still DEF Link, Types
<1>7. CASE QueuedAll
  <2>1. ReadOK' /\ InHandOK'
    BY <1>7, <1>c, TickBegins DEF QueuedAll
  <2> QED
    BY <1>7, <2>1, Still DEF QueuedAll, Types
<1>8. CASE Count
  <2>1. tick.video \in Videos /\ tick.video \in DOMAIN tick.rows
        /\ tick.rows[tick.video].tries < MaxRetries
    BY <1>8, <1>a DEF Count, InHandOK
  <2>2. items[tick.video] \in Item /\ tick.rows[tick.video] \in Item
    BY <1>a, <2>1
  <2>3. tick.rows[tick.video].tries \in 0 .. MaxRetries
    BY <2>2 DEF Item
  <2>4. tick.rows[tick.video].tries + 1 \in 0 .. MaxRetries
    BY <2>1, <2>3
  <2>5. Counted(tick.video) \in Item
    BY <2>2, <2>4, RowType DEF Counted
  <2>6. ItemsOK'
    BY <1>8, <1>a, <2>1, <2>5, ItemWritten DEF Count
  <2>7. tick' = [at |-> "retrying", rows |-> Rest(tick.rows, tick.video), video |-> 0,
                 job |-> tick.job]
    BY <1>8, <1>a DEF Count, ReadOK
  <2>8. 0 \in 0 .. MaxVideos /\ "retrying" \in Places
    BY DEF Places
  <2>9. ReadOK' /\ InHandOK'
    BY <1>a, <1>b, <2>7, <2>8, TickMoves
  <2> QED
    BY <1>8, <2>6, <2>9, Still DEF Count, Types
<1>9. CASE Retried
  <2>1. ReadOK' /\ InHandOK'
    BY <1>9, <1>c, TickBegins DEF Retried
  <2> QED
    BY <1>9, <2>1, Still DEF Retried, Types
<1>10. CASE Decided
  BY <1>10, TickRests, Still DEF Decided, Types
<1>11. ASSUME NEW v \in Videos, GiveUp(v) PROVE Types'
  <2>1. [items[v] EXCEPT !.state = "skipped"] \in Item
    BY <1>a, RowType DEF ItemStates
  <2>2. ItemsOK'
    BY <1>11, <1>a, <2>1, ItemWritten DEF GiveUp
  <2>3. ReadOK' /\ InHandOK'
    BY <1>11, <1>a, RowDone DEF GiveUp
  <2> QED
    BY <1>11, <2>2, <2>3, Still DEF GiveUp, Types
<1>12. ASSUME NEW v \in Videos, Ask(v) PROVE Types'
  <2>1. tick' = [at |-> "asking", rows |-> Rest(tick.rows, v), video |-> v, job |-> tick.job]
    BY <1>12, <1>a DEF Ask, ReadOK
  <2>2. v \in 0 .. MaxVideos /\ "asking" \in Places
    BY DEF Places, Videos
  <2>3. ReadOK' /\ InHandOK'
    BY <1>a, <1>b, <2>1, <2>2, TickMoves
  <2> QED
    BY <1>12, <2>3, Still DEF Ask, Types
<1>13. ASSUME NEW v \in Videos, Enqueue(v) PROVE Types'
  <2>0. v \in DOMAIN tick.rows /\ tick.at = "queueing"
    BY <1>13 DEF Enqueue
  <2>1. v \in 0 .. MaxVideos /\ "linking" \in Places /\ "clipped" \in Places /\ "queueing" \in Places
    BY DEF Places, Videos
  <2>2. ReadOK' /\ InHandOK'
    <3>1. CASE tick' = [tick EXCEPT !.at = "clipped", !.video = v]
      <4>1. tick' = [at |-> "clipped", rows |-> tick.rows, video |-> v, job |-> tick.job]
        BY <1>a, <3>1 DEF ReadOK
      <4> QED
        BY <1>a, <2>1, <4>1, TickMoves
    <3>2. ASSUME NEW j \in JobIds, tick' = [tick EXCEPT !.at = "linking", !.video = v, !.job = j]
          PROVE  ReadOK' /\ InHandOK'
      <4>1. tick' = [at |-> "linking", rows |-> tick.rows, video |-> v, job |-> j]
        BY <1>a, <3>2 DEF ReadOK
      <4>2. j \in 0 .. MaxJobs
        BY DEF JobIds
      <4> QED
        BY <1>a, <2>1, <4>1, <4>2, TickMoves
    <3>3. CASE tick' = [tick EXCEPT !.rows = NoRows]
      <4>1. tick' = [at |-> "queueing", rows |-> NoRows, video |-> tick.video, job |-> tick.job]
        BY <1>a, <2>0, <3>3 DEF ReadOK
      <4>2. DOMAIN NoRows \subseteq Videos /\ NoRows \in [DOMAIN NoRows -> Item]
        BY NoRowsRead
      <4> QED
        BY <1>a, <2>1, <4>1, <4>2, TickMoves
    <3> QED
      BY <1>13, <3>1, <3>2, <3>3 DEF Enqueue, LiveJobs, Free
  <2>3. JobsOK' /\ HistoryOK'
    <3>1. CASE UNCHANGED <<jobs, queued>>
      BY <1>13, <3>1, Still DEF Enqueue
    <3>2. ASSUME NEW j \in Free, jobs' = [jobs EXCEPT ![j] = [video |-> v, status |-> "queued"]],
                 queued' = [queued EXCEPT ![v] = @ + 1]
          PROVE  JobsOK' /\ HistoryOK'
      <4>1. [video |-> v, status |-> "queued"] \in JobRow /\ j \in JobIds
        BY <2>1 DEF JobRow, Statuses, Free
      <4>2. JobsOK'
        BY <1>a, <3>2, <4>1, JobWritten
      <4>3. UNCHANGED <<asked, stops>>
        BY <1>13 DEF Enqueue
      <4>4. queued' \in [Videos -> Nat]
        BY <1>a, <3>2 DEF HistoryOK
      <4>5. HistoryOK'
        BY <1>a, <4>3, <4>4 DEF HistoryOK
      <4> QED
        BY <4>2, <4>5
    <3> QED
      BY <1>13, <3>1, <3>2 DEF Enqueue
  <2> QED
    BY <1>13, <2>2, <2>3, Still DEF Enqueue, Types
<1>14. ASSUME NEW v \in Videos, Delay(v) PROVE Types'
  <2>1. [items[v] EXCEPT !.retry = "set"] \in Item
    BY <1>a, RowType
  <2>2. ItemsOK'
    BY <1>14, <1>a, <2>1, ItemWritten DEF Delay
  <2>3. ReadOK' /\ InHandOK'
    BY <1>14, <1>a, RowDone DEF Delay
  <2> QED
    BY <1>14, <2>2, <2>3, Still DEF Delay, Types
<1>15. ASSUME NEW v \in Videos, Retry(v) PROVE Types'
  <2>1. v \in DOMAIN tick.rows /\ tick.rows[v].tries < MaxRetries /\ JobStatus(v) = "failed"
    BY <1>15 DEF Retry, Due, Failed
  <2>2. items[v].job \in JobIds /\ jobs[items[v].job].status # "none"
    <3>1. items[v].job \in 0 .. MaxJobs
      BY <1>a DEF Item
    <3>2. items[v].job # 0 /\ jobs[items[v].job].status = "failed"
      BY <2>1 DEF JobStatus
    <3> QED
      BY <3>1, <3>2 DEF JobIds
  <2>3. JobsOK'
    BY <1>15, <1>a, <2>2, StatusWritten DEF Retry, Statuses
  <2>4. tick' = [at |-> "counting", rows |-> tick.rows, video |-> v, job |-> tick.job]
    BY <1>15, <1>a DEF Retry, ReadOK
  <2>5. v \in 0 .. MaxVideos /\ "counting" \in Places
    BY DEF Places, Videos
  <2>6. ReadOK' /\ InHandOK'
    BY <1>a, <2>1, <2>4, <2>5, TickMoves
  <2>7. HistoryOK'
    BY <1>15, <1>a DEF Retry, HistoryOK
  <2> QED
    BY <1>15, <2>3, <2>6, <2>7, Still DEF Retry, Types
<1>16. ASSUME NEW v \in Videos, Decide(v) PROVE Types'
  <2>1. [items[v] EXCEPT !.decided = TRUE] \in Item
    BY <1>a, RowType
  <2>2. ItemsOK'
    BY <1>16, <1>a, <2>1, ItemWritten DEF Decide
  <2>3. ReadOK' /\ InHandOK'
    BY <1>16, <1>a, RowDone DEF Decide
  <2> QED
    BY <1>16, <2>2, <2>3, Still DEF Decide, Types
<1> QED
  BY <1>1, <1>2, <1>3, <1>4, <1>5, <1>6, <1>7, <1>8, <1>9, <1>10, <1>11, <1>12, <1>13, <1>14,
     <1>15, <1>16 DEF Watcher

(* The worker's, a person's and time's.                                     *)
LEMMA OtherTypes ==
  ASSUME Types,
         \/ Work \/ UseQueue \/ Press \/ ClipThis \/ Skip \/ Switch \/ Post \/ TimePasses
         \/ Restart \/ \E v \in Videos : WeekPasses(v)
  PROVE  Types'
<1> USE DEF table, history
<1>a. /\ ItemsOK /\ JobsOK /\ WatchOK /\ HistoryOK /\ ChannelOK /\ PersonOK
      /\ \A v \in Videos : items[v] \in Item
      /\ \A j \in JobIds : jobs[j].status # "none" => jobs[j].video \in Videos
  BY DEF Types, ItemsOK, JobsOK
<1>1. CASE Work
  <2>1. PICK j \in JobIds :
          \/ /\ jobs[j].status = "queued" /\ jobs' = [jobs EXCEPT ![j].status = "running"]
             /\ UNCHANGED done
          \/ /\ jobs[j].status = "running" /\ jobs' = [jobs EXCEPT ![j].status = "done"]
             /\ done' = done \cup {jobs[j].video}
          \/ /\ jobs[j].status = "running" /\ jobs' = [jobs EXCEPT ![j].status = "failed"]
             /\ UNCHANGED done
    BY <1>1 DEF Work
  <2>2. jobs[j].status # "none" /\ jobs[j].video \in Videos
    BY <1>a, <2>1
  <2>3. JobsOK'
    BY <1>a, <2>1, <2>2, StatusWritten DEF Statuses
  <2>4. items' = items /\ done' \subseteq Videos
    BY <1>1, <1>a, <2>1, <2>2 DEF Work, ItemsOK
  <2>5. ItemsOK'
    BY <1>a, <2>4 DEF ItemsOK
  <2> QED
    BY <1>1, <2>3, <2>5, Still DEF Work, Types
<1>2. CASE UseQueue
  <2>1. PICK j \in JobIds :
          \/ \E status \in {"gone", "cancelled", "queued"} :
               jobs[j].status # "none" /\ jobs' = [jobs EXCEPT ![j].status = status]
          \/ \E v \in 1 .. posted : jobs' = [jobs EXCEPT ![j] = [video |-> v, status |-> "queued"]]
    BY <1>2 DEF UseQueue
  <2>2. CASE \E status \in {"gone", "cancelled", "queued"} :
               jobs[j].status # "none" /\ jobs' = [jobs EXCEPT ![j].status = status]
    <3>1. JobsOK'
      BY <1>a, <2>2, StatusWritten DEF Statuses
    <3> QED
      BY <1>2, <3>1, Still DEF UseQueue, Types
  <2>3. ASSUME NEW v \in 1 .. posted, jobs' = [jobs EXCEPT ![j] = [video |-> v, status |-> "queued"]]
        PROVE  Types'
    <3>1. v \in Videos /\ v \in 0 .. MaxVideos
      BY <1>a DEF ChannelOK, Videos
    <3>2. [video |-> v, status |-> "queued"] \in JobRow
      BY <3>1 DEF JobRow, Statuses
    <3>3. JobsOK'
      BY <1>a, <2>3, <3>1, <3>2, JobWritten
    <3> QED
      BY <1>2, <3>3, Still DEF UseQueue, Types
  <2> QED
    BY <2>1, <2>2, <2>3
<1>3. CASE Press
  <2>1. \A v \in Videos : v \in 0 .. MaxVideos
    BY DEF Videos
  <2>2. PICK v \in Videos : \/ person' = [does |-> "clip", video |-> v]
                            \/ person' = [does |-> "skip", video |-> v]
    BY <1>3 DEF Press
  <2>3. PersonOK'
    BY <2>1, <2>2 DEF PersonOK
  <2> QED
    BY <1>3, <2>3, Still DEF Press, Types
<1>b. person' = Nobody => PersonOK'
  <2>1. 0 \in 0 .. MaxVideos
    OBVIOUS
  <2> QED
    BY <2>1 DEF PersonOK, Nobody
<1>4. CASE ClipThis
  <2>1. person.video \in Videos /\ person' = Nobody
    BY <1>4, <1>a DEF ClipThis, PersonOK
  <2>2. items[person.video] \in Item
    BY <1>a, <2>1
  <2>3. ItemsOK'
    <3>1. CASE UNCHANGED items
      BY <1>4, <3>1, Still DEF ClipThis
    <3>2. CASE \E row \in Item : SetItem(person.video, row)
      BY <1>4, <1>a, <2>1, <3>2, ItemWritten DEF ClipThis
    <3> QED
      BY <1>4, <2>2, <3>1, <3>2, RowType DEF ClipThis, ItemStates
  <2>4. HistoryOK'
    <3>1. UNCHANGED <<queued, stops>>
      BY <1>4 DEF ClipThis
    <3>2. asked' \in [Videos -> Nat]
      BY <1>4, <1>a DEF ClipThis, HistoryOK
    <3> QED
      BY <1>a, <3>1, <3>2 DEF HistoryOK
  <2> QED
    BY <1>4, <1>b, <2>1, <2>3, <2>4, Still DEF ClipThis, Types
<1>5. CASE Skip
  <2>1. person.video \in Videos /\ person' = Nobody
    BY <1>5, <1>a DEF Skip, PersonOK
  <2>2. [items[person.video] EXCEPT !.state = "skipped"] \in Item
    BY <1>a, <2>1, RowType DEF ItemStates
  <2>3. ItemsOK'
    BY <1>5, <1>a, <2>1, <2>2, ItemWritten DEF Skip
  <2> QED
    BY <1>5, <1>b, <2>1, <2>3, Still DEF Skip, Types
<1>6. CASE Switch
  <2>1. WatchOK'
    BY <1>6, <1>a DEF Switch, WatchOK
  <2> QED
    BY <1>6, <2>1, Still DEF Switch, Types
<1>7. CASE Post
  <2>1. ChannelOK'
    BY <1>7, <1>a DEF Post, ChannelOK
  <2> QED
    BY <1>7, <2>1, Still DEF Post, Types
<1>8. CASE TimePasses
  <2>1. PICK v \in Videos : \/ SetItem(v, [items[v] EXCEPT !.wait = FALSE])
                            \/ SetItem(v, [items[v] EXCEPT !.retry = "past"])
    BY <1>8 DEF TimePasses
  <2>2. PICK row \in Item : SetItem(v, row)
    BY <1>a, <2>1, RowType
  <2>3. ItemsOK'
    BY <1>8, <1>a, <2>2, ItemWritten DEF TimePasses
  <2> QED
    BY <1>8, <2>3, Still DEF TimePasses, Types
<1>9. ASSUME NEW v \in Videos, WeekPasses(v) PROVE Types'
  <2>1. [items[v] EXCEPT !.old = TRUE] \in Item
    BY <1>a, RowType
  <2>2. ItemsOK'
    BY <1>9, <1>a, <2>1, ItemWritten DEF WeekPasses
  <2> QED
    BY <1>9, <2>2, Still DEF WeekPasses, Types
<1>10. CASE Restart
  <2>1. /\ tick' = Idle /\ person' = Nobody /\ stops' = stops + 1 /\ UNCHANGED <<asked, queued>>
        /\ jobs' = [j \in JobIds |->
                     [jobs[j] EXCEPT !.status = IF @ = "running" THEN "queued" ELSE @]]
    BY <1>10 DEF Restart
  <2>2. WatchOK'
    BY <1>10, <1>a DEF Restart, WatchOK
  <2>3. JobsOK'
    <3>1. ASSUME NEW j \in JobIds
          PROVE  /\ jobs'[j] \in JobRow /\ jobs'[j].video = jobs[j].video
                 /\ jobs'[j].status # "none" => jobs[j].status # "none"
      <4>1. jobs[j] \in JobRow
        BY <1>a DEF JobsOK
      <4> QED
        BY <2>1, <4>1 DEF JobRow, Statuses
    <3> QED
      BY <1>a, <2>1, <3>1 DEF JobsOK
  <2>4. HistoryOK'
    BY <1>a, <2>1 DEF HistoryOK
  <2> QED
    BY <1>10, <1>b, <2>1, <2>2, <2>3, <2>4, TickRests, Still DEF Restart, Types
<1> QED
  BY <1>1, <1>2, <1>3, <1>4, <1>5, <1>6, <1>7, <1>8, <1>9, <1>10

LEMMA NextTypes == Types /\ [Next]_vars => Types'
<1>1. CASE UNCHANGED vars
  BY <1>1, Still DEF vars, table, history, Types
<1> QED
  BY <1>1, WatcherTypes, OtherTypes DEF Next

(* Every variable keeps its type, and whoever is inside a look or a write has *)
(* a video, a row or an address in hand.                                     *)
THEOREM TypesHold == Spec => []Types
<1> QED
  BY InitTypes, NextTypes, PTL DEF Spec

(* Every variable holds what its column or object may hold.                 *)
THEOREM TypeCorrect == Spec => []TypeOK
<1>1. Types => TypeOK
  BY DEF Types, TypeOK, ChannelOK, WatchOK, ItemsOK, JobsOK, JobRow, Statuses, ReadOK, Places, InHandOK,
         PersonOK
<1> QED
  BY <1>1, TypesHold, PTL

-----------------------------------------------------------------------------
(* What the steps do, in the words of the invariants: the row of one item,  *)
(* and the three fields of the thread.                                      *)
LEMMA RowIs ==
  ASSUME ItemsOK, NEW v \in Videos, NEW row, SetItem(v, row)
  PROVE  items'[v] = row /\ \A u \in Videos \ {v} : items'[u] = items[u]
BY DEF ItemsOK, SetItem

LEMMA TickIs ==
  ASSUME Types, Watcher
  PROVE  /\ Look => tick.at = "idle" /\ tick'.at = "noting"
         /\ Insert => /\ tick.at = "noting" /\ tick'.at = "noting" /\ tick'.video = tick.video
                      /\ \E v \in DOMAIN tick.rows : /\ SetItem(v, tick.rows[v])
                                                     /\ tick'.rows = Rest(tick.rows, v)
         /\ Looked => /\ tick.at = "noting" /\ tick.rows = NoRows
                      /\ tick'.at = "checking" /\ tick'.rows = In({"new", "not_ready"})
         /\ Answer => /\ tick.at = "asking" /\ tick'.at = "checking" /\ tick'.rows = tick.rows
                      /\ tick'.video = 0
         /\ Checked => tick.at = "checking" /\ tick'.at = "queueing" /\ tick'.rows = In({"waiting"})
         /\ Link => /\ tick.at \in {"linking", "clipped"} /\ tick'.at = "queueing"
                    /\ tick'.rows = Rest(tick.rows, tick.video) /\ tick'.video = 0
         /\ QueuedAll => tick.at = "queueing" /\ tick'.at = "retrying" /\ tick'.rows = In({"queued"})
         /\ Count => /\ tick.at = "counting" /\ tick'.at = "retrying"
                     /\ tick'.rows = Rest(tick.rows, tick.video) /\ tick'.video = 0
         /\ Retried => tick.at = "retrying" /\ tick'.at = "deciding" /\ tick'.rows = In({"queued"})
         /\ \A v \in Videos :
              /\ GiveUp(v) \/ Delay(v) \/ Decide(v) =>
                   /\ tick.at \in {"checking", "retrying", "deciding"} /\ tick'.at = tick.at
                   /\ GiveUp(v) => tick.at = "checking"
                   /\ v \in DOMAIN tick.rows
                   /\ tick'.rows = Rest(tick.rows, v) /\ tick'.video = tick.video
              /\ Ask(v) => /\ tick.at = "checking" /\ v \in DOMAIN tick.rows
                           /\ tick'.at = "asking" /\ tick'.rows = Rest(tick.rows, v) /\ tick'.video = v
              /\ Retry(v) => /\ tick.at = "retrying" /\ v \in DOMAIN tick.rows
                             /\ tick'.at = "counting" /\ tick'.rows = tick.rows /\ tick'.video = v
              /\ Enqueue(v) =>
                   /\ tick.at = "queueing" /\ v \in DOMAIN tick.rows
                   /\ \/ /\ tick'.at \in {"clipped", "linking"} /\ tick'.rows = tick.rows
                         /\ tick'.video = v /\ UNCHANGED queued
                      \/ tick'.at = "queueing" /\ tick'.rows = NoRows /\ UNCHANGED queued
                      \/ /\ tick'.at = "linking" /\ tick'.rows = tick.rows /\ tick'.video = v
                         /\ queued' = [queued EXCEPT ![v] = @ + 1]
<1>1. tick = [at |-> tick.at, rows |-> tick.rows, video |-> tick.video, job |-> tick.job]
  BY DEF Types, ReadOK
<1>2. \A rows : First(rows) \subseteq DOMAIN rows
  BY DEF First, Newest
<1>3. Look => tick.at = "idle" /\ tick'.at = "noting"
  BY DEF Look, Idle
<1>4. Insert => /\ tick.at = "noting" /\ tick'.at = "noting" /\ tick'.video = tick.video
                /\ \E v \in DOMAIN tick.rows : /\ SetItem(v, tick.rows[v])
                                               /\ tick'.rows = Rest(tick.rows, v)
  <2>1. SUFFICES ASSUME Insert
        PROVE  /\ tick.at = "noting" /\ tick'.at = "noting" /\ tick'.video = tick.video
               /\ \E v \in DOMAIN tick.rows : /\ SetItem(v, tick.rows[v])
                                              /\ tick'.rows = Rest(tick.rows, v)
    OBVIOUS
  <2>2. PICK v \in First(tick.rows) : /\ SetItem(v, tick.rows[v])
                                      /\ tick' = [tick EXCEPT !.rows = Rest(@, v)]
    BY <2>1 DEF Insert
  <2>3. v \in DOMAIN tick.rows /\ tick.at = "noting"
    BY <1>2, <2>1 DEF Insert
  <2>4. tick' = [at |-> tick.at, rows |-> Rest(tick.rows, v), video |-> tick.video, job |-> tick.job]
    BY <1>1, <2>2
  <2> QED
    BY <2>2, <2>3, <2>4
<1>5. Looked => /\ tick.at = "noting" /\ tick.rows = NoRows
                /\ tick'.at = "checking" /\ tick'.rows = In({"new", "not_ready"})
  BY DEF Looked, Idle
<1>6. Answer => /\ tick.at = "asking" /\ tick'.at = "checking" /\ tick'.rows = tick.rows
                /\ tick'.video = 0
  BY <1>1 DEF Answer
<1>7. Checked => tick.at = "checking" /\ tick'.at = "queueing" /\ tick'.rows = In({"waiting"})
  BY DEF Checked, Idle
<1>8. Link => /\ tick.at \in {"linking", "clipped"} /\ tick'.at = "queueing"
              /\ tick'.rows = Rest(tick.rows, tick.video) /\ tick'.video = 0
  BY <1>1 DEF Link
<1>9. QueuedAll => tick.at = "queueing" /\ tick'.at = "retrying" /\ tick'.rows = In({"queued"})
  BY DEF QueuedAll, Idle
<1>10. Count => /\ tick.at = "counting" /\ tick'.at = "retrying"
                /\ tick'.rows = Rest(tick.rows, tick.video) /\ tick'.video = 0
  BY <1>1 DEF Count
<1>11. Retried => tick.at = "retrying" /\ tick'.at = "deciding" /\ tick'.rows = In({"queued"})
  BY DEF Retried, Idle
<1>12. ASSUME NEW v \in Videos, GiveUp(v) \/ Delay(v) \/ Decide(v)
       PROVE  /\ tick.at \in {"checking", "retrying", "deciding"} /\ tick'.at = tick.at
              /\ GiveUp(v) => tick.at = "checking"
              /\ v \in DOMAIN tick.rows
              /\ tick'.rows = Rest(tick.rows, v) /\ tick'.video = tick.video
  BY <1>1, <1>12 DEF GiveUp, Delay, Decide, Unchecked, Due, Finished
<1>13. ASSUME NEW v \in Videos, Ask(v)
       PROVE  /\ tick.at = "checking" /\ v \in DOMAIN tick.rows
              /\ tick'.at = "asking" /\ tick'.rows = Rest(tick.rows, v) /\ tick'.video = v
  BY <1>1, <1>13 DEF Ask, Unchecked
<1>14. ASSUME NEW v \in Videos, Retry(v)
       PROVE  /\ tick.at = "retrying" /\ v \in DOMAIN tick.rows
              /\ tick'.at = "counting" /\ tick'.rows = tick.rows /\ tick'.video = v
  BY <1>1, <1>14 DEF Retry, Due
<1>15. ASSUME NEW v \in Videos, Enqueue(v)
       PROVE  /\ tick.at = "queueing" /\ v \in DOMAIN tick.rows
              /\ \/ /\ tick'.at \in {"clipped", "linking"} /\ tick'.rows = tick.rows
                    /\ tick'.video = v /\ UNCHANGED queued
                 \/ tick'.at = "queueing" /\ tick'.rows = NoRows /\ UNCHANGED queued
                 \/ /\ tick'.at = "linking" /\ tick'.rows = tick.rows /\ tick'.video = v
                    /\ queued' = [queued EXCEPT ![v] = @ + 1]
  BY <1>1, <1>15 DEF Enqueue
<1> QED
  BY <1>3, <1>4, <1>5, <1>6, <1>7, <1>8, <1>9, <1>10, <1>11, <1>12, <1>13, <1>14, <1>15

-----------------------------------------------------------------------------
(* Why the back catalogue stays: until a first look is recorded as done, no *)
(* video is started, and every video it listed without a row is among those *)
(* it is still to insert, as "baseline"; so no later look finds one of them *)
(* without a row, and none of the three kinds of row is ever read by the    *)
(* passes that start a video.                                               *)
Recorded(v) ==
  /\ items[v].state \in {"none", "baseline", "skipped"}
  /\ watch.looked # "never" => items[v].state # "none"
ToRecord(v) ==
  /\ v \in DOMAIN tick.rows => tick.at = "noting" /\ tick.rows[v].state = "baseline"
  /\ tick.at = "noting" /\ watch.looked = "never" /\ items[v].state = "none" /\ v \in noted =>
       v \in DOMAIN tick.rows
NotInHand(v) == tick.at \in {"asking", "linking", "clipped", "counting"} => tick.video # v
Noted(v) == v \in noted \/ watch.looked = "never"
CatalogueKept ==
  \A v \in Videos :
    asked[v] = 0 /\ Noted(v) => queued[v] = 0 /\ Recorded(v) /\ ToRecord(v) /\ NotInHand(v)

LEMMA InitCatalogue == Init => CatalogueKept
<1>1. SUFFICES ASSUME Init, NEW v \in Videos
               PROVE  queued[v] = 0 /\ Recorded(v) /\ ToRecord(v) /\ NotInHand(v)
  BY DEF CatalogueKept
<1>3. queued[v] = 0 /\ items[v].state = "none" /\ watch.looked = "never" /\ tick.at = "idle"
      /\ tick.rows = NoRows
  BY <1>1 DEF Init, NoItem, Idle
<1> QED
  BY <1>3, NoRowsRead DEF Recorded, ToRecord, NotInHand

(* Neither number of a video changes but by the actions that count it.      *)
LEMMA CountsKept ==
  ASSUME Types, Next, NEW v \in Videos
  PROVE  /\ asked'[v] = 0 => asked[v] = 0
         /\ queued'[v] = queued[v] \/ Enqueue(v) \/ Retry(v)
<1> USE DEF history, table
<1>a. asked[v] \in Nat /\ queued \in [Videos -> Nat]
  BY DEF Types, HistoryOK
<1>1. UNCHANGED asked \/ ClipThis
  BY DEF Next, Watcher, Work, UseQueue, Press, Skip, Switch, Post, TimePasses, WeekPasses, Restart,
         Look, Insert, Looked, Answer, Checked, Link, QueuedAll, Count, Retried, Decided, GiveUp, Ask,
         Enqueue, Delay, Retry, Decide
<1>2. ClipThis => (asked'[v] = 0 => asked[v] = 0)
  <2>1. SUFFICES ASSUME ClipThis, asked'[v] = 0 PROVE asked[v] = 0
    OBVIOUS
  <2>2. asked' = [asked EXCEPT ![person.video] = @ + 1] \/ asked' = asked
    BY <2>1 DEF ClipThis
  <2> QED
    BY <1>a, <2>1, <2>2 DEF Types, HistoryOK
<1>3. UNCHANGED queued \/ \E u \in Videos : Enqueue(u) \/ Retry(u)
  BY DEF Next, Watcher, Work, UseQueue, Press, ClipThis, Skip, Switch, Post, TimePasses, WeekPasses,
         Restart, Look, Insert, Looked, Answer, Checked, Link, QueuedAll, Count, Retried, Decided,
         GiveUp, Ask, Delay, Decide
<1>4. ASSUME NEW u \in Videos, Enqueue(u) \/ Retry(u), u # v PROVE queued'[v] = queued[v]
  <2>1. UNCHANGED queued \/ queued' = [queued EXCEPT ![u] = @ + 1]
    BY <1>4 DEF Enqueue, Retry
  <2> QED
    BY <1>a, <1>4, <2>1
<1> QED
  BY <1>1, <1>2, <1>3, <1>4

(* The watcher keeps it ...                                                 *)
LEMMA WatcherCatalogue ==
  ASSUME Types, Watcher, NEW v \in Videos, Noted(v)', Recorded(v), ToRecord(v), NotInHand(v)
  PROVE  Recorded(v)' /\ ToRecord(v)' /\ NotInHand(v)'
<1> USE DEF table, history
<1>a. /\ ItemsOK /\ ReadOK /\ InHandOK /\ WatchOK
      /\ \A u : /\ DOMAIN Rest(tick.rows, u) = DOMAIN tick.rows \ {u}
                /\ \A w \in DOMAIN Rest(tick.rows, u) : Rest(tick.rows, u)[w] = tick.rows[w]
      /\ DOMAIN NoRows = {}
  BY RowsLeft, NoRowsRead DEF Types, ReadOK
<1>b. \A states \in SUBSET ItemStates : v \in DOMAIN In(states) => items[v].state \in states
  BY <1>a, RowsRead
<1>c. {"new", "not_ready"} \in SUBSET ItemStates /\ {"waiting"} \in SUBSET ItemStates
      /\ {"queued"} \in SUBSET ItemStates
  BY DEF ItemStates
<1>d. /\ v \notin DOMAIN In({"new", "not_ready"}) /\ v \notin DOMAIN In({"waiting"})
      /\ v \notin DOMAIN In({"queued"})
  BY <1>b, <1>c DEF Recorded
(* A step that leaves the row of v and the first look as they are.           *)
<1>e. items'[v] = items[v] /\ UNCHANGED watch => Recorded(v)'
  BY DEF Recorded
<1>f. ~Look => UNCHANGED noted
  BY DEF Watcher, Insert, Looked, Answer, Checked, Link, QueuedAll, Count, Retried, Decided, GiveUp,
         Ask, Enqueue, Delay, Retry, Decide
<1>1. CASE Look
  <2>1. PICK fresh \in SUBSET Videos :
          /\ tick' = [Idle EXCEPT !.at = "noting", !.rows = ToInsert(fresh)]
          /\ \A u \in fresh : items[u].state = "none"
          /\ watch.looked = "never" => \A u \in noted' : items[u].state = "none" => u \in fresh
    BY <1>1, <1>a, LookIs DEF Types
  <2>2. tick'.at = "noting" /\ tick'.rows = ToInsert(fresh) /\ UNCHANGED <<items, watch>>
    BY <1>1, <2>1 DEF Look, Idle
  <2>3. /\ DOMAIN ToInsert(fresh) = fresh
        /\ v \in fresh /\ watch.looked = "never" => ToInsert(fresh)[v].state = "baseline"
    BY NotedType
  <2> QED
    BY <1>e, <2>1, <2>2, <2>3 DEF Recorded, ToRecord, NotInHand
<1>2. CASE Insert
  <2>1. PICK u \in DOMAIN tick.rows : SetItem(u, tick.rows[u]) /\ tick'.rows = Rest(tick.rows, u)
    BY <1>2, TickIs
  <2>2. u \in Videos /\ tick.at = "noting" /\ tick'.at = "noting" /\ UNCHANGED watch
    BY <1>2, <1>a, <2>1, TickIs DEF Insert, ReadOK
  <2>3. items'[u] = tick.rows[u] /\ (u # v => items'[v] = items[v])
    BY <1>a, <2>1, <2>2, RowIs
  <2>4. CASE u = v
    <3>1. items'[v].state = "baseline"
      BY <2>1, <2>2, <2>3, <2>4 DEF ToRecord
    <3>2. v \notin DOMAIN tick'.rows
      BY <1>a, <2>1, <2>4
    <3>3. Recorded(v)' /\ ToRecord(v)'
      BY <3>1, <3>2 DEF Recorded, ToRecord
    <3>4. NotInHand(v)'
      BY <2>2 DEF NotInHand
    <3> QED
      BY <3>3, <3>4
  <2>5. CASE u # v
    <3>1. Recorded(v)'
      BY <1>e, <2>2, <2>3, <2>5
    <3>2. (v \in DOMAIN tick.rows <=> v \in DOMAIN tick'.rows)
          /\ (v \in DOMAIN tick.rows => tick'.rows[v] = tick.rows[v])
      BY <1>a, <2>1, <2>5
    <3>3. items'[v] = items[v]
      BY <2>3, <2>5
    <3>4. UNCHANGED noted
      BY <1>2 DEF Insert
    <3>5. ToRecord(v)'
      BY <2>2, <3>2, <3>3, <3>4 DEF ToRecord
    <3>6. NotInHand(v)'
      BY <2>2 DEF NotInHand
    <3> QED
      BY <3>1, <3>5, <3>6
  <2> QED
    BY <2>4, <2>5
<1>3. CASE Looked
  <2>1. /\ tick.at = "noting" /\ tick.rows = NoRows /\ tick'.at = "checking"
        /\ tick'.rows = In({"new", "not_ready"}) /\ UNCHANGED items
    BY <1>3, TickIs DEF Looked
  <2>2. v \in noted
    BY <1>3 DEF Looked, Noted, Types, WatchOK
  <2>3. items[v].state # "none"
    BY <1>a, <2>1, <2>2 DEF Recorded, ToRecord
  <2> QED
    BY <1>d, <2>1, <2>3 DEF Recorded, ToRecord, NotInHand
<1>4. CASE Answer \/ Link \/ Count
  <2>1. /\ tick.at \in {"asking", "linking", "clipped", "counting"}
        /\ tick'.at \in {"checking", "queueing", "retrying"} /\ UNCHANGED watch
        /\ tick'.rows = tick.rows \/ tick'.rows = Rest(tick.rows, tick.video)
        /\ \E row : SetItem(tick.video, row)
    BY <1>4, TickIs DEF Answer, Link, Count
  <2>2. tick.video # v /\ tick.video \in Videos
    BY <1>a, <2>1 DEF NotInHand, InHandOK
  <2>3. items'[v] = items[v]
    BY <1>a, <2>1, <2>2, RowIs
  <2>4. v \notin DOMAIN tick'.rows
    <3>1. v \notin DOMAIN tick.rows
      BY <2>1 DEF ToRecord
    <3>2. DOMAIN Rest(tick.rows, tick.video) = DOMAIN tick.rows \ {tick.video}
      BY <1>a
    <3>3. tick'.rows = tick.rows \/ tick'.rows = Rest(tick.rows, tick.video)
      BY <2>1
    <3> QED
      BY ONLY <3>1, <3>2, <3>3
  <2> QED
    BY <1>e, <2>1, <2>3, <2>4 DEF ToRecord, NotInHand
<1>5. CASE Checked \/ QueuedAll \/ Retried
  <2>1. /\ tick'.at \in {"queueing", "retrying", "deciding"} /\ UNCHANGED <<items, watch>>
        /\ tick'.rows \in {In({"waiting"}), In({"queued"})}
    BY <1>5, TickIs DEF Checked, QueuedAll, Retried
  <2> QED
    BY <1>d, <1>e, <2>1 DEF ToRecord, NotInHand
<1>6. CASE Decided
  <2>1. tick'.at = "idle" /\ tick'.rows = NoRows /\ UNCHANGED <<items, watch>>
    BY <1>6 DEF Decided, Idle
  <2> QED
    BY <1>a, <1>e, <2>1 DEF ToRecord, NotInHand
<1>7. ASSUME NEW u \in Videos, GiveUp(u) \/ Delay(u) \/ Decide(u)
      PROVE  Recorded(v)' /\ ToRecord(v)' /\ NotInHand(v)'
  <2>1. /\ tick.at \in {"checking", "retrying", "deciding"} /\ tick'.at = tick.at
        /\ u \in DOMAIN tick.rows /\ tick'.rows = Rest(tick.rows, u)
    BY <1>7, TickIs
  <2>2. UNCHANGED watch /\ \E row : SetItem(u, row)
    BY <1>7 DEF GiveUp, Delay, Decide
  <2>3. u # v
    BY <2>1 DEF ToRecord
  <2>4. items'[v] = items[v]
    BY <1>a, <2>2, <2>3, RowIs
  <2>5. v \notin DOMAIN tick'.rows
    BY <1>a, <2>1 DEF ToRecord
  <2> QED
    BY <1>e, <2>1, <2>2, <2>4, <2>5 DEF ToRecord, NotInHand
<1>8. ASSUME NEW u \in Videos, Ask(u) \/ Enqueue(u) \/ Retry(u)
      PROVE  Recorded(v)' /\ ToRecord(v)' /\ NotInHand(v)'
  <2>1. /\ tick.at \in {"checking", "queueing", "retrying"} /\ u \in DOMAIN tick.rows
        /\ tick'.rows \in {tick.rows, NoRows, Rest(tick.rows, u)}
        /\ \/ tick'.at \in {"asking", "clipped", "linking", "counting"} /\ tick'.video = u
           \/ tick'.at = "queueing"
    BY <1>8, TickIs
  <2>2. UNCHANGED <<items, watch>>
    BY <1>8 DEF Ask, Enqueue, Retry
  <2>3. u # v
    BY <2>1 DEF ToRecord
  <2> QED
    BY <1>a, <1>e, <2>1, <2>2, <2>3 DEF ToRecord, NotInHand
<1> QED
  BY <1>1, <1>2, <1>3, <1>4, <1>5, <1>6, <1>7, <1>8 DEF Watcher

(* ... and so do the others.                                                *)
LEMMA OtherCatalogue ==
  ASSUME Types, NEW v \in Videos, Recorded(v), ToRecord(v), NotInHand(v), asked[v] = 0,
         asked'[v] = 0,
         \/ Work \/ UseQueue \/ Press \/ ClipThis \/ Skip \/ Switch \/ Post \/ TimePasses
         \/ Restart \/ \E u \in Videos : WeekPasses(u)
  PROVE  (Noted(v)' => Noted(v)) /\ Recorded(v)' /\ ToRecord(v)' /\ NotInHand(v)'
<1> USE DEF table, history
<1>b. UNCHANGED noted /\ (watch.looked # "never" => watch'.looked # "never")
  BY DEF Work, UseQueue, Press, ClipThis, Skip, Switch, Post, TimePasses, WeekPasses, Restart, Types, WatchOK
<1>c. Noted(v)' => Noted(v)
  BY <1>b DEF Noted
<1>a. /\ ItemsOK /\ asked \in [Videos -> Nat] /\ \A u \in Videos : items[u] \in Item
      /\ person.does # "nothing" => person.video \in Videos
  BY DEF Types, ItemsOK, HistoryOK, PersonOK
<1>1. CASE Work \/ UseQueue \/ Press \/ Post
  <2>1. UNCHANGED <<items, watch, tick>>
    BY <1>1 DEF Work, UseQueue, Press, Post
  <2> QED
    BY <1>b, <1>c, <2>1 DEF Recorded, ToRecord, NotInHand
<1>2. CASE Switch
  <2>1. UNCHANGED <<items, tick>> /\ watch'.looked = watch.looked
    BY <1>2 DEF Switch, Types, WatchOK
  <2> QED
    BY <1>b, <1>c, <2>1 DEF Recorded, ToRecord, NotInHand
<1>3. CASE ClipThis
  <2>1. UNCHANGED <<watch, tick>> /\ person.video \in Videos
    BY <1>3, <1>a DEF ClipThis
  <2>2. items'[v] = items[v]
    <3>1. CASE UNCHANGED items
      BY <3>1
    <3>2. CASE asked' = [asked EXCEPT ![person.video] = @ + 1] /\ \E row : SetItem(person.video, row)
      <4>1. person.video # v
        BY <1>a, <2>1, <3>2
      <4> QED
        BY <1>a, <2>1, <3>2, <4>1, RowIs
    <3> QED
      BY <1>3, <3>1, <3>2 DEF ClipThis
  <2> QED
    BY <1>b, <1>c, <2>1, <2>2 DEF Recorded, ToRecord, NotInHand
<1>4. CASE Skip
  <2>1. UNCHANGED <<watch, tick>> /\ person.video \in Videos
        /\ SetItem(person.video, [items[person.video] EXCEPT !.state = "skipped"])
    BY <1>4, <1>a DEF Skip
  <2>2. items'[v] = items[v] \/ items'[v] = [items[v] EXCEPT !.state = "skipped"]
    BY <1>a, <2>1, RowIs
  <2>3. items'[v] = items[v] \/ items'[v].state = "skipped"
    BY <1>a, <2>2 DEF Item
  <2> QED
    BY <1>b, <1>c, <2>1, <2>3 DEF Recorded, ToRecord, NotInHand
<1>5. CASE TimePasses \/ \E u \in Videos : WeekPasses(u)
  <2>1. UNCHANGED <<watch, tick>> /\ \E u \in Videos : \/ SetItem(u, [items[u] EXCEPT !.wait = FALSE])
                                                       \/ SetItem(u, [items[u] EXCEPT !.retry = "past"])
                                                       \/ SetItem(u, [items[u] EXCEPT !.old = TRUE])
    BY <1>5 DEF TimePasses, WeekPasses
  <2>2. PICK u \in Videos : \/ SetItem(u, [items[u] EXCEPT !.wait = FALSE])
                            \/ SetItem(u, [items[u] EXCEPT !.retry = "past"])
                            \/ SetItem(u, [items[u] EXCEPT !.old = TRUE])
    BY <2>1
  <2>3. PICK row : SetItem(u, row) /\ row.state = items[u].state
    <3>1. /\ [items[u] EXCEPT !.wait = FALSE].state = items[u].state
          /\ [items[u] EXCEPT !.retry = "past"].state = items[u].state
          /\ [items[u] EXCEPT !.old = TRUE].state = items[u].state
      BY <1>a DEF Item
    <3> QED
      BY <2>2, <3>1, Zenon
  <2>4. items'[v].state = items[v].state
    BY <1>a, <2>3, RowIs
  <2> QED
    BY <1>b, <1>c, <2>1, <2>4 DEF Recorded, ToRecord, NotInHand
<1>6. CASE Restart
  <2>1. UNCHANGED items /\ tick' = Idle /\ (watch' = watch \/ watch.looked = "lately")
    BY <1>6 DEF Restart
  <2>2. tick'.at = "idle" /\ DOMAIN tick'.rows = {}
    BY <2>1, NoRowsRead DEF Idle
  <2> QED
    BY <1>b, <1>c, <2>1, <2>2 DEF Recorded, ToRecord, NotInHand
<1> QED
  BY <1>1, <1>2, <1>3, <1>4, <1>5, <1>6

(* A first look is made again only before it is done.                       *)
LEMMA NotedBefore ==
  ASSUME Types, Next, NEW v, Noted(v)'
  PROVE  Noted(v)
<1> USE DEF table, history
<1>1. watch.looked # "never" => watch'.looked # "never"
  BY DEF Next, Watcher, Work, UseQueue, Press, ClipThis, Skip, Switch, Post, TimePasses, WeekPasses,
         Restart, Look, Insert, Looked, Answer, Checked, Link, QueuedAll, Count, Retried, Decided,
         GiveUp, Ask, Enqueue, Delay, Retry, Decide, Types, WatchOK
<1>2. Look => noted' = noted \/ watch.looked = "never"
  BY LookIs DEF Types
<1>3. ~Look => UNCHANGED noted
  BY DEF Next, Watcher, Work, UseQueue, Press, ClipThis, Skip, Switch, Post, TimePasses, WeekPasses,
         Restart, Insert, Looked, Answer, Checked, Link, QueuedAll, Count, Retried, Decided,
         GiveUp, Ask, Enqueue, Delay, Retry, Decide
<1> QED
  BY <1>1, <1>2, <1>3 DEF Noted

LEMMA NextCatalogue == Types /\ CatalogueKept /\ [Next]_vars => CatalogueKept'
<1>1. SUFFICES ASSUME Types, CatalogueKept, [Next]_vars PROVE CatalogueKept'
  OBVIOUS
<1>2. CASE UNCHANGED vars
  BY <1>1, <1>2 DEF vars, table, history, CatalogueKept, Noted, Recorded, ToRecord, NotInHand
<1>3. CASE Next
  <2>1. ASSUME NEW v \in Videos, asked'[v] = 0, Noted(v)'
        PROVE  queued'[v] = 0 /\ Recorded(v)' /\ ToRecord(v)' /\ NotInHand(v)'
    <3>1. asked[v] = 0 /\ (queued'[v] = queued[v] \/ Enqueue(v) \/ Retry(v))
      BY <1>1, <1>3, <2>1, CountsKept
    <3>2. Noted(v)
      BY <1>1, <1>3, <2>1, NotedBefore
    <3>3. queued[v] = 0 /\ Recorded(v) /\ ToRecord(v) /\ NotInHand(v)
      BY <1>1, <3>1, <3>2 DEF CatalogueKept
    <3>4. ~Enqueue(v) /\ ~Retry(v)
      BY <3>3 DEF Enqueue, Retry, Due, ToRecord
    <3>5. Recorded(v)' /\ ToRecord(v)' /\ NotInHand(v)'
      BY <1>1, <1>3, <2>1, <3>1, <3>3, WatcherCatalogue, OtherCatalogue DEF Next
    <3> QED
      BY <3>1, <3>3, <3>4, <3>5
  <2> QED
    BY <2>1 DEF CatalogueKept
<1> QED
  BY <1>1, <1>2, <1>3

(* "The first look records what is already there": what it listed is       *)
(* clipped only if a person asks, wherever the app stopped in the look and  *)
(* whatever the look that was made again listed.                            *)
THEOREM CatalogueNotQueued == Spec => []CatalogueStays
<1>1. Types /\ CatalogueKept => CatalogueStays
  BY DEF Types, ChannelOK, CatalogueKept, Noted, CatalogueStays
<1> QED
  BY <1>1, InitTypes, NextTypes, InitCatalogue, NextCatalogue, PTL DEF Spec

-----------------------------------------------------------------------------
(* Why a video is started once: what the watch still owes a video is at     *)
(* most one start, which is given up by the step that adds its job and only *)
(* comes back with a person's wish or a stop of the app. A retry is counted *)
(* on the item but for the moment between its two writes.                   *)
Linking(v) == tick.at = "linking" /\ tick.video = v
Owed(v) ==
  /\ ~Linking(v)
  /\ \/ items[v].state \in {"none", "new", "not_ready", "waiting"}
     \/ /\ tick.at \in {"noting", "checking", "asking", "queueing", "linking", "clipped"}
        /\ v \in DOMAIN tick.rows
     \/ tick.at = "asking" /\ tick.video = v
Uncounted(v) == tick.at = "counting" /\ tick.video = v
One(b) == IF b THEN 1 ELSE 0
Account(v) ==
  queued[v] + One(Owed(v)) <= 1 + asked[v] + items[v].tries + stops + One(Uncounted(v))

(* The rows in hand are rows the table does not have yet, or has.           *)
AsRead(v) ==
  /\ v \in DOMAIN tick.rows /\ tick.at = "noting" =>
       items[v].state = "none" /\ tick.rows[v].tries = 0 /\ tick.rows[v].state # "none"
  /\ v \in DOMAIN tick.rows /\ tick.at # "noting" => items[v].state # "none"
  /\ v \in DOMAIN tick.rows /\ tick.at \in {"retrying", "counting"} =>
       tick.rows[v].tries = items[v].tries
  /\ person.does # "nothing" /\ person.video = v => items[v].state # "none"
  /\ items[v].state = "none" => items[v].tries = 0

(* What may happen to the account of a video in one step.                   *)
LEMMA AccountKept ==
  ASSUME Types, Types', NEW v \in Videos, Account(v),
         \/ /\ UNCHANGED <<queued[v], asked[v], items[v].tries, stops>>
            /\ Owed(v)' => Owed(v)
            /\ Uncounted(v) => Uncounted(v)'
         \/ /\ UNCHANGED <<asked[v], items[v].tries, stops>> /\ queued'[v] = queued[v] + 1
            /\ Owed(v) /\ ~Owed(v)' /\ (Uncounted(v) => Uncounted(v)')
         \/ /\ UNCHANGED <<asked[v], items[v].tries, stops>> /\ queued'[v] = queued[v] + 1
            /\ (Owed(v)' => Owed(v)) /\ ~Uncounted(v) /\ Uncounted(v)'
         \/ /\ UNCHANGED <<queued[v], asked[v], stops>> /\ items'[v].tries = items[v].tries + 1
            /\ Owed(v)' => Owed(v)
         \/ /\ UNCHANGED <<queued[v], items[v].tries, stops>> /\ asked'[v] = asked[v] + 1
            /\ Uncounted(v) => Uncounted(v)'
         \/ /\ UNCHANGED <<queued[v], asked[v], items[v].tries>> /\ stops' = stops + 1
            /\ (Owed(v)' => Owed(v)) \/ ~Uncounted(v)
  PROVE  Account(v)'
<1>1. /\ queued[v] \in Nat /\ asked[v] \in Nat /\ items[v].tries \in Nat /\ stops \in Nat
      /\ queued'[v] \in Nat /\ asked'[v] \in Nat /\ items'[v].tries \in Nat /\ stops' \in Nat
  <2>1. items[v] \in Item /\ items'[v] \in Item
    BY DEF Types, ItemsOK
  <2>2. items[v].tries \in Nat /\ items'[v].tries \in Nat
    <3>1. \A row \in Item : row.tries \in 0 .. MaxRetries
      BY DEF Item
    <3>2. \A n \in 0 .. MaxRetries : n \in Nat
      OBVIOUS
    <3> QED
      BY <2>1, <3>1, <3>2
  <2>3. queued[v] \in Nat /\ asked[v] \in Nat /\ stops \in Nat
    BY DEF Types, HistoryOK
  <2>4. queued'[v] \in Nat /\ asked'[v] \in Nat /\ stops' \in Nat
    BY DEF Types, HistoryOK
  <2> QED
    BY <2>2, <2>3, <2>4
<1>2. /\ (Owed(v) => One(Owed(v)) = 1) /\ (~Owed(v) => One(Owed(v)) = 0)
      /\ (Uncounted(v) => One(Uncounted(v)) = 1) /\ (~Uncounted(v) => One(Uncounted(v)) = 0)
  BY DEF One
<1>3. /\ (Owed(v)' => One(Owed(v))' = 1) /\ (~Owed(v)' => One(Owed(v))' = 0)
      /\ (Uncounted(v)' => One(Uncounted(v))' = 1) /\ (~Uncounted(v)' => One(Uncounted(v))' = 0)
  BY DEF One
<1>4. Account(v)' <=> queued'[v] + One(Owed(v))' <= 1 + asked'[v] + items'[v].tries + stops'
                                                      + One(Uncounted(v))'
  BY DEF Account
<1>5. One(Owed(v)) \in {0, 1} /\ One(Owed(v))' \in {0, 1} /\ One(Uncounted(v)) \in {0, 1}
      /\ One(Uncounted(v))' \in {0, 1}
  BY <1>2, <1>3
<1> QED
  BY <1>1, <1>2, <1>3, <1>4, <1>5 DEF Account

LEMMA InitStarted == Init => \A v \in Videos : AsRead(v) /\ Account(v)
<1>1. SUFFICES ASSUME Init, NEW v \in Videos PROVE AsRead(v) /\ Account(v)
  OBVIOUS
<1>2. /\ queued[v] = 0 /\ asked[v] = 0 /\ stops = 0 /\ items[v].state = "none" /\ items[v].tries = 0
      /\ tick.at = "idle" /\ tick.rows = NoRows /\ person.does = "nothing"
  BY <1>1 DEF Init, NoItem, Idle, Nobody
<1>3. One(Owed(v)) <= 1 /\ One(Uncounted(v)) = 0 /\ One(Owed(v)) \in Nat
  BY <1>2 DEF One, Uncounted
<1> QED
  BY <1>2, <1>3, NoRowsRead DEF AsRead, Account

LEMMA WatcherStarted ==
  ASSUME Types, Types', Watcher, NEW v \in Videos, AsRead(v), Account(v)
  PROVE  AsRead(v)' /\ Account(v)'
<1> USE DEF table, history
<1>a. /\ ItemsOK /\ ReadOK /\ InHandOK
      /\ \A u : /\ DOMAIN Rest(tick.rows, u) = DOMAIN tick.rows \ {u}
                /\ \A w \in DOMAIN Rest(tick.rows, u) : Rest(tick.rows, u)[w] = tick.rows[w]
      /\ DOMAIN NoRows = {} /\ \A u \in Videos : items[u] \in Item
  BY RowsLeft, NoRowsRead DEF Types, ReadOK, ItemsOK
<1>b. \A states \in SUBSET ItemStates :
        v \in DOMAIN In(states) => In(states)[v] = items[v] /\ items[v].state \in states
  BY <1>a, RowsRead
<1>c. /\ v \in DOMAIN In({"new", "not_ready"}) => items[v].state \in {"new", "not_ready"}
      /\ v \in DOMAIN In({"waiting"}) => items[v].state = "waiting"
      /\ v \in DOMAIN In({"queued"}) => In({"queued"})[v] = items[v] /\ items[v].state = "queued"
  BY <1>b DEF ItemStates
<1>d. queued \in [Videos -> Nat]
  BY DEF Types, HistoryOK
<1>1. CASE Look
  <2>1. PICK fresh \in SUBSET Videos :
          /\ tick' = [Idle EXCEPT !.at = "noting", !.rows = ToInsert(fresh)]
          /\ \A u \in fresh : items[u].state = "none"
    BY <1>1, <1>a, LookIs DEF Types
  <2>2. /\ tick.at = "idle" /\ tick'.at = "noting" /\ tick'.rows = ToInsert(fresh)
        /\ UNCHANGED <<items, person, queued, asked, stops>>
    BY <1>1, <2>1 DEF Look, Idle
  <2>3. /\ DOMAIN ToInsert(fresh) = fresh
        /\ v \in fresh => ToInsert(fresh)[v].state # "none" /\ ToInsert(fresh)[v].tries = 0
    BY NotedType
  <2>4. AsRead(v)'
    BY <2>1, <2>2, <2>3 DEF AsRead
  <2>5. (Owed(v)' => Owed(v)) /\ ~Uncounted(v)
    BY <2>1, <2>2, <2>3 DEF Owed, Linking, Uncounted
  <2> QED
    BY <2>2, <2>4, <2>5, AccountKept
<1>2. CASE Insert
  <2>1. PICK u \in DOMAIN tick.rows : SetItem(u, tick.rows[u]) /\ tick'.rows = Rest(tick.rows, u)
    BY <1>2, TickIs
  <2>2. /\ u \in Videos /\ tick.at = "noting" /\ tick'.at = "noting"
        /\ UNCHANGED <<person, queued, asked, stops>>
    BY <1>2, <1>a, <2>1, TickIs DEF Insert, ReadOK
  <2>3. items'[u] = tick.rows[u] /\ (u # v => items'[v] = items[v])
    BY <1>a, <2>1, <2>2, RowIs
  <2>4. CASE u = v
    <3>1. items[v].state = "none" /\ items[v].tries = 0 /\ v \in DOMAIN tick.rows
          /\ items'[v].tries = 0 /\ items'[v].state # "none"
      BY <2>1, <2>2, <2>3, <2>4 DEF AsRead
    <3>2. v \notin DOMAIN tick'.rows
      BY <1>a, <2>1, <2>4
    <3>3. AsRead(v)'
      BY <3>1, <3>2 DEF AsRead
    <3>4. Owed(v) /\ ~Uncounted(v)
      BY <2>2, <3>1 DEF Owed, Linking, Uncounted
    <3> QED
      BY <2>2, <3>1, <3>3, <3>4, AccountKept
  <2>5. CASE u # v
    <3>1. (v \in DOMAIN tick.rows <=> v \in DOMAIN tick'.rows)
          /\ (v \in DOMAIN tick.rows => tick'.rows[v] = tick.rows[v])
      BY <1>a, <2>1, <2>5
    <3>2. items'[v] = items[v]
      BY <2>3, <2>5
    <3>3. AsRead(v)'
      BY <2>2, <3>1, <3>2 DEF AsRead
    <3>4. (Owed(v)' => Owed(v)) /\ ~Uncounted(v)
      BY <2>2, <3>1, <3>2 DEF Owed, Linking, Uncounted
    <3> QED
      BY <2>2, <3>2, <3>3, <3>4, AccountKept
  <2> QED
    BY <2>4, <2>5
<1>3. CASE Looked \/ Checked \/ QueuedAll \/ Retried \/ Decided
  <2>1. /\ UNCHANGED <<items, person, queued, asked, stops>>
        /\ \/ tick.at = "noting" /\ tick'.at = "checking" /\ tick'.rows = In({"new", "not_ready"})
           \/ tick.at = "checking" /\ tick'.at = "queueing" /\ tick'.rows = In({"waiting"})
           \/ /\ tick.at \in {"queueing", "retrying"} /\ tick'.at \in {"retrying", "deciding"}
              /\ tick'.rows = In({"queued"})
           \/ tick.at = "deciding" /\ tick'.at = "idle" /\ tick'.rows = NoRows
    <3>1. Decided => tick.at = "deciding" /\ tick'.at = "idle" /\ tick'.rows = NoRows
      BY DEF Decided, Idle
    <3>2. UNCHANGED <<items, person, queued, asked, stops>>
      BY <1>3 DEF Looked, Checked, QueuedAll, Retried, Decided
    <3> QED
      BY <1>3, <3>1, <3>2, TickIs
  <2>2. AsRead(v)'
    BY <1>a, <1>c, <2>1 DEF AsRead
  <2>3. (Owed(v)' => Owed(v)) /\ ~Uncounted(v)
    BY <1>a, <1>c, <2>1 DEF Owed, Linking, Uncounted
  <2> QED
    BY <2>1, <2>2, <2>3, AccountKept
<1>4. CASE Answer
  <2>1. /\ tick.at = "asking" /\ tick'.at = "checking" /\ tick'.rows = tick.rows /\ tick'.video = 0
        /\ UNCHANGED <<person, queued, asked, stops>> /\ tick.video \in Videos
    BY <1>4, <1>a, TickIs DEF Answer, InHandOK
  <2>2. PICK row : /\ SetItem(tick.video, row) /\ row.state # "none"
                   /\ row.tries = items[tick.video].tries
    <3>1. items[tick.video] \in Item
      BY <1>a, <2>1
    <3>2. \A state \in {"waiting", "skipped"} :
            /\ [items[tick.video] EXCEPT !.state = state].state = state
            /\ [items[tick.video] EXCEPT !.state = state].tries = items[tick.video].tries
      BY <3>1 DEF Item
    <3>3. /\ [items[tick.video] EXCEPT !.state = "not_ready", !.wait = TRUE].state = "not_ready"
          /\ [items[tick.video] EXCEPT !.state = "not_ready", !.wait = TRUE].tries
               = items[tick.video].tries
      BY <3>1 DEF Item
    <3>4. ASSUME NEW state \in {"waiting", "skipped"},
                 SetItem(tick.video, [items[tick.video] EXCEPT !.state = state])
          PROVE  \E row : /\ SetItem(tick.video, row) /\ row.state # "none"
                          /\ row.tries = items[tick.video].tries
      <4>1. state # "none"
        OBVIOUS
      <4> QED
        BY <3>2, <3>4, <4>1, Zenon
    <3>5. ASSUME SetItem(tick.video, [items[tick.video] EXCEPT !.state = "not_ready", !.wait = TRUE])
          PROVE  \E row : /\ SetItem(tick.video, row) /\ row.state # "none"
                          /\ row.tries = items[tick.video].tries
      <4>1. "not_ready" # "none"
        OBVIOUS
      <4> QED
        BY <3>3, <3>5, <4>1, Zenon
    <3> QED
      BY <1>4, <3>4, <3>5 DEF Answer
  <2>3. /\ items'[v].tries = items[v].tries
        /\ items'[v] = items[v] \/ (tick.video = v /\ items'[v].state # "none")
    BY <1>a, <2>1, <2>2, RowIs
  <2>4. AsRead(v)'
    BY <2>1, <2>3 DEF AsRead
  <2>5. (Owed(v)' => Owed(v)) /\ ~Uncounted(v)
    BY <2>1, <2>3 DEF Owed, Linking, Uncounted
  <2> QED
    BY <2>1, <2>3, <2>4, <2>5, AccountKept
<1>5. CASE Link
  <2>1. /\ tick.at \in {"linking", "clipped"} /\ tick'.at = "queueing" /\ tick'.video = 0
        /\ tick'.rows = Rest(tick.rows, tick.video) /\ tick.video \in Videos
        /\ UNCHANGED <<person, queued, asked, stops>>
    BY <1>5, <1>a, TickIs DEF Link, InHandOK
  <2>2. items[tick.video] \in Item
    BY <1>a, <2>1
  <2>3. PICK row : /\ SetItem(tick.video, row) /\ row.state \in {"queued", "skipped"}
                   /\ row.tries = items[tick.video].tries
    <3>1. /\ [items[tick.video] EXCEPT !.state = "skipped"].state \in {"queued", "skipped"}
          /\ [items[tick.video] EXCEPT !.state = "skipped"].tries = items[tick.video].tries
          /\ Queued(tick.video, tick.job).state \in {"queued", "skipped"}
          /\ Queued(tick.video, tick.job).tries = items[tick.video].tries
      BY <2>2 DEF Item, Queued
    <3>2. SetItem(tick.video, Queued(tick.video, tick.job))
          \/ SetItem(tick.video, [items[tick.video] EXCEPT !.state = "skipped"])
      BY <1>5 DEF Link
    <3> QED
      BY <3>1, <3>2, Zenon
  <2>4. /\ items'[v].tries = items[v].tries
        /\ tick.video = v => items'[v].state \in {"queued", "skipped"}
        /\ tick.video # v => items'[v] = items[v]
    BY <1>a, <2>1, <2>3, RowIs
  <2>5. /\ DOMAIN tick'.rows = DOMAIN tick.rows \ {tick.video}
        /\ \A w \in DOMAIN tick'.rows : tick'.rows[w] = tick.rows[w]
    <3>1. /\ DOMAIN Rest(tick.rows, tick.video) = DOMAIN tick.rows \ {tick.video}
          /\ \A w \in DOMAIN Rest(tick.rows, tick.video) :
               Rest(tick.rows, tick.video)[w] = tick.rows[w]
      BY <1>a
    <3>2. tick'.rows = Rest(tick.rows, tick.video)
      BY <2>1
    <3> QED
      BY ONLY <3>1, <3>2
  <2>6. AsRead(v)'
    BY <2>1, <2>4, <2>5 DEF AsRead
  <2>7. (Owed(v)' => Owed(v)) /\ ~Uncounted(v)
    BY <2>1, <2>4, <2>5 DEF Owed, Linking, Uncounted
  <2> QED
    BY <2>1, <2>4, <2>6, <2>7, AccountKept
<1>6. CASE Count
  <2>1. /\ tick.at = "counting" /\ tick'.at = "retrying" /\ tick'.video = 0
        /\ tick'.rows = Rest(tick.rows, tick.video) /\ tick.video \in Videos
        /\ tick.video \in DOMAIN tick.rows /\ UNCHANGED <<person, queued, asked, stops>>
    BY <1>6, <1>a, TickIs DEF Count, InHandOK
  <2>2. items[tick.video] \in Item
    BY <1>a, <2>1
  <2>3. /\ Counted(tick.video).state = items[tick.video].state
        /\ Counted(tick.video).tries = tick.rows[tick.video].tries + 1
    BY <2>2 DEF Item, Counted
  <2>4. SetItem(tick.video, Counted(tick.video))
    BY <1>6 DEF Count
  <2>5. /\ DOMAIN tick'.rows = DOMAIN tick.rows \ {tick.video}
        /\ \A w \in DOMAIN tick'.rows : tick'.rows[w] = tick.rows[w]
    BY <1>a, <2>1
  <2>6. CASE tick.video = v
    <3>1. items'[v].state = items[v].state /\ items'[v].tries = items[v].tries + 1
      BY <1>a, <2>1, <2>3, <2>4, <2>6, RowIs DEF AsRead
    <3>2. v \notin DOMAIN tick'.rows /\ items[v].state # "none"
      BY <2>1, <2>5, <2>6 DEF AsRead
    <3>3. AsRead(v)'
      BY <3>1, <3>2 DEF AsRead
    <3>4. Owed(v)' => Owed(v)
      BY <2>1, <3>1, <3>2 DEF Owed, Linking
    <3> QED
      BY <2>1, <3>1, <3>3, <3>4, AccountKept
  <2>7. CASE tick.video # v
    <3>1. items'[v] = items[v]
      BY <1>a, <2>1, <2>4, <2>7, RowIs
    <3>2. AsRead(v)'
      BY <2>1, <2>5, <2>7, <3>1 DEF AsRead
    <3>3. (Owed(v)' => Owed(v)) /\ ~Uncounted(v)
      BY <2>1, <2>7, <3>1 DEF Owed, Linking, Uncounted
    <3> QED
      BY <2>1, <3>1, <3>2, <3>3, AccountKept
  <2> QED
    BY <2>6, <2>7
<1>7. ASSUME NEW u \in Videos, GiveUp(u) \/ Delay(u) \/ Decide(u)
      PROVE  AsRead(v)' /\ Account(v)'
  <2>1. /\ tick.at \in {"checking", "retrying", "deciding"} /\ tick'.at = tick.at
        /\ u \in DOMAIN tick.rows /\ tick'.rows = Rest(tick.rows, u) /\ tick'.video = tick.video
        /\ GiveUp(u) => tick.at = "checking"
        /\ UNCHANGED <<person, queued, asked, stops>>
    BY <1>7, TickIs DEF GiveUp, Delay, Decide
  <2>2. /\ DOMAIN tick'.rows = DOMAIN tick.rows \ {u}
        /\ \A w \in DOMAIN tick'.rows : tick'.rows[w] = tick.rows[w]
    BY <1>a, <2>1
  <2>3. /\ items'[v].tries = items[v].tries
        /\ items'[v].state = items[v].state \/ items'[v].state = "skipped"
    <3>1. items[u] \in Item
      BY <1>a
    <3>2. /\ [items[u] EXCEPT !.state = "skipped"].state = "skipped"
          /\ [items[u] EXCEPT !.state = "skipped"].tries = items[u].tries
          /\ [items[u] EXCEPT !.retry = "set"].state = items[u].state
          /\ [items[u] EXCEPT !.retry = "set"].tries = items[u].tries
          /\ [items[u] EXCEPT !.decided = TRUE].state = items[u].state
          /\ [items[u] EXCEPT !.decided = TRUE].tries = items[u].tries
      BY <3>1 DEF Item
    <3>3. \/ SetItem(u, [items[u] EXCEPT !.state = "skipped"])
          \/ SetItem(u, [items[u] EXCEPT !.retry = "set"])
          \/ SetItem(u, [items[u] EXCEPT !.decided = TRUE])
      BY <1>7 DEF GiveUp, Delay, Decide
    <3>4. PICK row : /\ SetItem(u, row) /\ row.tries = items[u].tries
                     /\ row.state = items[u].state \/ row.state = "skipped"
      BY <3>2, <3>3, Zenon
    <3> QED
      BY <1>a, <3>4, RowIs
  <2>4. AsRead(v)'
    BY <2>1, <2>2, <2>3 DEF AsRead
  <2>5. (Owed(v)' => Owed(v)) /\ ~Uncounted(v)
    BY <2>1, <2>2, <2>3 DEF Owed, Linking, Uncounted
  <2> QED
    BY <2>1, <2>3, <2>4, <2>5, AccountKept
<1>8. ASSUME NEW u \in Videos, Ask(u)
      PROVE  AsRead(v)' /\ Account(v)'
  <2>1. /\ tick.at = "checking" /\ u \in DOMAIN tick.rows /\ tick'.at = "asking"
        /\ tick'.rows = Rest(tick.rows, u) /\ tick'.video = u
        /\ UNCHANGED <<items, person, queued, asked, stops>>
    BY <1>8, TickIs DEF Ask
  <2>2. /\ DOMAIN tick'.rows = DOMAIN tick.rows \ {u}
        /\ \A w \in DOMAIN tick'.rows : tick'.rows[w] = tick.rows[w]
    BY <1>a, <2>1
  <2>3. AsRead(v)'
    BY <2>1, <2>2 DEF AsRead
  <2>4. (Owed(v)' => Owed(v)) /\ ~Uncounted(v)
    BY <2>1, <2>2 DEF Owed, Linking, Uncounted
  <2> QED
    BY <2>1, <2>3, <2>4, AccountKept
<1>9. ASSUME NEW u \in Videos, Enqueue(u)
      PROVE  AsRead(v)' /\ Account(v)'
  <2>1. /\ tick.at = "queueing" /\ u \in DOMAIN tick.rows
        /\ \/ /\ tick'.at \in {"clipped", "linking"} /\ tick'.rows = tick.rows
              /\ tick'.video = u /\ UNCHANGED queued
           \/ tick'.at = "queueing" /\ tick'.rows = NoRows /\ UNCHANGED queued
           \/ /\ tick'.at = "linking" /\ tick'.rows = tick.rows /\ tick'.video = u
              /\ queued' = [queued EXCEPT ![u] = @ + 1]
    BY <1>9, TickIs
  <2>2. UNCHANGED <<items, person, asked, stops>>
    BY <1>9 DEF Enqueue
  <2>3. AsRead(v)'
    BY <1>a, <2>1, <2>2 DEF AsRead
  <2>4. (Owed(v)' => Owed(v)) /\ ~Uncounted(v)
    BY <1>a, <2>1, <2>2 DEF Owed, Linking, Uncounted
  <2>5. CASE UNCHANGED queued
    BY <2>2, <2>3, <2>4, <2>5, AccountKept
  <2>6. CASE tick'.at = "linking" /\ tick'.video = u /\ queued' = [queued EXCEPT ![u] = @ + 1]
    <3>1. CASE u = v
      <4>1. queued'[v] = queued[v] + 1
        BY <1>d, <2>6, <3>1
      <4>2. Owed(v) /\ ~Owed(v)'
        BY <2>1, <2>6, <3>1 DEF Owed, Linking
      <4> QED
        BY <2>2, <2>3, <2>4, <4>1, <4>2, AccountKept
    <3>2. CASE u # v
      <4>1. queued'[v] = queued[v]
        BY <1>d, <2>6, <3>2
      <4> QED
        BY <2>2, <2>3, <2>4, <4>1, AccountKept
    <3> QED
      BY <3>1, <3>2
  <2> QED
    BY <2>1, <2>5, <2>6
<1>10. ASSUME NEW u \in Videos, Retry(u)
       PROVE  AsRead(v)' /\ Account(v)'
  <2>1. /\ tick.at = "retrying" /\ u \in DOMAIN tick.rows /\ tick'.at = "counting"
        /\ tick'.rows = tick.rows /\ tick'.video = u
    BY <1>10, TickIs
  <2>2. UNCHANGED <<items, person, asked, stops>> /\ queued' = [queued EXCEPT ![u] = @ + 1]
    BY <1>10 DEF Retry
  <2>3. AsRead(v)'
    BY <2>1, <2>2 DEF AsRead
  <2>4. (Owed(v)' => Owed(v)) /\ ~Uncounted(v)
    BY <2>1, <2>2 DEF Owed, Linking, Uncounted
  <2>5. CASE u = v
    <3>1. queued'[v] = queued[v] + 1
      BY <1>d, <2>2, <2>5
    <3>2. Uncounted(v)'
      BY <2>1, <2>5 DEF Uncounted
    <3> QED
      BY <2>2, <2>3, <2>4, <3>1, <3>2, AccountKept
  <2>6. CASE u # v
    <3>1. queued'[v] = queued[v]
      BY <1>d, <2>2, <2>6
    <3> QED
      BY <2>2, <2>3, <2>4, <3>1, AccountKept
  <2> QED
    BY <2>5, <2>6
<1> QED
  BY <1>1, <1>2, <1>3, <1>4, <1>5, <1>6, <1>7, <1>8, <1>9, <1>10 DEF Watcher

LEMMA OtherStarted ==
  ASSUME Types, Types', NEW v \in Videos, AsRead(v), Account(v),
         \/ Work \/ UseQueue \/ Press \/ ClipThis \/ Skip \/ Switch \/ Post \/ TimePasses
         \/ Restart \/ \E u \in Videos : WeekPasses(u)
  PROVE  AsRead(v)' /\ Account(v)'
<1> USE DEF table, history
<1>a. /\ ItemsOK /\ asked \in [Videos -> Nat] /\ \A u \in Videos : items[u] \in Item
      /\ person.does # "nothing" => person.video \in Videos
  BY DEF Types, ItemsOK, HistoryOK, PersonOK
(* A step that leaves the thread and the counts as they are.                 *)
<1>b. ASSUME UNCHANGED <<tick, queued, asked, stops>>, items'[v].tries = items[v].tries,
             items'[v].state = items[v].state \/ items'[v].state = "skipped"
      PROVE  Account(v)'
  <2>1. (Owed(v)' => Owed(v)) /\ (Uncounted(v) => Uncounted(v)')
    BY <1>b DEF Owed, Linking, Uncounted
  <2> QED
    BY <1>b, <2>1, AccountKept
<1>1. CASE Work \/ UseQueue \/ Switch \/ Post
  <2>1. UNCHANGED <<items, tick, person, queued, asked, stops>>
    BY <1>1 DEF Work, UseQueue, Switch, Post
  <2>2. AsRead(v)'
    BY <2>1 DEF AsRead
  <2> QED
    BY <1>b, <2>1, <2>2
<1>2. CASE Press
  <2>1. UNCHANGED <<items, tick, queued, asked, stops>>
    BY <1>2 DEF Press
  <2>2. PICK u \in Videos :
          /\ items[u].state # "none"
          /\ person' = [does |-> "clip", video |-> u] \/ person' = [does |-> "skip", video |-> u]
    BY <1>2 DEF Press
  <2>3. person'.video = u
    BY <2>2
  <2>4. AsRead(v)'
    BY <2>1, <2>2, <2>3 DEF AsRead
  <2> QED
    BY <1>b, <2>1, <2>4
<1>3. CASE ClipThis
  <2>1. /\ UNCHANGED <<tick, queued, stops>> /\ person.video \in Videos
        /\ person.does = "clip" /\ person'.does = "nothing"
    BY <1>3, <1>a DEF ClipThis, Nobody
  <2>2. CASE UNCHANGED <<items, asked>>
    <3>1. AsRead(v)'
      BY <2>1, <2>2 DEF AsRead
    <3> QED
      BY <1>b, <2>1, <2>2, <3>1
  <2>3. CASE asked' = [asked EXCEPT ![person.video] = @ + 1] /\ ~UNCHANGED <<items, asked>>
    <3>1. PICK row : /\ SetItem(person.video, row) /\ row.state # "none"
                     /\ row.tries = items[person.video].tries
      <4> DEFINE Now == [items[person.video] EXCEPT !.state = "waiting"]
                 Later == [items[person.video] EXCEPT !.state = "not_ready", !.wait = TRUE, !.old = FALSE]
      <4>1. items[person.video] \in Item
        BY <1>a, <2>1
      <4>2. /\ Now.state # "none" /\ Now.tries = items[person.video].tries
            /\ Later.state # "none" /\ Later.tries = items[person.video].tries
        BY <4>1 DEF Item
      <4>3. SetItem(person.video, Now) \/ SetItem(person.video, Later)
        BY <1>3, <2>3 DEF ClipThis
      <4> HIDE DEF Now, Later
      <4> QED
        BY <4>2, <4>3
    <3>2. CASE person.video = v
      <4>1. /\ items'[v].state # "none" /\ items'[v].tries = items[v].tries
            /\ asked'[v] = asked[v] + 1
        BY <1>a, <2>1, <2>3, <3>1, <3>2, RowIs
      <4>2. items[v].state # "none"
        BY <2>1, <3>2 DEF AsRead
      <4>3. AsRead(v)'
        BY <2>1, <4>1, <4>2 DEF AsRead
      <4>4. Uncounted(v) => Uncounted(v)'
        BY <2>1 DEF Uncounted
      <4> QED
        BY <2>1, <4>1, <4>3, <4>4, AccountKept
    <3>3. CASE person.video # v
      <4>1. items'[v] = items[v] /\ asked'[v] = asked[v]
        BY <1>a, <2>1, <2>3, <3>1, <3>3, RowIs
      <4>2. AsRead(v)'
        BY <2>1, <4>1 DEF AsRead
      <4>3. (Owed(v)' => Owed(v)) /\ (Uncounted(v) => Uncounted(v)')
        BY <2>1, <4>1 DEF Owed, Linking, Uncounted
      <4> QED
        BY <2>1, <4>1, <4>2, <4>3, AccountKept
    <3> QED
      BY <3>2, <3>3
  <2> QED
    BY <1>3, <2>2, <2>3 DEF ClipThis
<1>4. CASE Skip
  <2>1. /\ UNCHANGED <<tick, queued, asked, stops>> /\ person.video \in Videos
        /\ person.does = "skip" /\ person'.does = "nothing"
        /\ SetItem(person.video, [items[person.video] EXCEPT !.state = "skipped"])
    BY <1>4, <1>a DEF Skip, Nobody
  <2>2. PICK row : /\ SetItem(person.video, row) /\ row.state = "skipped"
                   /\ row.tries = items[person.video].tries
    <3> DEFINE Set == [items[person.video] EXCEPT !.state = "skipped"]
    <3>1. items[person.video] \in Item
      BY <1>a, <2>1
    <3>2. Set.state = "skipped" /\ Set.tries = items[person.video].tries
      BY <3>1 DEF Item
    <3> QED
      BY <2>1, <3>2
  <2>3. /\ items'[v].tries = items[v].tries
        /\ items'[v] = items[v] \/ items'[v].state = "skipped"
        /\ person.video = v => items[v].state # "none"
        /\ person.video # v => items'[v] = items[v]
    BY <1>a, <2>1, <2>2, RowIs DEF AsRead
  <2>4. AsRead(v)'
    BY <2>1, <2>3 DEF AsRead
  <2> QED
    BY <1>b, <2>1, <2>3, <2>4
<1>5. CASE TimePasses \/ \E u \in Videos : WeekPasses(u)
  <2>1. UNCHANGED <<tick, person, queued, asked, stops>>
    BY <1>5 DEF TimePasses, WeekPasses
  <2>2. PICK u \in Videos : \/ SetItem(u, [items[u] EXCEPT !.wait = FALSE])
                            \/ SetItem(u, [items[u] EXCEPT !.retry = "past"])
                            \/ SetItem(u, [items[u] EXCEPT !.old = TRUE])
    BY <1>5 DEF TimePasses, WeekPasses
  <2>3. PICK row : SetItem(u, row) /\ row.state = items[u].state /\ row.tries = items[u].tries
    <3>1. /\ [items[u] EXCEPT !.wait = FALSE].state = items[u].state
          /\ [items[u] EXCEPT !.retry = "past"].state = items[u].state
          /\ [items[u] EXCEPT !.old = TRUE].state = items[u].state
          /\ [items[u] EXCEPT !.wait = FALSE].tries = items[u].tries
          /\ [items[u] EXCEPT !.retry = "past"].tries = items[u].tries
          /\ [items[u] EXCEPT !.old = TRUE].tries = items[u].tries
      BY <1>a DEF Item
    <3> QED
      BY <2>2, <3>1, Zenon
  <2>4. items'[v].state = items[v].state /\ items'[v].tries = items[v].tries
    BY <1>a, <2>3, RowIs
  <2>5. AsRead(v)'
    BY <2>1, <2>4 DEF AsRead
  <2> QED
    BY <1>b, <2>1, <2>4, <2>5
<1>6. CASE Restart
  <2>1. UNCHANGED <<items, queued, asked>> /\ tick' = Idle /\ person' = Nobody /\ stops' = stops + 1
    BY <1>6 DEF Restart
  <2>2. tick'.at = "idle" /\ DOMAIN tick'.rows = {} /\ person'.does = "nothing"
    BY <2>1, NoRowsRead DEF Idle, Nobody
  <2>3. AsRead(v)'
    BY <2>1, <2>2 DEF AsRead
  <2>4. (Owed(v)' => Owed(v)) \/ ~Uncounted(v)
    BY <2>1, <2>2 DEF Owed, Linking, Uncounted
  <2> QED
    BY <2>1, <2>3, <2>4, AccountKept
<1> QED
  BY <1>1, <1>2, <1>3, <1>4, <1>5, <1>6

AllStarted == \A v \in Videos : AsRead(v) /\ Account(v)

LEMMA NextStarted == Types /\ Types' /\ AllStarted /\ [Next]_vars => AllStarted'
<1>1. SUFFICES ASSUME Types, Types', AllStarted, [Next]_vars, NEW v \in Videos
               PROVE  AsRead(v)' /\ Account(v)'
  BY DEF AllStarted
<1>2. AsRead(v) /\ Account(v)
  BY <1>1 DEF AllStarted
<1>3. CASE UNCHANGED vars
  BY <1>2, <1>3 DEF vars, table, history, AsRead, Account, Owed, Uncounted, Linking
<1> QED
  BY <1>1, <1>2, <1>3, WatcherStarted, OtherStarted DEF Next

(* "A video is one row keyed by its id, which is what keeps it to one job": *)
(* the watch starts a video once, and again only for a person's wish, for a *)
(* retry that is counted, or for a stop of the app between its two writes.  *)
THEOREM VideoStartedOnce == Spec => []StartedOnce
<1>1. Types /\ AllStarted => StartedOnce
  <2>1. SUFFICES ASSUME Types, AllStarted, NEW v \in Videos
                 PROVE  queued[v] <= 1 + asked[v] + MaxRetries + stops
    BY DEF StartedOnce
  <2>2. queued[v] \in Nat /\ asked[v] \in Nat /\ stops \in Nat
    BY <2>1 DEF Types, HistoryOK
  <2>3. items[v].tries \in 0 .. MaxRetries
    BY <2>1 DEF Types, ItemsOK, Item
  <2>4. Account(v) /\ AsRead(v)
    BY <2>1 DEF AllStarted
  <2>5. Uncounted(v) => items[v].tries < MaxRetries
    BY <2>1, <2>4 DEF Uncounted, Types, InHandOK, AsRead
  <2>6. /\ One(Owed(v)) \in {0, 1} /\ One(Uncounted(v)) \in {0, 1}
        /\ ~Uncounted(v) => One(Uncounted(v)) = 0
    BY DEF One
  <2> QED
    BY <2>2, <2>3, <2>4, <2>5, <2>6 DEF Account
<1>2. Init => AllStarted
  BY InitStarted DEF AllStarted
<1> QED
  BY <1>1, <1>2, InitTypes, NextTypes, NextStarted, PTL DEF Spec
=============================================================================
