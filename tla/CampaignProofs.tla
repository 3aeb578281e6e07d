--------------------------- MODULE CampaignProofs ---------------------------
(***************************************************************************)
(* CampaignDesk keeps its types, posts a message at most once, knows of     *)
(* every message it posted, submits a link to a campaign once and never     *)
(* sends what the user submitted by hand, for all campaigns, posts, links,  *)
(* numbers of retries, buttons and failures.                                *)
(***************************************************************************)
EXTENDS CampaignDesk, TLAPS

USE SubmissionAssumption, WorkerAssumption, DeskAssumption

-----------------------------------------------------------------------------
(* Types. Besides TypeOK: each thread is where it can be, it has a row in    *)
(* hand where it needs one, and what it writes was decided by evaluation.    *)
Phases        == {"idle", "expire", "leftovers", "follow", "send"}
WorkerPlaces  == Phases \cup {"judge", "write", "look", "out", "taken"}
RequestPlaces == {"idle", "judge", "write", "look", "keep", "reapply"}
Events        == {"url_found", "set_url", "edit", "campaign_changed"}
Decisions     == {"cancelled", "expired", "review", "manual", "ready"}
Linkable      == Links \cup {NoLink}

ActType == [at : WorkerPlaces \cup RequestPlaces, back : Phases \cup {"reapply"},
            id : Rows \cup {NoRow}, row : RowType, event : Events \cup {""}, link : Linkable,
            typed : BOOLEAN, method : Methods \cup {""}, goal : Decisions \cup {""},
            left : SUBSET Rows, sent : BOOLEAN]

InPlace(a, t) ==
  /\ a = "worker"  => t.at \in WorkerPlaces /\ t.back \in Phases
  /\ a = "request" => t.at \in RequestPlaces /\ t.back \in {"idle", "reapply"}
  /\ t.at \in {"judge", "write", "look", "keep", "out", "taken"} => t.id \in Rows
  /\ t.at \in {"judge", "write"} => t.event \in Events
  /\ t.at = "write" => t.goal \in Decisions
  /\ t.at = "keep" => t.event \in {"edit", "campaign_changed"} /\ t.method \in Methods

SubsOK   == subs \in [Rows -> RowType]
CampOK   == camp \in [Campaigns -> [on : BOOLEAN, archived : BOOLEAN, over : BOOLEAN, method : Methods]]
DestOK   == dest \in [state : {"connected", "gone", "denied", "missing"}, hook : BOOLEAN]
PostedOK == posted \in [Rows -> Nat]
ActsOK   == act \in [Threads -> ActType] /\ \A a \in Threads : InPlace(a, act[a])
BoundsOK == troubles \in 0 .. MaxTroubles /\ ops \in 0 .. MaxOps
Types    == SubsOK /\ CampOK /\ DestOK /\ PostedOK /\ ActsOK /\ BoundsOK

LEMMA NewRowType ==
  ASSUME NEW method \in Methods, NEW hold \in BOOLEAN, NEW first \in BOOLEAN
  PROVE  /\ NewRow(method, hold, first) \in RowType
         /\ NewRow(method, hold, first).status = "waiting_publication"
         /\ NewRow(method, hold, first).link = NoLink
         /\ NewRow(method, hold, first).by = ""
<1>1. "waiting_publication" \in Statuses
  BY DEF Statuses, Editable, PreSend, Waiting
<1> QED
  BY <1>1 DEF NewRow, RowType

(* The columns a write changes keep their types.                            *)
LEMMA Columns ==
  ASSUME NEW row \in RowType
  PROVE  /\ row.status \in Statuses \cup {"none"} /\ row.method \in Methods /\ row.hold \in BOOLEAN
         /\ row.first \in BOOLEAN /\ row.link \in Linkable /\ row.typed \in BOOLEAN
         /\ row.due \in BOOLEAN /\ row.tries \in Nat /\ row.by \in {"", "webhook", "user"}
         /\ row.opened \in BOOLEAN /\ row.own \in BOOLEAN
BY DEF RowType, Linkable

LEMMA CopyType ==
  ASSUME NEW row \in RowType
  PROVE  Copy(row) \in RowType /\ Copy(row).status = row.status
<1>1. NewRow("hand", FALSE, FALSE) \in RowType
  BY NewRowType DEF Methods
<1>2. Idle.row = NewRow("hand", FALSE, FALSE)
  BY DEF Idle
<1>3. Copy(row) = [NewRow("hand", FALSE, FALSE) EXCEPT !.status = row.status, !.link = row.link,
                                                       !.method = row.method, !.hold = row.hold]
  BY <1>2 DEF Copy
<1> HIDE DEF NewRow
<1> QED
  BY <1>1, <1>3 DEF RowType

LEMMA IdleType == Idle \in ActType /\ Idle.at = "idle" /\ Idle.back = "idle" /\ \A a : InPlace(a, Idle)
<1>1. NewRow("hand", FALSE, FALSE) \in RowType
  BY NewRowType DEF Methods
<1> HIDE DEF NewRow
<1>2. Idle \in ActType
  BY <1>1 DEF Idle, ActType, WorkerPlaces, RequestPlaces, Phases, Linkable
<1>3. Idle.at = "idle" /\ Idle.back = "idle"
  BY DEF Idle
<1> QED
  BY <1>2, <1>3 DEF InPlace, WorkerPlaces, RequestPlaces, Phases

LEMMA ActWritten ==
  ASSUME ActsOK, NEW a \in Threads, NEW t \in ActType, InPlace(a, t), act' = [act EXCEPT ![a] = t]
  PROVE  ActsOK' /\ act'[a] = t /\ \A b \in Threads \ {a} : act'[b] = act[b]
BY DEF ActsOK

LEMMA Returned ==
  ASSUME ActsOK, NEW a \in Threads, Return(a)
  PROVE  /\ ActsOK' /\ act'[a].at = act[a].back /\ \A b \in Threads \ {a} : act'[b] = act[b]
<1> DEFINE t == [Idle EXCEPT !.at = act[a].back, !.back = act[a].back,
                             !.left = act[a].left, !.sent = act[a].sent]
<1>1. act[a] \in ActType /\ InPlace(a, act[a])
  BY DEF ActsOK
<1>2. act[a].back \in Phases \cup {"reapply"} /\ act[a].left \in SUBSET Rows /\ act[a].sent \in BOOLEAN
  BY <1>1 DEF ActType
<1>3. t \in ActType /\ t.at = act[a].back /\ t.back = act[a].back
  BY <1>2, IdleType DEF ActType, WorkerPlaces, RequestPlaces
<1>4. InPlace(a, t)
  BY <1>1, <1>2, <1>3 DEF InPlace, WorkerPlaces, RequestPlaces, Phases
<1>5. act' = [act EXCEPT ![a] = t]
  BY DEF Return
<1> HIDE DEF t
<1> QED
  BY <1>3, <1>4, <1>5, ActWritten

-----------------------------------------------------------------------------
(* What a step may do to a row `r` of the table, written `q`.               *)
Same(r, q)    == q.status = r.status /\ q.by = r.by
Unsent(r, q)  == r.status \in Editable /\ q.status \in Editable \cup {"cancelled", "expired"} /\ q.by = r.by
Told(r, q)    == /\ r.status \in Editable \cup SentOff
                 /\ q.status \in SentOff \cup {"cancelled", "confirmed", "rejected"}
                 /\ q.by \in {r.by, "user"}
Freshly(r, q) == /\ r.status \in {"none"} \cup Reopenable /\ q.by = ""
                 /\ q.status \in PreSend \cup {"cancelled", "expired"}
Again(r, q)   == /\ r.status = "awaiting_confirmation" /\ r.by # "user"
                 /\ q.status = "ready" /\ q.by = ""
Quiet(r, q)   == Same(r, q) \/ Unsent(r, q) \/ Told(r, q)

(* A link is only kept, cleared, or brought back by nothing but a write that *)
(* looked for a clash.                                                      *)
Gentle(r, q) == q.link # NoLink /\ Counts(q) => Counts(r) /\ q.link = r.link

(* What a step of the desk does to the table, and any step to the links.    *)
DeskStep ==
  \A s \in Rows :
    \/ Quiet(subs[s], subs'[s]) /\ posted'[s] = posted[s]
    \/ /\ Freshly(subs[s], subs'[s]) \/ Again(subs[s], subs'[s])
       /\ posted'[s] = 0 \/ (subs[s].status = "none" /\ posted'[s] = posted[s])
LinkStep ==
  \E s \in Rows : /\ Gentle(subs[s], subs'[s]) \/ ~Clash(s, subs'[s])
                  /\ \A u \in Rows \ {s} : Gentle(subs[u], subs'[u])
Gently == \A s \in Rows : Gentle(subs[s], subs'[s])
Kept == SubsOK' /\ PostedOK' /\ DeskStep /\ (LinkStep \/ Gently)

LEMMA Kinds ==
  /\ Editable = {"waiting_publication", "waiting_url", "ready", "review", "manual", "failed"}
  /\ PreSend = {"waiting_publication", "waiting_url", "ready", "review", "manual"}
  /\ SentOff = {"sent", "awaiting_confirmation"} /\ Reopenable = {"cancelled", "expired", "failed"}
  /\ Statuses = {"waiting_publication", "waiting_url", "ready", "review", "manual", "failed", "sending",
                 "sent", "awaiting_confirmation", "confirmed", "rejected", "expired", "cancelled"}
BY DEF Editable, PreSend, Waiting, SentOff, Reopenable, Statuses, Terminal

LEMMA SourceKinds ==
  /\ \A e \in {"published_no_url", "post_failed", "url_found", "url_overdue", "stale", "expire",
               "send_start", "destination_unusable", "set_url", "approve", "submit", "retry", "move",
               "edit", "campaign_changed"} : Sources[e] \subseteq Editable
  /\ Sources["send_start"] = {"ready"} /\ Sources["answered"] = {"sending"}
  /\ Sources["send_again"] = {"awaiting_confirmation"} /\ Sources["reopen"] = Reopenable
  /\ Sources["user_submitted"] \subseteq Editable \cup SentOff
  /\ Sources["confirmed"] \subseteq Editable \cup SentOff
  /\ Sources["rejected"] \subseteq Editable \cup SentOff
  /\ Sources["cancel"] \subseteq Editable \cup SentOff
<1>1. /\ Sources["published_no_url"] = {"waiting_publication"}
      /\ Sources["post_failed"] = {"waiting_publication"}
      /\ Sources["url_found"] = Waiting \cup {"manual"}
      /\ Sources["url_overdue"] = {"waiting_url"}
      /\ Sources["stale"] = Waiting
      /\ Sources["expire"] = PreSend
      /\ Sources["send_start"] = {"ready"}
      /\ Sources["destination_unusable"] = {"ready"}
      /\ Sources["answered"] = {"sending"}
      /\ Sources["set_url"] = Waiting \cup {"review", "manual", "failed"}
      /\ Sources["approve"] = {"review"}
      /\ Sources["submit"] = {"ready"}
  BY DEF Sources
<1>2. /\ Sources["user_submitted"] = {"manual", "ready", "review", "failed", "awaiting_confirmation"}
      /\ Sources["confirmed"] = SentOff \cup {"manual"}
      /\ Sources["rejected"] = SentOff
      /\ Sources["retry"] = {"failed"}
      /\ Sources["send_again"] = {"awaiting_confirmation"}
      /\ Sources["cancel"] = Editable \cup SentOff
      /\ Sources["move"] = Editable
      /\ Sources["edit"] = Editable
      /\ Sources["campaign_changed"] = Editable
      /\ Sources["reopen"] = Reopenable
  BY DEF Sources
<1>3. Waiting = {"waiting_publication", "waiting_url"}
  BY DEF Waiting
<1> QED
  BY <1>1, <1>2, <1>3, Kinds

LEMMA RowWritten ==
  ASSUME SubsOK, NEW s \in Rows, NEW row \in RowType, subs' = [subs EXCEPT ![s] = row]
  PROVE  SubsOK' /\ subs'[s] = row /\ \A u \in Rows \ {s} : subs'[u] = subs[u]
BY DEF SubsOK

LEMMA SameIsQuiet == \A r : Quiet(r, r) /\ Gentle(r, r)
BY DEF Quiet, Same, Gentle

LEMMA NothingKept ==
  ASSUME SubsOK, PostedOK, UNCHANGED <<subs, posted>>
  PROVE  Kept /\ Gently
BY SameIsQuiet DEF SubsOK, PostedOK, Kept, DeskStep, Gently

(* A quiet write of one row, and one that may be refused.                   *)
LEMMA QuietWrite ==
  ASSUME SubsOK, PostedOK, NEW s \in Rows, NEW row \in RowType, subs' = [subs EXCEPT ![s] = row],
         UNCHANGED posted, Quiet(subs[s], row), Gentle(subs[s], row) \/ ~Clash(s, row)
  PROVE  Kept
<1>1. SubsOK' /\ subs'[s] = row /\ \A u \in Rows \ {s} : subs'[u] = subs[u]
  BY RowWritten
<1>2. DeskStep
  BY <1>1, SameIsQuiet DEF DeskStep
<1>3. LinkStep
  BY <1>1, SameIsQuiet DEF LinkStep
<1>4. PostedOK'
  BY DEF PostedOK
<1> QED
  BY <1>1, <1>2, <1>3, <1>4 DEF Kept

LEMMA QuietTry ==
  ASSUME SubsOK, PostedOK, NEW s \in Rows, NEW event, NEW row \in RowType, Try(s, event, row),
         UNCHANGED posted,
         Allowed(s, event) => Quiet(subs[s], row) /\ (Gentle(subs[s], row) \/ ~Clash(s, row))
  PROVE  Kept
BY QuietWrite, NothingKept DEF Try, Apply

-----------------------------------------------------------------------------
(* Evaluation.                                                              *)
LEMMA JudgedType ==
  ASSUME NEW found \in RowType, NEW j \in ActType, j.goal \in Decisions
  PROVE  /\ Judged(found, j) \in RowType /\ Judged(found, j).status = j.goal
         /\ Judged(found, j).by = found.by
<1> DEFINE method == IF j.method = "" THEN found.method ELSE j.method
           send == j.goal = "ready" /\ j.row.method = "webhook" /\ ~j.row.hold
           own == found.own \/ (j.method # "" /\ j.event = "edit")
           due == found.due \/ send
           tries == IF j.row.status = "failed" /\ j.goal # "cancelled" THEN 0 ELSE found.tries
<1>1. method \in Methods
  BY Columns DEF ActType
<1>2. own \in BOOLEAN /\ due \in BOOLEAN
  BY Columns
<1>3. tries \in Nat
  BY Columns
<1>4. j.goal \in Statuses /\ j.link \in Linkable /\ j.typed \in BOOLEAN
  BY Kinds DEF ActType, Decisions
<1>5. Judged(found, j) = [found EXCEPT !.status = j.goal, !.link = j.link, !.typed = j.typed,
                                       !.method = method, !.own = own, !.due = due, !.tries = tries]
  BY DEF Judged
<1> HIDE DEF method, own, due, tries
<1> QED
  BY <1>1, <1>2, <1>3, <1>4, <1>5 DEF RowType, Linkable

LEMMA GoalsDecide ==
  ASSUME NEW s, NEW row, NEW link
  PROVE  Goals(s, row, link) \subseteq Decisions
BY DEF Goals, Verdicts, Decisions

LEMMA JudgeKeeps ==
  ASSUME Types, NEW a \in Threads, Judge(a)
  PROVE  ActsOK' /\ UNCHANGED <<table, troubles>> /\ act'[a].at = "write" /\ act[a].at = "judge"
         /\ \A b \in Threads \ {a} : act'[b] = act[b]
<1>1. ActsOK /\ act[a] \in ActType /\ InPlace(a, act[a])
  BY DEF Types, ActsOK
<1>2. /\ act[a].at = "judge" /\ act[a].id \in Rows /\ act[a].event \in Events
      /\ act[a].at \in WorkerPlaces \cup RequestPlaces /\ act[a].back \in Phases \cup {"reapply"}
  BY <1>1 DEF Judge, InPlace, ActType
<1> DEFINE row == [subs[act[a].id] EXCEPT !.method = IF act[a].method = "" THEN @ ELSE act[a].method]
<1>3. row \in RowType
  <2>1. subs[act[a].id] \in RowType
    BY <1>2 DEF Types, SubsOK
  <2>2. act[a].method # "" => act[a].method \in Methods
    BY <1>1 DEF ActType
  <2> QED
    BY <2>1, <2>2 DEF RowType
<1>4. PICK goal \in Goals(act[a].id, row, act[a].link) :
        act' = [act EXCEPT ![a].at = "write", ![a].row = Copy(row), ![a].goal = goal]
  BY DEF Judge
<1> DEFINE t == [act[a] EXCEPT !.at = "write", !.row = Copy(row), !.goal = goal]
<1>5. goal \in Decisions /\ Copy(row) \in RowType
  BY <1>3, GoalsDecide, CopyType
<1> HIDE DEF row
<1>6. /\ t \in ActType /\ t.at = "write" /\ t.id = act[a].id /\ t.event = act[a].event
      /\ t.goal = goal /\ t.back = act[a].back
  BY <1>1, <1>5 DEF ActType, WorkerPlaces
<1>7. InPlace(a, t)
  BY <1>1, <1>2, <1>5, <1>6 DEF InPlace, WorkerPlaces, RequestPlaces
<1>8. act' = [act EXCEPT ![a] = t]
  BY <1>1, <1>4 DEF ActsOK
<1> HIDE DEF t
<1>9. ActsOK' /\ act'[a] = t /\ \A b \in Threads \ {a} : act'[b] = act[b]
  BY <1>1, <1>6, <1>7, <1>8, ActWritten
<1> QED
  BY <1>2, <1>6, <1>9 DEF Judge

LEMMA WriteKeeps ==
  ASSUME Types, NEW a \in Threads, Write(a)
  PROVE  /\ ActsOK' /\ Kept /\ UNCHANGED <<camp, dest, troubles>>
         /\ act[a].at = "write" /\ act'[a].at = act[a].back
         /\ \A b \in Threads \ {a} : act'[b] = act[b]
<1>1. SubsOK /\ PostedOK /\ ActsOK /\ act[a] \in ActType /\ InPlace(a, act[a])
  BY DEF Types, ActsOK
<1> DEFINE t == act[a]
           row == Judged(subs[t.id], t)
           cut == [t EXCEPT !.goal = "cancelled"]
           twice == [Judged(subs[t.id], cut) EXCEPT !.due = subs[t.id].due]
           written == IF Clash(t.id, row) THEN twice ELSE row
<1>2. t.at = "write" /\ t.id \in Rows /\ t.event \in Events /\ t.goal \in Decisions
  BY <1>1 DEF Write, InPlace
<1>3. subs[t.id] \in RowType
  BY <1>1, <1>2 DEF SubsOK
<1>4. row \in RowType /\ row.status = t.goal /\ row.by = subs[t.id].by
  BY <1>1, <1>2, <1>3, JudgedType
<1>5. twice \in RowType /\ twice.status = "cancelled" /\ twice.by = subs[t.id].by
  <2>1. cut \in ActType /\ cut.goal = "cancelled" /\ "cancelled" \in Decisions
    BY <1>1 DEF ActType, Decisions
  <2> HIDE DEF cut
  <2>2. Judged(subs[t.id], cut) \in RowType /\ Judged(subs[t.id], cut).status = "cancelled"
        /\ Judged(subs[t.id], cut).by = subs[t.id].by
    BY <1>3, <2>1, JudgedType
  <2>3. subs[t.id].due \in BOOLEAN
    BY <1>3, Columns
  <2> QED
    BY <2>2, <2>3 DEF RowType
<1>6. Try(t.id, t.event, written) /\ Return(a) /\ UNCHANGED <<camp, dest, posted, troubles>>
  BY DEF Write
<1> HIDE DEF row, twice
<1>7. written \in RowType /\ written.by = subs[t.id].by /\ written.status \in Decisions
  BY <1>2, <1>4, <1>5 DEF Decisions
<1>8. Gentle(subs[t.id], written) \/ ~Clash(t.id, written)
  BY <1>5 DEF Gentle, Counts
<1>9. Allowed(t.id, t.event) => Quiet(subs[t.id], written)
  BY <1>2, <1>7, SourceKinds, Kinds DEF Allowed, Quiet, Unsent, Events, Decisions
<1>10. Kept
  BY <1>1, <1>2, <1>6, <1>7, <1>8, <1>9, QuietTry
<1> QED
  BY <1>1, <1>2, <1>6, <1>10, Returned

LEMMA EditableCounts ==
  ASSUME NEW r \in RowType, r.status \in Editable, NEW q, q.link = r.link
  PROVE  Gentle(r, q)
BY Kinds DEF Gentle, Counts

LEMMA LookKeeps ==
  ASSUME Types, NEW a \in Threads, Look(a)
  PROVE  /\ ActsOK' /\ Kept /\ UNCHANGED <<camp, dest, troubles>>
         /\ act[a].at = "look" /\ act'[a].at \in {"judge", act[a].back}
         /\ \A b \in Threads \ {a} : act'[b] = act[b]
<1> DEFINE t == act[a]
           now == subs[t.id]
           Becomes(event, status, due) ==
             Apply(t.id, event, [now EXCEPT !.status = status, !.due = due])
           free(link) == [now EXCEPT !.status = "manual", !.due = FALSE]
           linked(link) == [free(link) EXCEPT !.link = link, !.typed = FALSE]
           Blocked(link) == Apply(t.id, "url_found",
                                  IF Clash(t.id, linked(link)) THEN free(link) ELSE linked(link))
<1>1. SubsOK /\ PostedOK /\ ActsOK /\ t \in ActType /\ InPlace(a, t) /\ t.at = "look" /\ t.id \in Rows
  BY DEF Types, ActsOK, InPlace, Look
<1>2. now \in RowType /\ UNCHANGED <<camp, dest, posted, troubles>>
  BY <1>1 DEF SubsOK, Look
<1>3. \/ \E link \in Links : StartJudge(a, "url_found", link, FALSE, "") /\ UNCHANGED subs
      \/ /\ Return(a)
         /\ \/ Becomes("url_found", "manual", FALSE)
            \/ \E link \in Links : Blocked(link)
            \/ Becomes("published_no_url", "waiting_url", FALSE)
            \/ Becomes("url_overdue", "manual", FALSE)
            \/ \E status \in {"manual", "waiting_publication"} : Becomes("post_failed", status, FALSE)
            \/ Becomes("stale", "manual", FALSE)
            \/ subs' = [subs EXCEPT ![t.id].due = FALSE]
            \/ UNCHANGED subs
  BY DEF Look
<1>4. ASSUME NEW link \in Links, StartJudge(a, "url_found", link, FALSE, ""), UNCHANGED subs
      PROVE  /\ ActsOK' /\ Kept /\ act'[a].at = "judge"
             /\ \A b \in Threads \ {a} : act'[b] = act[b]
  <2> DEFINE u == [t EXCEPT !.at = "judge", !.row = Idle.row, !.event = "url_found", !.link = link,
                            !.typed = FALSE, !.method = ""]
  <2>1. Idle.row \in RowType
    BY IdleType DEF ActType
  <2>2. /\ u \in ActType /\ u.at = "judge" /\ u.event = "url_found" /\ u.id = t.id
        /\ u.back = t.back
    BY <1>1, <2>1 DEF ActType, WorkerPlaces, Linkable, Events
  <2>3. act' = [act EXCEPT ![a] = u]
    BY <1>1, <1>4 DEF StartJudge, ActsOK
  <2> HIDE DEF u
  <2>4. InPlace(a, u)
    BY <1>1, <2>2 DEF InPlace, WorkerPlaces, RequestPlaces, Events
  <2> QED
    BY <1>1, <1>2, <1>4, <2>2, <2>3, <2>4, ActWritten, NothingKept
<1>5. ASSUME NEW event \in {"url_found", "published_no_url", "url_overdue", "post_failed", "stale"},
             NEW status \in {"manual", "waiting_url", "waiting_publication"},
             Becomes(event, status, FALSE)
      PROVE  Kept
  <2> DEFINE row == [now EXCEPT !.status = status, !.due = FALSE]
  <2>1. row \in RowType /\ row.status = status /\ row.by = now.by /\ row.link = now.link
    BY <1>2, Kinds DEF RowType
  <2>2. subs' = [subs EXCEPT ![t.id] = row] /\ now.status \in Sources[event]
    BY <1>5 DEF Apply, Allowed
  <2> HIDE DEF row
  <2>3. now.status \in Editable
    BY <2>2, SourceKinds
  <2>4. Quiet(now, row) /\ Gentle(now, row)
    BY <1>2, <2>1, <2>3, EditableCounts, Kinds DEF Quiet, Unsent
  <2> QED
    BY <1>1, <1>2, <2>1, <2>2, <2>4, QuietWrite
<1>6. ASSUME NEW link \in Links, Blocked(link)
      PROVE  Kept
  <2> DEFINE one == free(link)
             two == linked(link)
             row == IF Clash(t.id, two) THEN one ELSE two
  <2>1. one \in RowType /\ one.status = "manual" /\ one.by = now.by /\ one.link = now.link
    BY <1>2, Kinds DEF RowType
  <2>2. two \in RowType /\ two.status = "manual" /\ two.by = now.by
    BY <2>1 DEF RowType
  <2>3. subs' = [subs EXCEPT ![t.id] = row] /\ now.status \in Sources["url_found"]
    BY <1>6 DEF Apply, Allowed
  <2> HIDE DEF one, two
  <2>4. now.status \in Editable
    BY <2>3, SourceKinds
  <2>5. Gentle(now, one)
    BY <1>2, <2>1, <2>4, EditableCounts
  <2>6. row \in RowType /\ row.status = "manual" /\ row.by = now.by
        /\ (Gentle(now, row) \/ ~Clash(t.id, row))
    BY <2>1, <2>2, <2>5
  <2>7. Quiet(now, row)
    BY <2>4, <2>6, Kinds DEF Quiet, Unsent
  <2> HIDE DEF row
  <2> QED
    BY <1>1, <1>2, <2>3, <2>6, <2>7, QuietWrite
<1>7. ASSUME subs' = [subs EXCEPT ![t.id].due = FALSE]
      PROVE  Kept
  <2> DEFINE row == [now EXCEPT !.due = FALSE]
  <2>1. /\ row \in RowType /\ row.status = now.status /\ row.by = now.by /\ row.link = now.link
        /\ subs' = [subs EXCEPT ![t.id] = row]
    BY <1>1, <1>2, <1>7 DEF RowType, SubsOK
  <2> HIDE DEF row
  <2>2. Quiet(now, row) /\ Gentle(now, row)
    BY <2>1 DEF Quiet, Same, Gentle, Counts
  <2> QED
    BY <1>1, <1>2, <2>1, <2>2, QuietWrite
<1>8. UNCHANGED subs => Kept
  BY <1>1, <1>2, NothingKept
<1> HIDE DEF Becomes, Blocked
<1> QED
  BY <1>1, <1>2, <1>3, <1>4, <1>5, <1>6, <1>7, <1>8, Returned

-----------------------------------------------------------------------------
(* The desk. A write that starts a row's history again.                     *)
LEMMA FreshWrite ==
  ASSUME SubsOK, PostedOK, NEW s \in Rows, NEW row \in RowType, subs' = [subs EXCEPT ![s] = row],
         Freshly(subs[s], row) \/ Again(subs[s], row),
         \/ posted' = [posted EXCEPT ![s] = 0]
         \/ subs[s].status = "none" /\ UNCHANGED posted,
         Gentle(subs[s], row) \/ ~Clash(s, row)
  PROVE  Kept
<1>1. SubsOK' /\ subs'[s] = row /\ \A u \in Rows \ {s} : subs'[u] = subs[u]
  BY RowWritten
<1>2. /\ PostedOK' /\ \A u \in Rows \ {s} : posted'[u] = posted[u]
      /\ posted'[s] = 0 \/ (subs[s].status = "none" /\ posted'[s] = posted[s])
  BY DEF PostedOK
<1>3. DeskStep
  BY <1>1, <1>2, SameIsQuiet DEF DeskStep
<1>4. LinkStep
  BY <1>1, SameIsQuiet DEF LinkStep
<1> QED
  BY <1>1, <1>2, <1>3, <1>4 DEF Kept

(* A request of the app writes only its own thread.                         *)
RequestMoves == ActsOK' /\ act'["worker"] = act["worker"]

LEMMA RequestWritten ==
  ASSUME ActsOK, NEW t \in ActType, InPlace("request", t), act' = [act EXCEPT !["request"] = t]
  PROVE  RequestMoves
<1>1. "request" \in Threads /\ "worker" \in Threads \ {"request"}
  BY DEF Threads
<1> QED
  BY <1>1, ActWritten DEF RequestMoves

LEMMA ActsStill == ActsOK /\ UNCHANGED act => RequestMoves
BY DEF ActsOK, RequestMoves

LEMMA AttachKeeps ==
  ASSUME Types, NEW s \in Rows, Attach(s)
  PROVE  Kept /\ RequestMoves
<1>1. SubsOK /\ PostedOK /\ ActsOK /\ UNCHANGED <<camp, dest, posted, troubles>>
  BY DEF Types, Attach
<1>2. camp[s[1]].method \in Methods /\ act["request"] \in ActType /\ InPlace("request", act["request"])
  BY SubmissionAssumption DEF Types, CampOK, ActsOK, Threads
<1>3. ASSUME NEW mode \in Modes, subs[s].status = "none",
             subs' = [subs EXCEPT ![s] = NewRow(camp[s[1]].method, mode = "later", mode = "review")],
             act' = [act EXCEPT !["request"].at = "look", !["request"].id = s,
                                !["request"].row = Copy(NewRow(camp[s[1]].method, mode = "later",
                                                               mode = "review"))]
      PROVE  Kept /\ RequestMoves
  <2> DEFINE row == NewRow(camp[s[1]].method, mode = "later", mode = "review")
             t == [act["request"] EXCEPT !.at = "look", !.id = s, !.row = Copy(row)]
  <2>1. (mode = "later") \in BOOLEAN /\ (mode = "review") \in BOOLEAN
    OBVIOUS
  <2>2. row \in RowType /\ row.status = "waiting_publication" /\ row.link = NoLink /\ row.by = ""
    BY <1>2, <2>1, NewRowType
  <2>3. subs' = [subs EXCEPT ![s] = row]
    BY <1>3
  <2>4. Copy(row) \in RowType
    BY <2>2, CopyType
  <2>5. act' = [act EXCEPT !["request"] = t]
    BY <1>1, <1>3 DEF ActsOK
  <2> HIDE DEF row
  <2>6. t \in ActType /\ t.at = "look" /\ t.id = s /\ t.back = act["request"].back
    BY <1>2, <2>4 DEF ActType, WorkerPlaces
  <2> HIDE DEF t
  <2>7. InPlace("request", t)
    BY <1>2, <2>6 DEF InPlace, RequestPlaces
  <2>8. Freshly(subs[s], row) /\ Gentle(subs[s], row)
    BY <1>3, <2>2, Kinds DEF Freshly, Gentle
  <2> QED
    BY <1>1, <1>3, <2>2, <2>3, <2>5, <2>6, <2>7, <2>8, FreshWrite, RequestWritten
<1>4. ASSUME subs' = [subs EXCEPT ![s].due = TRUE], UNCHANGED act
      PROVE  Kept /\ RequestMoves
  <2> DEFINE row == [subs[s] EXCEPT !.due = TRUE]
  <2>0. subs[s] \in RowType /\ subs' = [subs EXCEPT ![s] = row]
    BY <1>1, <1>4 DEF SubsOK
  <2>1. /\ row \in RowType /\ row.status = subs[s].status /\ row.by = subs[s].by
        /\ row.link = subs[s].link
    BY <2>0 DEF RowType
  <2> HIDE DEF row
  <2>2. Quiet(subs[s], row) /\ Gentle(subs[s], row)
    BY <2>1 DEF Quiet, Same, Gentle, Counts
  <2> QED
    BY <1>1, <1>4, <2>0, <2>1, <2>2, QuietWrite, ActsStill
<1> QED
  BY <1>3, <1>4 DEF Attach

LEMMA ReopenKeeps ==
  ASSUME Types, NEW s \in Rows, Reopen(s)
  PROVE  Kept /\ RequestMoves
<1>1. SubsOK /\ PostedOK /\ ActsOK /\ subs[s] \in RowType /\ subs[s].status \in Reopenable
  BY SourceKinds DEF Types, Reopen, SubsOK, Apply, Allowed
<1>2. camp[s[1]].method \in Methods /\ act["request"] \in ActType /\ InPlace("request", act["request"])
  BY SubmissionAssumption DEF Types, CampOK, ActsOK, Threads
<1>0. PICK mode \in Modes :
        /\ Apply(s, "reopen", Restarted(s, mode))
        /\ IF subs[s].typed
           THEN act' = [act EXCEPT !["request"].at = "judge", !["request"].id = s,
                                   !["request"].event = "set_url", !["request"].link = subs[s].link,
                                   !["request"].typed = TRUE]
           ELSE act' = [act EXCEPT !["request"].at = "look", !["request"].id = s,
                                   !["request"].row = Copy(Restarted(s, mode))]
  BY DEF Reopen
<1> DEFINE row == Restarted(s, mode)
           judged == [act["request"] EXCEPT !.at = "judge", !.id = s, !.event = "set_url",
                                            !.link = subs[s].link, !.typed = TRUE]
           looked == [act["request"] EXCEPT !.at = "look", !.id = s, !.row = Copy(row)]
<1>3. row \in RowType /\ row.status = "waiting_publication" /\ row.link = NoLink /\ row.by = ""
  <2>1. Reopened(subs[s]) \in RowType /\ Reopened(subs[s]).status = "waiting_publication"
        /\ Reopened(subs[s]).link = NoLink /\ Reopened(subs[s]).by = ""
    BY <1>1, Kinds DEF Reopened, RowType
  <2> QED
    BY <1>2, <2>1, (mode = "later") \in BOOLEAN, (mode = "review") \in BOOLEAN DEF Restarted, RowType
<1>4. subs' = [subs EXCEPT ![s] = row] /\ posted' = [posted EXCEPT ![s] = 0]
  BY <1>0 DEF Reopen, Apply
<1>5. act' = [act EXCEPT !["request"] = judged] \/ act' = [act EXCEPT !["request"] = looked]
  BY <1>0, <1>1 DEF ActsOK
<1>6. subs[s].link \in Linkable /\ Copy(row) \in RowType
  BY <1>1, <1>3, Columns, CopyType
<1> HIDE DEF row
<1>7. /\ judged \in ActType /\ judged.at = "judge" /\ judged.id = s /\ judged.event = "set_url"
      /\ judged.back = act["request"].back
  BY <1>2, <1>6 DEF ActType, WorkerPlaces, Events
<1>8. looked \in ActType /\ looked.at = "look" /\ looked.id = s /\ looked.back = act["request"].back
  BY <1>2, <1>6 DEF ActType, WorkerPlaces
<1> HIDE DEF judged, looked
<1>9. InPlace("request", judged) /\ InPlace("request", looked)
  BY <1>2, <1>7, <1>8 DEF InPlace, RequestPlaces, Events
<1>10. RequestMoves
  BY <1>1, <1>5, <1>7, <1>8, <1>9, RequestWritten
<1>11. Freshly(subs[s], row) /\ Gentle(subs[s], row)
  BY <1>1, <1>3, Kinds DEF Freshly, Gentle
<1> QED
  BY <1>1, <1>3, <1>4, <1>10, <1>11, FreshWrite

LEMMA EditKeeps ==
  ASSUME Types, NEW s \in Rows, EditLink(s) \/ EditMethod(s)
  PROVE  Kept /\ RequestMoves
<1>1. SubsOK /\ PostedOK /\ ActsOK /\ subs[s] \in RowType /\ UNCHANGED <<subs, posted>>
  BY DEF Types, SubsOK, EditLink, EditMethod, table
<1>2. act["request"] \in ActType /\ InPlace("request", act["request"])
  BY DEF Types, ActsOK, Threads
<1>3. PICK at \in {"judge", "keep"}, row \in RowType, event \in {"set_url", "edit"},
           link \in Linkable, typed \in BOOLEAN, method \in Methods \cup {""} :
        /\ at = "keep" => event = "edit" /\ method \in Methods
        /\ act' = [act EXCEPT !["request"] =
                     [act["request"] EXCEPT !.at = at, !.id = s, !.row = row, !.event = event,
                                            !.link = link, !.typed = typed, !.method = method]]
  <2>1. CASE EditLink(s)
    <3>1. PICK link \in Links :
            act' = [act EXCEPT !["request"].at = "judge", !["request"].id = s,
                 !["request"].event = IF Allowed(s, "set_url") THEN "set_url" ELSE "edit",
                 !["request"].link = link, !["request"].typed = TRUE]
      BY <2>1 DEF EditLink
    <3> DEFINE event == IF Allowed(s, "set_url") THEN "set_url" ELSE "edit"
               method == act["request"].method
               row == act["request"].row
               t == [act["request"] EXCEPT !.at = "judge", !.id = s, !.row = row, !.event = event,
                                           !.link = link, !.typed = TRUE, !.method = method]
    <3>2. method \in Methods \cup {""} /\ row \in RowType
      BY <1>2 DEF ActType
    <3>3. event \in {"set_url", "edit"} /\ link \in Linkable
      BY DEF Linkable
    <3>4. act' = [act EXCEPT !["request"] = [act["request"] EXCEPT !.at = "judge", !.id = s,
                                        !.event = event, !.link = link, !.typed = TRUE]]
      BY <1>1, <3>1 DEF ActsOK
    <3>5. [act["request"] EXCEPT !.at = "judge", !.id = s, !.event = event, !.link = link,
                                 !.typed = TRUE] = t
      BY <1>2 DEF ActType
    <3>6. act' = [act EXCEPT !["request"] = t]
      BY <3>4, <3>5
    <3> HIDE DEF event, method, row
    <3> QED
      BY <3>2, <3>3, <3>6
  <2>2. CASE EditMethod(s)
    <3>1. PICK method \in Methods :
            act' = [act EXCEPT !["request"].at = IF subs[s].link = NoLink THEN "keep" ELSE "judge",
                 !["request"].id = s, !["request"].row = Copy(subs[s]), !["request"].event = "edit",
                 !["request"].link = subs[s].link, !["request"].typed = subs[s].typed,
                 !["request"].method = method]
      BY <2>2 DEF EditMethod
    <3> DEFINE at == IF subs[s].link = NoLink THEN "keep" ELSE "judge"
    <3>2. at \in {"judge", "keep"} /\ Copy(subs[s]) \in RowType /\ subs[s].link \in Linkable
          /\ subs[s].typed \in BOOLEAN
      BY <1>1, Columns, CopyType
    <3>3. act' = [act EXCEPT !["request"] =
                     [act["request"] EXCEPT !.at = at, !.id = s, !.row = Copy(subs[s]), !.event = "edit",
                            !.link = subs[s].link, !.typed = subs[s].typed, !.method = method]]
      BY <1>1, <3>1 DEF ActsOK
    <3> HIDE DEF at
    <3> QED
      BY <3>2, <3>3
  <2> QED
    BY <2>1, <2>2
<1> DEFINE t == [act["request"] EXCEPT !.at = at, !.id = s, !.row = row, !.event = event,
                                       !.link = link, !.typed = typed, !.method = method]
<1>4. /\ t \in ActType /\ t.at = at /\ t.id = s /\ t.event = event /\ t.method = method
      /\ t.back = act["request"].back
  <2>1. at \in WorkerPlaces \cup RequestPlaces /\ event \in Events \cup {""} /\ s \in Rows \cup {NoRow}
    BY DEF WorkerPlaces, RequestPlaces, Events
  <2>2. t \in ActType
    BY <1>2, <2>1 DEF ActType
  <2>3. t.at = at /\ t.id = s /\ t.event = event /\ t.method = method
        /\ t.back = act["request"].back
    BY <1>2 DEF ActType
  <2> QED
    BY <2>2, <2>3
<1>5. act' = [act EXCEPT !["request"] = t]
  BY <1>3
<1> HIDE DEF t
<1>6. InPlace("request", t)
  BY <1>2, <1>3, <1>4 DEF InPlace, RequestPlaces, Events
<1> QED
  BY <1>1, <1>4, <1>5, <1>6, RequestWritten, NothingKept

LEMMA HoldKeeps ==
  ASSUME Types, NEW s \in Rows, EditHold(s)
  PROVE  Kept /\ RequestMoves
<1> DEFINE row == [subs[s] EXCEPT !.hold = ~@]
<1>1. SubsOK /\ PostedOK /\ ActsOK /\ subs[s] \in RowType /\ UNCHANGED <<posted, act>>
  BY DEF Types, SubsOK, EditHold
<1>2. subs' = [subs EXCEPT ![s] = row]
  BY DEF EditHold, Apply
<1>3. row \in RowType /\ row.status = subs[s].status /\ row.by = subs[s].by /\ row.link = subs[s].link
  BY <1>1 DEF RowType
<1> HIDE DEF row
<1>4. Quiet(subs[s], row) /\ Gentle(subs[s], row)
  BY <1>3 DEF Quiet, Same, Gentle, Counts
<1> QED
  BY <1>1, <1>2, <1>3, <1>4, QuietWrite, ActsStill

(* The buttons: each says what the row becomes.                             *)
LEMMA PressKeeps ==
  ASSUME Types, NEW s \in Rows, Press(s)
  PROVE  Kept /\ RequestMoves
<1>1. SubsOK /\ PostedOK /\ ActsOK /\ subs[s] \in RowType /\ UNCHANGED act
  BY DEF Types, SubsOK, Press
(* A quiet write that keeps the link.                                        *)
<1>a. ASSUME NEW row \in RowType, subs' = [subs EXCEPT ![s] = row], UNCHANGED posted,
             Quiet(subs[s], row), row.link = subs[s].link, Counts(row) => Counts(subs[s])
      PROVE  Kept /\ RequestMoves
  BY <1>1, <1>a, QuietWrite, ActsStill DEF Gentle
<1>2. CASE Approve(s) \/ Submit(s) \/ Retry(s)
  <2>1. PICK row \in RowType :
          /\ subs' = [subs EXCEPT ![s] = row] /\ subs[s].status \in Editable
          /\ row.status \in {"ready", "manual"} /\ row.by = subs[s].by /\ row.link = subs[s].link
    <3>1. /\ ByMethod(subs[s]) \in RowType /\ ByMethod(subs[s]).status \in {"ready", "manual"}
          /\ ByMethod(subs[s]).by = subs[s].by /\ ByMethod(subs[s]).link = subs[s].link
      <4> DEFINE due == subs[s].due \/ subs[s].method = "webhook"
                 status == IF subs[s].method = "webhook" THEN "ready" ELSE "manual"
      <4>1. due \in BOOLEAN /\ status \in {"ready", "manual"}
        BY <1>1, Columns
      <4>2. ByMethod(subs[s]) = [subs[s] EXCEPT !.status = status, !.due = due]
        BY DEF ByMethod
      <4> HIDE DEF due, status
      <4> QED
        BY <1>1, <4>1, <4>2, Kinds DEF RowType
    <3> HIDE DEF ByMethod
    <3>2. CASE Approve(s)
      BY <3>1, <3>2, SourceKinds DEF Approve, Apply, Allowed
    <3>3. CASE Submit(s)
      <4> DEFINE row == [ByMethod(subs[s]) EXCEPT !.hold = FALSE]
      <4>1. row \in RowType /\ row.status \in {"ready", "manual"} /\ row.by = subs[s].by
            /\ row.link = subs[s].link
        BY <3>1 DEF RowType
      <4>2. subs' = [subs EXCEPT ![s] = row] /\ subs[s].status \in Editable
        BY <3>3, SourceKinds DEF Submit, Apply, Allowed
      <4> HIDE DEF row
      <4> QED
        BY <4>1, <4>2
    <3>4. CASE Retry(s)
      <4> DEFINE row == [subs[s] EXCEPT !.status = "ready", !.tries = 0, !.due = TRUE]
      <4>1. row \in RowType /\ row.status = "ready" /\ row.by = subs[s].by /\ row.link = subs[s].link
        BY <1>1, Kinds DEF RowType
      <4>2. subs' = [subs EXCEPT ![s] = row] /\ subs[s].status \in Editable
        BY <3>4, SourceKinds DEF Retry, Apply, Allowed
      <4> HIDE DEF row
      <4> QED
        BY <4>1, <4>2
    <3> QED
      BY <1>2, <3>2, <3>3, <3>4
  <2>2. UNCHANGED posted
    BY <1>2 DEF Approve, Submit, Retry
  <2>3. Quiet(subs[s], row) /\ Counts(subs[s])
    BY <2>1, Kinds DEF Quiet, Unsent, Counts
  <2> QED
    BY <1>a, <2>1, <2>2, <2>3
<1>3. CASE Cancel(s) \/ RecordSubmitted(s) \/ RecordAnswer(s)
  <2>1. PICK status \in SentOff \cup {"cancelled", "confirmed", "rejected"}, by \in {subs[s].by, "user"} :
          /\ subs' = [subs EXCEPT ![s] = [subs[s] EXCEPT !.status = status, !.by = by]]
          /\ subs[s].status \in Editable \cup SentOff
    <3>1. \A status : [subs[s] EXCEPT !.status = status]
                        = [subs[s] EXCEPT !.status = status, !.by = subs[s].by]
      BY <1>1 DEF RowType
    <3>2. CASE Cancel(s)
      <4>1. /\ subs' = [subs EXCEPT ![s] = [subs[s] EXCEPT !.status = "cancelled"]]
            /\ subs[s].status \in Editable \cup SentOff
        BY <3>2, SourceKinds DEF Cancel, Apply, Allowed
      <4> QED
        BY <3>1, <4>1
    <3>3. CASE RecordSubmitted(s)
      BY <3>3, SourceKinds DEF RecordSubmitted, Apply, Allowed
    <3>4. CASE RecordAnswer(s)
      <4>1. PICK answer \in {"confirmed", "rejected"} :
              /\ subs' = [subs EXCEPT ![s] = [subs[s] EXCEPT !.status = answer]]
              /\ subs[s].status \in Editable \cup SentOff
        BY <3>4, SourceKinds DEF RecordAnswer, Apply, Allowed
      <4> QED
        BY <3>1, <4>1
    <3> QED
      BY <1>3, <3>2, <3>3, <3>4
  <2> DEFINE row == [subs[s] EXCEPT !.status = status, !.by = by]
  <2>2. row \in RowType /\ row.status = status /\ row.by = by /\ row.link = subs[s].link
    <3>1. status \in Statuses /\ by \in {"", "webhook", "user"}
      BY <1>1, Columns, Kinds
    <3> QED
      BY <1>1, <3>1 DEF RowType
  <2> HIDE DEF row
  <2>3. Quiet(subs[s], row) /\ Counts(subs[s]) /\ UNCHANGED posted
    BY <1>3, <2>1, <2>2, Kinds DEF Quiet, Told, Counts, Cancel, RecordSubmitted, RecordAnswer
  <2> QED
    BY <1>a, <2>1, <2>2, <2>3 DEF row
<1>4. CASE SendAgain(s)
  <2> DEFINE row == [subs[s] EXCEPT !.status = "ready", !.due = TRUE, !.by = ""]
  <2>1. row \in RowType /\ row.status = "ready" /\ row.by = "" /\ row.link = subs[s].link
    BY <1>1, Kinds DEF RowType
  <2>2. /\ subs' = [subs EXCEPT ![s] = row] /\ posted' = [posted EXCEPT ![s] = 0]
        /\ subs[s].status = "awaiting_confirmation" /\ subs[s].by # "user"
    BY <1>4, SourceKinds DEF SendAgain, Apply, Allowed, Guard
  <2> HIDE DEF row
  <2>3. Again(subs[s], row) /\ Gentle(subs[s], row)
    BY <2>1, <2>2 DEF Again, Gentle, Counts
  <2> QED
    BY <1>1, <2>1, <2>2, <2>3, FreshWrite, ActsStill
<1>5. CASE Opened(s)
  <2> DEFINE row == [subs[s] EXCEPT !.opened = TRUE]
  <2>1. row \in RowType /\ row.status = subs[s].status /\ row.by = subs[s].by /\ row.link = subs[s].link
    BY <1>1 DEF RowType
  <2>2. subs' = [subs EXCEPT ![s] = row] /\ UNCHANGED posted
    BY <1>1, <1>5 DEF Opened, SubsOK
  <2> HIDE DEF row
  <2>3. Quiet(subs[s], row) /\ (Counts(row) => Counts(subs[s]))
    BY <2>1 DEF Quiet, Same, Counts
  <2> QED
    BY <1>a, <2>1, <2>2, <2>3
<1> QED
  BY <1>2, <1>3, <1>4, <1>5 DEF Press

(* A moved row is new where it goes, and does not clash there.              *)
LEMMA MovedRow ==
  ASSUME Types, NEW s \in Rows, NEW t \in Rows, NEW row \in Moved(s, t)
  PROVE  /\ row \in RowType /\ row.by = "" /\ row.status \in PreSend \cup {"cancelled", "expired"}
         /\ ~Clash(t, row)
<1> DEFINE carried == NewRow(camp[t[1]].method, subs[s].hold, subs[s].first)
<1>1. subs[s] \in RowType /\ subs[t] \in RowType /\ camp[t[1]].method \in Methods
  BY SubmissionAssumption DEF Types, SubsOK, CampOK
<1>2. carried \in RowType /\ carried.link = NoLink /\ carried.by = ""
  <2> DEFINE method == camp[t[1]].method
             hold == subs[s].hold
             first == subs[s].first
  <2>1. method \in Methods /\ hold \in BOOLEAN /\ first \in BOOLEAN
    BY <1>1, Columns
  <2>2. carried = NewRow(method, hold, first)
    OBVIOUS
  <2> HIDE DEF method, hold, first, carried
  <2>3. /\ NewRow(method, hold, first) \in RowType
        /\ NewRow(method, hold, first).link = NoLink /\ NewRow(method, hold, first).by = ""
    BY <2>1, NewRowType
  <2> QED
    BY <2>2, <2>3
<1> DEFINE Found(link, typed) == {[carried EXCEPT !.link = link, !.typed = typed, !.status = goal] :
                                    goal \in Goals(t, carried, link)}
           Good(r) == /\ r \in RowType /\ r.by = "" /\ ~Clash(t, r)
                      /\ r.status \in PreSend \cup {"cancelled", "expired"}
<1>3. row \in {[carried EXCEPT !.status = status, !.due = FALSE] : status \in Waiting \cup {"manual"}}
      \/ \E link \in Linkable, typed \in BOOLEAN : row \in Found(link, typed)
  <2>1. subs[s].link \in Linkable /\ subs[t].link \in Linkable /\ Links \subseteq Linkable
    BY <1>1, Columns DEF Linkable
  <2> HIDE DEF Found
  <2>2. \/ row \in Found(subs[s].link, TRUE)
        \/ row \in Found(subs[t].link, TRUE)
        \/ row \in {[carried EXCEPT !.status = status, !.due = FALSE] : status \in Waiting \cup {"manual"}}
        \/ \E link \in Links : row \in Found(link, FALSE)
    BY DEF Moved, Found
  <2> QED
    BY <2>1, <2>2
<1> HIDE DEF carried
<1>4. ASSUME NEW status \in Waiting \cup {"manual"}, row = [carried EXCEPT !.status = status, !.due = FALSE]
      PROVE  Good(row)
  <2>1. status \in Statuses /\ status \in PreSend
    BY Kinds DEF Waiting
  <2>2. row \in RowType /\ row.by = "" /\ row.link = NoLink /\ row.status = status
    BY <1>2, <1>4, <2>1 DEF RowType
  <2> QED
    BY <2>1, <2>2 DEF Clash
<1>5. ASSUME NEW link \in Linkable, NEW typed \in BOOLEAN, NEW goal \in Goals(t, carried, link),
             row = [carried EXCEPT !.link = link, !.typed = typed, !.status = goal]
      PROVE  Good(row)
  <2>1. goal \in Decisions /\ goal \in Statuses /\ goal \in PreSend \cup {"cancelled", "expired"}
    BY GoalsDecide, Kinds DEF Decisions
  <2>2. row \in RowType /\ row.by = "" /\ row.link = link /\ row.status = goal
    BY <1>2, <1>5, <2>1 DEF RowType, Linkable
  <2>3. Duplicate(t, link) => goal = "cancelled"
    BY DEF Goals
  <2>4. ~Clash(t, row)
    BY <2>2, <2>3 DEF Clash, Counts
  <2> QED
    BY <2>1, <2>2, <2>4
<1> QED
  BY <1>3, <1>4, <1>5

LEMMA MoveKeeps ==
  ASSUME Types, NEW s \in Rows, NEW t \in Rows, Move(s, t)
  PROVE  Kept /\ RequestMoves
<1>1. SubsOK /\ PostedOK /\ ActsOK /\ subs[s] \in RowType /\ UNCHANGED act /\ s # t
  BY DEF Types, SubsOK, Move
<1>2. PICK row \in Moved(s, t) : subs' = [subs EXCEPT ![s].status = "cancelled", ![t] = row]
  BY DEF Move
<1>3. /\ row \in RowType /\ row.by = "" /\ row.status \in PreSend \cup {"cancelled", "expired"}
      /\ ~Clash(t, row)
  BY MovedRow
<1> DEFINE left == [subs[s] EXCEPT !.status = "cancelled"]
<1>4. left \in RowType /\ left.status = "cancelled" /\ left.by = subs[s].by
  BY <1>1, Kinds DEF RowType
<1>5. /\ subs' \in [Rows -> RowType] /\ subs'[s] = left /\ subs'[t] = row
      /\ \A u \in Rows \ {s, t} : subs'[u] = subs[u]
  BY <1>1, <1>2, <1>3, <1>4 DEF SubsOK
<1> HIDE DEF left
<1>6. /\ posted' \in [Rows -> Nat] /\ posted'[t] = 0 /\ \A u \in Rows \ {t} : posted'[u] = posted[u]
  BY <1>1 DEF Move, PostedOK
<1>7. /\ subs[t].status \in {"none"} \cup Reopenable /\ subs[s].status \in Editable
  BY SourceKinds DEF Move, Allowed
<1>8. Quiet(subs[s], left) /\ Gentle(subs[s], left) /\ Freshly(subs[t], row)
  BY <1>3, <1>4, <1>7 DEF Quiet, Unsent, Gentle, Counts, Freshly
<1>9. DeskStep
  BY <1>1, <1>5, <1>6, <1>8, SameIsQuiet DEF DeskStep
<1>10. LinkStep
  BY <1>3, <1>5, <1>8, SameIsQuiet DEF LinkStep
<1> QED
  BY <1>1, <1>5, <1>6, <1>9, <1>10, ActsStill DEF Kept, SubsOK, PostedOK

(* Many rows at once, each cancelled or handed to the user unsent.          *)
LEMMA ManyKept ==
  ASSUME SubsOK, PostedOK, UNCHANGED posted, NEW hit \in SUBSET Rows,
         NEW status \in {"cancelled", "manual"},
         \A s \in hit : subs[s].status \in Editable,
         subs' = [s \in Rows |-> IF s \in hit THEN [subs[s] EXCEPT !.status = status] ELSE subs[s]]
  PROVE  Kept
<1>1. ASSUME NEW s \in Rows
      PROVE  subs'[s] \in RowType /\ Quiet(subs[s], subs'[s]) /\ Gentle(subs[s], subs'[s])
  <2>1. subs[s] \in RowType
    BY DEF SubsOK
  <2>2. CASE s \notin hit
    BY <2>1, <2>2, SameIsQuiet
  <2>3. CASE s \in hit
    <3> DEFINE row == [subs[s] EXCEPT !.status = status]
    <3>1. row \in RowType /\ row.status = status /\ row.by = subs[s].by /\ row.link = subs[s].link
      BY <2>1, Kinds DEF RowType
    <3>2. subs'[s] = row /\ subs[s].status \in Editable
      BY <2>3
    <3> HIDE DEF row
    <3> QED
      BY <2>1, <3>1, <3>2, EditableCounts, Kinds DEF Quiet, Unsent
  <2> QED
    BY <2>2, <2>3
<1> QED
  BY <1>1 DEF Kept, DeskStep, Gently, SubsOK, PostedOK

LEMMA ArchiveKeeps ==
  ASSUME Types, NEW c \in Campaigns, Archive(c)
  PROVE  Kept /\ RequestMoves
<1> DEFINE hit == {s \in Rows : s[1] = c /\ Allowed(s, "cancel") /\ subs[s].status \in Editable}
<1>1. SubsOK /\ PostedOK /\ ActsOK /\ UNCHANGED <<posted, act>>
  BY DEF Types, Archive
<1>2. subs' = [s \in Rows |-> IF s \in hit THEN [subs[s] EXCEPT !.status = "cancelled"] ELSE subs[s]]
  BY DEF Archive
<1>3. hit \in SUBSET Rows /\ \A s \in hit : subs[s].status \in Editable
  OBVIOUS
<1> HIDE DEF hit
<1> QED
  BY <1>1, <1>2, <1>3, ManyKept, ActsStill

LEMMA RemoveKeeps ==
  ASSUME Types, RemoveWebhook
  PROVE  Kept /\ RequestMoves
<1> DEFINE hit == {s \in Rows : Allowed(s, "destination_unusable")}
<1>1. SubsOK /\ PostedOK /\ ActsOK /\ UNCHANGED <<posted, act>>
  BY DEF Types, RemoveWebhook
<1>2. subs' = [s \in Rows |-> IF s \in hit THEN [subs[s] EXCEPT !.status = "manual"] ELSE subs[s]]
  BY DEF RemoveWebhook
<1>3. hit \in SUBSET Rows /\ \A s \in hit : subs[s].status \in Editable
  BY SourceKinds DEF Allowed
<1> HIDE DEF hit
<1> QED
  BY <1>1, <1>2, <1>3, ManyKept, ActsStill

LEMMA ChangeKeeps ==
  ASSUME Types, NEW c \in Campaigns, ChangeMethod(c)
  PROVE  Kept /\ RequestMoves
<1> DEFINE left == {s \in Rows : s[1] = c /\ subs[s].status \in Editable}
           t == [Idle EXCEPT !.at = "reapply", !.back = "reapply", !.left = left]
<1>1. SubsOK /\ PostedOK /\ ActsOK /\ UNCHANGED <<subs, posted>> /\ act' = [act EXCEPT !["request"] = t]
  BY DEF Types, ChangeMethod
<1>2. left \in SUBSET Rows
  OBVIOUS
<1> HIDE DEF left
<1>3. t \in ActType /\ t.at = "reapply" /\ t.back = "reapply"
  BY <1>2, IdleType DEF ActType, RequestPlaces
<1> HIDE DEF t
<1>4. InPlace("request", t)
  BY <1>3 DEF InPlace, RequestPlaces
<1> QED
  BY <1>1, <1>3, <1>4, RequestWritten, NothingKept

(* The request's own steps over a campaign whose method changed.            *)
LEMMA KeepKeeps ==
  ASSUME Types, Keep
  PROVE  Kept /\ RequestMoves
<1> DEFINE t == act["request"]
           now == subs[t.id]
           row == [now EXCEPT !.status = t.row.status, !.method = t.method,
                              !.own = @ \/ t.event = "edit"]
<1>1. SubsOK /\ PostedOK /\ ActsOK /\ t \in ActType /\ InPlace("request", t) /\ t.at = "keep"
  BY DEF Types, ActsOK, Threads, Keep
<1>2. /\ t.id \in Rows /\ t.event \in {"edit", "campaign_changed"} /\ t.method \in Methods
      /\ UNCHANGED posted /\ Return("request")
  BY <1>1 DEF InPlace, Keep
<1>3. now \in RowType /\ t.row \in RowType
  BY <1>1, <1>2 DEF SubsOK, ActType
<1>4. RequestMoves
  <2>1. "request" \in Threads /\ "worker" \in Threads \ {"request"}
    BY DEF Threads
  <2> QED
    BY <1>1, <1>2, <2>1, Returned DEF RequestMoves
<1>5. CASE UNCHANGED subs
  BY <1>1, <1>2, <1>4, <1>5, NothingKept
<1>6. CASE /\ Apply(t.id, t.event, row)
           /\ t.row.status \in {now.status, "ready", "review", "manual"}
  <2>1. now.status \in Editable /\ subs' = [subs EXCEPT ![t.id] = row]
    BY <1>2, <1>6, SourceKinds DEF Apply, Allowed
  <2>2. /\ row \in RowType /\ row.status = t.row.status /\ row.by = now.by /\ row.link = now.link
    <3>1. (now.own \/ t.event = "edit") \in BOOLEAN /\ t.row.status \in Statuses \cup {"none"}
      BY <1>3, Columns
    <3> QED
      BY <1>2, <1>3, <3>1 DEF RowType
  <2> HIDE DEF row
  <2>3. Quiet(now, row) /\ Gentle(now, row)
    BY <1>3, <1>6, <2>1, <2>2, EditableCounts, Kinds DEF Quiet, Unsent
  <2> QED
    BY <1>1, <1>2, <1>4, <2>1, <2>2, <2>3, QuietWrite
<1> QED
  BY <1>5, <1>6 DEF Keep

LEMMA ReapplyKeeps ==
  ASSUME Types, Reapply
  PROVE  Kept /\ RequestMoves
<1> DEFINE t == act["request"]
<1>1. /\ SubsOK /\ PostedOK /\ ActsOK /\ t \in ActType /\ InPlace("request", t) /\ t.at = "reapply"
      /\ UNCHANGED <<subs, posted>>
  BY DEF Types, ActsOK, Threads, Reapply, table
<1>2. Kept
  BY <1>1, NothingKept
<1>3. CASE act' = [act EXCEPT !["request"] = Idle]
  BY <1>1, <1>2, <1>3, IdleType, RequestWritten
<1>4. ASSUME NEW s \in t.left,
             LET rest == [t EXCEPT !.left = @ \ {s}]
                 method == camp[s[1]].method
                 keeps == subs[s].opened \/ subs[s].own \/ subs[s].method = method
             IN act' = [act EXCEPT !["request"] =
                  IF keeps THEN rest
                  ELSE [rest EXCEPT !.at = IF subs[s].link = NoLink THEN "keep" ELSE "judge",
                                    !.id = s, !.row = Copy(subs[s]), !.event = "campaign_changed",
                                    !.link = subs[s].link, !.typed = subs[s].typed,
                                    !.method = method]]
      PROVE  RequestMoves
  <2> DEFINE rest == [t EXCEPT !.left = @ \ {s}]
             at == IF subs[s].link = NoLink THEN "keep" ELSE "judge"
             next == [rest EXCEPT !.at = at, !.id = s, !.row = Copy(subs[s]),
                                  !.event = "campaign_changed", !.link = subs[s].link,
                                  !.typed = subs[s].typed, !.method = camp[s[1]].method]
  <2>1. s \in Rows
    BY <1>1 DEF ActType
  <2>2. subs[s] \in RowType /\ camp[s[1]].method \in Methods
    BY <2>1, SubmissionAssumption DEF Types, SubsOK, CampOK
  <2>3. /\ Copy(subs[s]) \in RowType /\ subs[s].link \in Linkable /\ subs[s].typed \in BOOLEAN
    BY <2>2, CopyType, Columns
  <2>4. act' = [act EXCEPT !["request"] = rest] \/ act' = [act EXCEPT !["request"] = next]
    BY <1>4
  <2>5. rest \in ActType /\ rest.at = "reapply" /\ rest.back = t.back
    BY <1>1 DEF ActType
  <2>6. at \in {"judge", "keep"} /\ at \in WorkerPlaces \cup RequestPlaces
    BY DEF WorkerPlaces, RequestPlaces
  <2> HIDE DEF rest, at
  <2>7. /\ next \in ActType /\ next.at = at /\ next.id = s /\ next.event = "campaign_changed"
        /\ next.method = camp[s[1]].method /\ next.back = t.back
    BY <2>1, <2>2, <2>3, <2>5, <2>6 DEF ActType, Events
  <2> HIDE DEF next
  <2>8. InPlace("request", rest)
    BY <1>1, <2>5 DEF InPlace, RequestPlaces
  <2>9. InPlace("request", next)
    BY <1>1, <2>1, <2>2, <2>6, <2>7 DEF InPlace, RequestPlaces, Events
  <2> QED
    BY <1>1, <2>4, <2>5, <2>7, <2>8, <2>9, RequestWritten
<1> QED
  BY <1>2, <1>3, <1>4 DEF Reapply

-----------------------------------------------------------------------------
(* Every step that is not the worker's.                                     *)
DeskAlone == Desk \/ RequestStep \/ (Clock /\ UNCHANGED ops) \/ \E c \in Campaigns : DeadlinePasses(c)

LEMMA DeskKeeps ==
  ASSUME Types, DeskAlone
  PROVE  Types' /\ Kept /\ RequestMoves
<1>1. /\ SubsOK /\ CampOK /\ DestOK /\ PostedOK /\ ActsOK /\ troubles \in 0 .. MaxTroubles
      /\ ops \in 0 .. MaxOps /\ "request" \in Threads /\ "worker" \in Threads \ {"request"}
  BY DEF Types, BoundsOK, Threads
<1>2. Kept /\ RequestMoves
  <2>1. ASSUME NEW s \in Rows,
               Attach(s) \/ Reopen(s) \/ EditLink(s) \/ EditMethod(s) \/ EditHold(s) \/ Press(s)
        PROVE  Kept /\ RequestMoves
    BY <2>1, AttachKeeps, ReopenKeeps, EditKeeps, HoldKeeps, PressKeeps
  <2>2. ASSUME NEW s \in Rows, NEW t \in Rows, Move(s, t) PROVE Kept /\ RequestMoves
    BY <2>2, MoveKeeps
  <2>3. ASSUME NEW c \in Campaigns, Switch(c) \/ Archive(c) \/ Extend(c) \/ ChangeMethod(c) \/ DeadlinePasses(c)
        PROVE  Kept /\ RequestMoves
    <3>1. Switch(c) \/ Extend(c) \/ DeadlinePasses(c) => UNCHANGED <<subs, posted, act>>
      BY DEF Switch, Extend, DeadlinePasses
    <3> QED
      BY <1>1, <2>3, <3>1, ArchiveKeeps, ChangeKeeps, NothingKept, ActsStill
  <2>4. CASE RemoveWebhook \/ PasteWebhook
    <3>1. PasteWebhook => UNCHANGED <<subs, posted, act>>
      BY DEF PasteWebhook
    <3> QED
      BY <1>1, <2>4, <3>1, RemoveKeeps, NothingKept, ActsStill
  <2>5. CASE RequestStep
    <3>1. Judge("request") => Kept /\ RequestMoves
      <4>1. Judge("request") => /\ ActsOK' /\ UNCHANGED <<subs, posted>>
                                /\ \A b \in Threads \ {"request"} : act'[b] = act[b]
        BY <1>1, JudgeKeeps DEF table
      <4> QED
        BY <1>1, <4>1, NothingKept DEF RequestMoves
    <3>2. Write("request") => Kept /\ RequestMoves
      BY <1>1, WriteKeeps DEF RequestMoves
    <3>3. Look("request") => Kept /\ RequestMoves
      BY <1>1, LookKeeps DEF RequestMoves
    <3> QED
      BY <2>5, <3>1, <3>2, <3>3, KeepKeeps, ReapplyKeeps DEF RequestStep
  <2>6. ASSUME NEW s \in Rows, Tick(s) PROVE Kept /\ RequestMoves
    <3> DEFINE row == [subs[s] EXCEPT !.due = TRUE]
    <3>1. subs[s] \in RowType /\ subs' = [subs EXCEPT ![s] = row] /\ UNCHANGED <<posted, act>>
      BY <1>1, <2>6 DEF Tick, SubsOK
    <3>2. row \in RowType /\ row.status = subs[s].status /\ row.by = subs[s].by /\ row.link = subs[s].link
      BY <3>1 DEF RowType
    <3> HIDE DEF row
    <3>3. Quiet(subs[s], row) /\ Gentle(subs[s], row)
      BY <3>2 DEF Quiet, Same, Gentle, Counts
    <3> QED
      BY <1>1, <3>1, <3>2, <3>3, QuietWrite, ActsStill
  <2> QED
    BY <2>1, <2>2, <2>3, <2>4, <2>5, <2>6 DEF DeskAlone, Desk, Clock
<1>3. SubsOK' /\ PostedOK' /\ ActsOK'
  BY <1>2 DEF Kept, RequestMoves
<1>4. CampOK'
  <2>1. UNCHANGED camp => CampOK'
    BY <1>1 DEF CampOK
  <2>2. ASSUME NEW c \in Campaigns, Switch(c) \/ Archive(c) \/ Extend(c) \/ ChangeMethod(c) \/ DeadlinePasses(c)
        PROVE  CampOK'
    <3>1. PICK next \in [on : BOOLEAN, archived : BOOLEAN, over : BOOLEAN, method : Methods] :
            camp' = [camp EXCEPT ![c] = next]
      <4>1. camp[c] \in [on : BOOLEAN, archived : BOOLEAN, over : BOOLEAN, method : Methods]
        BY <1>1 DEF CampOK
      <4>2. \/ camp' = [camp EXCEPT ![c] = [camp[c] EXCEPT !.on = ~camp[c].on]]
            \/ camp' = [camp EXCEPT ![c] = [camp[c] EXCEPT !.archived = TRUE]]
            \/ \E over \in BOOLEAN : camp' = [camp EXCEPT ![c] = [camp[c] EXCEPT !.over = over]]
            \/ \E method \in Methods : camp' = [camp EXCEPT ![c] = [camp[c] EXCEPT !.method = method]]
        BY <1>1, <2>2 DEF Switch, Archive, Extend, ChangeMethod, DeadlinePasses, CampOK
      <4>3. PICK next \in [on : BOOLEAN, archived : BOOLEAN, over : BOOLEAN, method : Methods] :
              camp' = [camp EXCEPT ![c] = next]
        <5>1. /\ [camp[c] EXCEPT !.on = ~camp[c].on]
                   \in [on : BOOLEAN, archived : BOOLEAN, over : BOOLEAN, method : Methods]
              /\ [camp[c] EXCEPT !.archived = TRUE]
                   \in [on : BOOLEAN, archived : BOOLEAN, over : BOOLEAN, method : Methods]
              /\ \A over \in BOOLEAN : [camp[c] EXCEPT !.over = over]
                   \in [on : BOOLEAN, archived : BOOLEAN, over : BOOLEAN, method : Methods]
              /\ \A method \in Methods : [camp[c] EXCEPT !.method = method]
                   \in [on : BOOLEAN, archived : BOOLEAN, over : BOOLEAN, method : Methods]
          BY <4>1
        <5> QED
          BY <4>2, <5>1
      <4> QED
        BY <4>3
    <3> QED
      BY <1>1, <3>1 DEF CampOK
  <2>3. \/ UNCHANGED camp
        \/ \E c \in Campaigns : Switch(c) \/ Archive(c) \/ Extend(c) \/ ChangeMethod(c) \/ DeadlinePasses(c)
    BY DEF DeskAlone, Desk, RequestStep, Clock, Attach, Reopen, EditLink, EditMethod, EditHold, Press,
           Move, RemoveWebhook, PasteWebhook, Keep, Reapply, Judge, Write, Look, Tick, table
  <2> QED
    BY <2>1, <2>2, <2>3
<1>5. DestOK'
  <2>1. UNCHANGED dest \/ dest' = [state |-> "missing", hook |-> FALSE]
        \/ dest' = [state |-> "connected", hook |-> TRUE]
    BY DEF DeskAlone, Desk, RequestStep, Clock, Attach, Reopen, EditLink, EditMethod, EditHold, Press,
           Move, Switch, Archive, Extend, ChangeMethod, DeadlinePasses, RemoveWebhook, PasteWebhook,
           Keep, Reapply, Judge, Write, Look, Tick, table
  <2>2. /\ [state |-> "missing", hook |-> FALSE]
             \in [state : {"connected", "gone", "denied", "missing"}, hook : BOOLEAN]
        /\ [state |-> "connected", hook |-> TRUE]
             \in [state : {"connected", "gone", "denied", "missing"}, hook : BOOLEAN]
    OBVIOUS
  <2> QED
    BY <1>1, <2>1, <2>2, Zenon DEF DestOK
<1>6. BoundsOK'
  <2>1. /\ troubles' = troubles \/ (troubles < MaxTroubles /\ troubles' = troubles + 1)
        /\ ops' = ops \/ (ops < MaxOps /\ ops' = ops + 1)
    BY DEF DeskAlone, Desk, RequestStep, Clock, Attach, Reopen, EditLink, EditMethod, EditHold, Press,
           Move, Switch, Archive, Extend, ChangeMethod, DeadlinePasses, RemoveWebhook, PasteWebhook,
           Keep, Reapply, Judge, Write, Look, Tick, table, Asks, Trouble
  <2> QED
    BY <1>1, <2>1 DEF BoundsOK
<1> QED
  BY <1>2, <1>3, <1>4, <1>5, <1>6 DEF Types

-----------------------------------------------------------------------------
(* The worker's steps. What they do to a row beyond what the desk may.      *)
Begun(r, q)    == r.status = "ready" /\ q.status = "sending" /\ q.by = r.by
Settled(r, q)  == r.status = "sending" /\ q.status \in SentOff /\ q.by \in {"", "webhook"}
NotTaken(r, q) == r.status = "sending" /\ q.status \in {"ready", "manual", "failed"} /\ q.by = r.by

OutWith(s) == act["worker"].at = "out" /\ act["worker"].id = s
Rests(s, q) == Quiet(subs[s], q) \/ Settled(subs[s], q) \/ (OutWith(s) /\ NotTaken(subs[s], q))
Rested == UNCHANGED posted /\ \A s \in Rows : Rests(s, subs'[s])
Ashore == act'["worker"].at \notin {"out", "taken"}
PassKept == SubsOK' /\ Rested /\ Gently

Begins ==
  /\ act["worker"].at \notin {"out", "taken"} /\ act'["worker"].at = "out"
  /\ UNCHANGED posted
  /\ \E s \in Rows : /\ act'["worker"].id = s /\ Begun(subs[s], subs'[s])
                     /\ \A u \in Rows \ {s} : subs'[u] = subs[u]
Delivers ==
  /\ act["worker"].at = "out" /\ act'["worker"].at = "taken"
  /\ act'["worker"].id = act["worker"].id
  /\ UNCHANGED subs /\ posted' = [posted EXCEPT ![act["worker"].id] = @ + 1]

WorkerStep == (Ashore /\ (DeskStep \/ Rested)) \/ Begins \/ Delivers

LEMMA StatusWritten ==
  ASSUME NEW row \in RowType, NEW status \in Statuses
  PROVE  LET new == [row EXCEPT !.status = status]
         IN  new \in RowType /\ new.status = status /\ new.by = row.by /\ new.link = row.link
BY DEF RowType

LEMMA PassWrite ==
  ASSUME SubsOK, UNCHANGED posted, NEW s \in Rows, NEW event, NEW row \in RowType, Try(s, event, row),
         Allowed(s, event) => Rests(s, row) /\ Gentle(subs[s], row)
  PROVE  PassKept
<1>1. CASE UNCHANGED subs
  BY <1>1, SameIsQuiet DEF SubsOK, PassKept, Rested, Rests, Gently
<1>2. CASE Apply(s, event, row)
  <2>1. SubsOK' /\ subs'[s] = row /\ \A u \in Rows \ {s} : subs'[u] = subs[u]
    BY <1>2, RowWritten DEF Apply
  <2>2. Rests(s, row) /\ Gentle(subs[s], row)
    BY <1>2 DEF Apply
  <2> QED
    BY <2>1, <2>2, SameIsQuiet DEF PassKept, Rested, Rests, Gently
<1> QED
  BY <1>1, <1>2 DEF Try

(* A write of the status alone, of a row that counts.                       *)
LEMMA PassStatus ==
  ASSUME SubsOK, UNCHANGED posted, NEW s \in Rows, NEW event, NEW status \in Statuses,
         Try(s, event, [subs[s] EXCEPT !.status = status]),
         \A q : q.status = status /\ q.by = subs[s].by /\ Allowed(s, event)
                  => Rests(s, q) /\ Counts(subs[s])
  PROVE  PassKept
<1> DEFINE row == [subs[s] EXCEPT !.status = status]
<1>1. subs[s] \in RowType
  BY DEF SubsOK
<1>2. row \in RowType /\ row.status = status /\ row.by = subs[s].by /\ row.link = subs[s].link
  BY <1>1, StatusWritten
<1>3. Try(s, event, row)
  OBVIOUS
<1> HIDE DEF row
<1>4. Allowed(s, event) => Rests(s, row) /\ Gentle(subs[s], row)
  BY <1>2 DEF Gentle
<1> QED
  BY <1>2, <1>3, <1>4, PassWrite

LEMMA NothingPassed ==
  ASSUME SubsOK, UNCHANGED <<subs, posted>>
  PROVE  PassKept
BY SameIsQuiet DEF SubsOK, PassKept, Rested, Rests, Gently

LEMMA PhaseWritten ==
  ASSUME ActsOK, NEW phase \in Phases, NEW listed \in SUBSET Rows, Phase(phase, listed)
  PROVE  ActsOK' /\ Ashore
<1> DEFINE t == [Idle EXCEPT !.at = phase, !.back = phase, !.left = listed]
<1>1. t \in ActType /\ t.at = phase /\ t.back = phase
  BY IdleType DEF ActType, WorkerPlaces
<1>2. act' = [act EXCEPT !["worker"] = t]
  BY DEF Phase
<1> HIDE DEF t
<1>3. InPlace("worker", t) /\ "worker" \in Threads
  BY <1>1 DEF InPlace, Phases, WorkerPlaces, Threads
<1>4. ActsOK' /\ act'["worker"] = t
  BY <1>1, <1>2, <1>3, ActWritten
<1> QED
  BY <1>1, <1>4 DEF Ashore, Phases

LEMMA HandledKeeps ==
  ASSUME ActsOK, NEW phase \in Phases, At(phase), NEW s \in Rows, Handled(s)
  PROVE  ActsOK' /\ Ashore
<1> DEFINE t == [act["worker"] EXCEPT !.left = act["worker"].left \ {s}]
<1>1. "worker" \in Threads /\ act["worker"] \in ActType /\ InPlace("worker", act["worker"])
  BY DEF ActsOK, Threads
<1>2. t \in ActType /\ t.at = phase /\ t.back = act["worker"].back
  BY <1>1 DEF ActType, At
<1>3. act' = [act EXCEPT !["worker"] = t]
  BY <1>1 DEF Handled, ActsOK
<1> HIDE DEF t
<1>4. InPlace("worker", t)
  BY <1>1, <1>2 DEF InPlace, Phases, WorkerPlaces
<1>5. ActsOK' /\ act'["worker"] = t
  BY <1>1, <1>2, <1>3, <1>4, ActWritten
<1> QED
  BY <1>2, <1>5 DEF Ashore, Phases

LEMMA ListedRows == ActsOK => Listed \subseteq Rows
BY DEF ActsOK, Threads, ActType, Listed

(* What every step of the pass comes to.                                    *)
Passed == ActsOK' /\ SubsOK' /\ PostedOK' /\ WorkerStep /\ (LinkStep \/ Gently)

LEMMA AshorePassed ==
  ASSUME PostedOK, ActsOK', Ashore, PassKept
  PROVE  Passed
BY DEF PostedOK, PassKept, Passed, Rested, WorkerStep

LEMMA UnvouchedRests ==
  ASSUME NEW row \in RowType, row.status = "sending"
  PROVE  /\ Unvouched(row) \in RowType /\ Settled(row, Unvouched(row))
         /\ Gentle(row, Unvouched(row))
<1>1. /\ Unvouched(row) \in RowType /\ Unvouched(row).status = "awaiting_confirmation"
      /\ Unvouched(row).by = "" /\ Unvouched(row).link = row.link
  BY Kinds DEF Unvouched, RowType
<1> QED
  BY <1>1, Kinds DEF Settled, Gentle, Counts

LEMMA Recovered ==
  ASSUME SubsOK, UNCHANGED posted, NEW hit \in SUBSET Rows,
         \A s \in hit : subs[s].status = "sending",
         subs' = [s \in Rows |-> IF s \in hit THEN Unvouched(subs[s]) ELSE subs[s]]
  PROVE  PassKept
<1>1. ASSUME NEW s \in Rows
      PROVE  subs'[s] \in RowType /\ Rests(s, subs'[s]) /\ Gentle(subs[s], subs'[s])
  <2>1. subs[s] \in RowType
    BY DEF SubsOK
  <2>2. CASE s \notin hit
    BY <2>1, <2>2, SameIsQuiet DEF Rests
  <2>3. CASE s \in hit
    BY <2>1, <2>3, UnvouchedRests DEF Rests
  <2> QED
    BY <2>2, <2>3
<1> QED
  BY <1>1 DEF PassKept, Rested, Gently, SubsOK

LEMMA SweepKeeps == ASSUME Types, Sweep PROVE Passed
<1> DEFINE hit == {s \in Rows : Late(s)}
           listed == {s \in Rows : Expired(s)}
<1>1. SubsOK /\ PostedOK /\ ActsOK /\ UNCHANGED posted /\ Phase("expire", listed)
  BY DEF Types, Sweep
<1>2. subs' = [s \in Rows |-> IF s \in hit THEN Unvouched(subs[s]) ELSE subs[s]]
  BY DEF Sweep
<1>3. hit \in SUBSET Rows /\ \A s \in hit : subs[s].status = "sending"
  BY DEF Late
<1>4. listed \in SUBSET Rows /\ "expire" \in Phases
  BY DEF Phases
<1> HIDE DEF hit, listed
<1> QED
  BY <1>1, <1>2, <1>3, <1>4, Recovered, PhaseWritten, AshorePassed

LEMMA ExpireKeeps == ASSUME Types, Expire PROVE Passed
<1>1. SubsOK /\ PostedOK /\ ActsOK /\ UNCHANGED posted /\ At("expire") /\ "expire" \in Phases
  BY DEF Types, Expire, Phases
<1>2. PICK s \in Rows : Try(s, "expire", [subs[s] EXCEPT !.status = "expired"]) /\ Handled(s)
  BY <1>1, ListedRows DEF Expire
<1>3. \A q : q.status = "expired" /\ q.by = subs[s].by /\ Allowed(s, "expire")
               => Rests(s, q) /\ Counts(subs[s])
  BY SourceKinds, Kinds DEF Allowed, Rests, Quiet, Unsent, Counts
<1>4. "expired" \in Statuses
  BY Kinds
<1> QED
  BY <1>1, <1>2, <1>3, <1>4, PassStatus, HandledKeeps, AshorePassed

LEMMA LeftoverKeeps == ASSUME Types, CancelLeftover PROVE Passed
<1>1. SubsOK /\ PostedOK /\ ActsOK /\ UNCHANGED posted /\ At("leftovers") /\ "leftovers" \in Phases
  BY DEF Types, CancelLeftover, Phases
<1>2. PICK s \in Rows : Try(s, "cancel", [subs[s] EXCEPT !.status = "cancelled"]) /\ Handled(s)
  BY <1>1, ListedRows DEF CancelLeftover
<1>3. \A q : q.status = "cancelled" /\ q.by = subs[s].by /\ Allowed(s, "cancel")
               => Rests(s, q) /\ Counts(subs[s])
  BY SourceKinds, Kinds DEF Allowed, Rests, Quiet, Told, Counts
<1>4. "cancelled" \in Statuses
  BY Kinds
<1> QED
  BY <1>1, <1>2, <1>3, <1>4, PassStatus, HandledKeeps, AshorePassed

LEMMA FollowKeeps == ASSUME Types, Follow PROVE Passed
<1>1. SubsOK /\ PostedOK /\ ActsOK /\ UNCHANGED <<subs, posted>> /\ "worker" \in Threads
  BY DEF Types, Follow, table, Threads
<1>2. act["worker"] \in ActType /\ InPlace("worker", act["worker"])
  BY <1>1 DEF ActsOK
<1>3. PICK s \in Rows :
        act' = [act EXCEPT !["worker"].left = @ \ {s}, !["worker"].at = "look",
                           !["worker"].id = s, !["worker"].row = Copy(subs[s])]
  BY <1>1, ListedRows DEF Follow
<1> DEFINE t == [act["worker"] EXCEPT !.left = @ \ {s}, !.at = "look", !.id = s, !.row = Copy(subs[s])]
<1>4. Copy(subs[s]) \in RowType
  BY <1>1, CopyType DEF SubsOK
<1>5. act' = [act EXCEPT !["worker"] = t]
  BY <1>1, <1>3 DEF ActsOK
<1>6. t \in ActType /\ t.at = "look" /\ t.id = s /\ t.back = act["worker"].back
  BY <1>2, <1>4 DEF ActType, WorkerPlaces
<1> HIDE DEF t
<1>7. InPlace("worker", t)
  BY <1>2, <1>6 DEF InPlace, WorkerPlaces
<1>8. ActsOK' /\ act'["worker"] = t
  BY <1>1, <1>5, <1>6, <1>7, ActWritten
<1> QED
  BY <1>1, <1>6, <1>8, NothingPassed, AshorePassed DEF Ashore

LEMMA NextPhaseKeeps == ASSUME Types, NextPhase PROVE Passed
<1>1. SubsOK /\ PostedOK /\ ActsOK /\ UNCHANGED <<subs, posted>>
  BY DEF Types, NextPhase, table
<1> DEFINE cancels == {s \in Rows : Leftover(s)}
           looks == {s \in Rows : IsDue(s)}
           sends == {s \in Rows : ToSend(s)}
<1>2. cancels \in SUBSET Rows /\ looks \in SUBSET Rows /\ sends \in SUBSET Rows /\ {} \in SUBSET Rows
  OBVIOUS
<1>3. Phase("leftovers", cancels) \/ Phase("follow", looks) \/ Phase("send", sends) \/ Phase("idle", {})
  BY DEF NextPhase
<1> HIDE DEF cancels, looks, sends
<1>4. {"leftovers", "follow", "send", "idle"} \subseteq Phases
  BY DEF Phases
<1>5. ActsOK' /\ Ashore
  BY <1>1, <1>2, <1>3, <1>4, PhaseWritten
<1> QED
  BY <1>1, <1>5, NothingPassed, AshorePassed

(* Sends: what stays unsent, what goes out, and each answer.                *)
LEMMA UnsentKeeps ==
  ASSUME Types, SendUnusable \/ SendTooSoon \/ SendWords
  PROVE  Passed
<1>1. SubsOK /\ PostedOK /\ ActsOK /\ UNCHANGED posted /\ At("send") /\ "send" \in Phases
  BY DEF Types, SendUnusable, SendTooSoon, SendWords, Usable, Phases, table
<1>2. PICK s \in Rows :
        /\ Handled(s)
        /\ \/ Try(s, "destination_unusable", [subs[s] EXCEPT !.status = "manual"])
           \/ Try(s, "edit", [subs[s] EXCEPT !.status = "review"])
           \/ UNCHANGED subs
  BY <1>1, ListedRows DEF SendUnusable, SendTooSoon, SendWords, table
<1>3. ActsOK' /\ Ashore
  BY <1>1, <1>2, HandledKeeps
<1>4. ASSUME NEW event \in {"destination_unusable", "edit"}, NEW status \in {"manual", "review"},
             Try(s, event, [subs[s] EXCEPT !.status = status])
      PROVE  PassKept
  <2>1. \A q : q.status = status /\ q.by = subs[s].by /\ Allowed(s, event)
                 => Rests(s, q) /\ Counts(subs[s])
    BY SourceKinds, Kinds DEF Allowed, Rests, Quiet, Unsent, Counts
  <2>2. status \in Statuses
    BY Kinds
  <2> QED
    BY <1>1, <1>4, <2>1, <2>2, PassStatus
<1> QED
  BY <1>1, <1>2, <1>3, <1>4, NothingPassed, AshorePassed

LEMMA StartKeeps == ASSUME Types, SendStart PROVE Passed
<1>1. /\ SubsOK /\ PostedOK /\ ActsOK /\ UNCHANGED posted /\ At("send") /\ "send" \in Phases
      /\ "worker" \in Threads
  BY DEF Types, SendStart, Usable, Phases, Threads
<1>2. act["worker"] \in ActType /\ InPlace("worker", act["worker"])
  BY <1>1 DEF ActsOK
<1>3. ASSUME NEW s \in Rows, UNCHANGED subs, Handled(s)
      PROVE  Passed
  BY <1>1, <1>3, HandledKeeps, NothingPassed, AshorePassed
<1>4. ASSUME NEW s \in Rows,
             Apply(s, "send_start", [subs[s] EXCEPT !.status = "sending", !.due = FALSE]),
             act' = [act EXCEPT !["worker"].at = "out", !["worker"].id = s,
                                !["worker"].sent = TRUE, !["worker"].left = @ \ {s}]
      PROVE  Passed
  <2> DEFINE row == [subs[s] EXCEPT !.status = "sending", !.due = FALSE]
             t == [act["worker"] EXCEPT !.at = "out", !.id = s, !.sent = TRUE, !.left = @ \ {s}]
  <2>1. subs[s] \in RowType /\ subs[s].status = "ready"
    BY <1>1, <1>4, SourceKinds DEF SubsOK, Apply, Allowed
  <2>2. row \in RowType /\ row.status = "sending" /\ row.by = subs[s].by /\ row.link = subs[s].link
    BY <2>1, Kinds DEF RowType
  <2>3. subs' = [subs EXCEPT ![s] = row]
    BY <1>4 DEF Apply
  <2>4. act' = [act EXCEPT !["worker"] = t]
    BY <1>1, <1>4 DEF ActsOK
  <2>5. t \in ActType /\ t.at = "out" /\ t.id = s /\ t.back = act["worker"].back
    BY <1>2 DEF ActType, WorkerPlaces
  <2> HIDE DEF row, t
  <2>6. InPlace("worker", t)
    BY <1>2, <2>5 DEF InPlace, WorkerPlaces
  <2>7. ActsOK' /\ act'["worker"] = t
    BY <1>1, <2>4, <2>5, <2>6, ActWritten
  <2>8. SubsOK' /\ subs'[s] = row /\ \A u \in Rows \ {s} : subs'[u] = subs[u]
    BY <1>1, <2>2, <2>3, RowWritten
  <2>9. Begins
    BY <1>1, <2>1, <2>2, <2>5, <2>7, <2>8 DEF Begins, Begun, At
  <2>10. Gentle(subs[s], row)
    BY <2>1, <2>2 DEF Gentle, Counts
  <2>11. Gently
    BY <2>8, <2>10, SameIsQuiet DEF Gently
  <2> QED
    BY <1>1, <2>7, <2>8, <2>9, <2>11 DEF Passed, WorkerStep, PostedOK
<1> QED
  BY <1>1, <1>3, <1>4, ListedRows DEF SendStart

LEMMA DeliverKeeps == ASSUME Types, Deliver PROVE Passed
<1>1. /\ SubsOK /\ PostedOK /\ ActsOK /\ UNCHANGED subs /\ act["worker"].at = "out"
      /\ "worker" \in Threads
  BY DEF Types, Deliver, At, Threads
<1>2. act["worker"] \in ActType /\ InPlace("worker", act["worker"])
  BY <1>1 DEF ActsOK
<1> DEFINE t == [act["worker"] EXCEPT !.at = "taken"]
<1>3. act' = [act EXCEPT !["worker"] = t]
  BY <1>1 DEF Deliver, ActsOK
<1>4. t \in ActType /\ t.at = "taken" /\ t.id = act["worker"].id /\ t.back = act["worker"].back
  BY <1>2 DEF ActType, WorkerPlaces
<1> HIDE DEF t
<1>5. InPlace("worker", t)
  BY <1>1, <1>2, <1>4 DEF InPlace, WorkerPlaces
<1>6. ActsOK' /\ act'["worker"] = t
  BY <1>1, <1>3, <1>4, <1>5, ActWritten
<1>7. posted' = [posted EXCEPT ![act["worker"].id] = @ + 1] /\ act["worker"].id \in Rows
  BY <1>1, <1>2 DEF Deliver, Sender, InPlace
<1>8. PostedOK'
  BY <1>1, <1>7 DEF PostedOK
<1>9. SubsOK' /\ Gently
  BY <1>1, SameIsQuiet DEF SubsOK, Gently
<1>10. Delivers
  BY <1>1, <1>4, <1>6, <1>7 DEF Delivers
<1> QED
  BY <1>6, <1>8, <1>9, <1>10 DEF Passed, WorkerStep

(* Back from the webhook.                                                   *)
LEMMA Landed ==
  ASSUME ActsOK, At("out") \/ At("taken"), Return("worker")
  PROVE  ActsOK' /\ Ashore /\ Sender \in Rows
<1>1. "worker" \in Threads
  BY DEF Threads
<1>2. InPlace("worker", act["worker"])
  BY <1>1 DEF ActsOK
<1>3. ActsOK' /\ act'["worker"].at = act["worker"].back
  BY <1>1, Returned
<1> QED
  BY <1>2, <1>3 DEF InPlace, Phases, Ashore, At, Sender

LEMMA AnswerKeeps ==
  ASSUME Types, At("out") \/ At("taken"), NEW row \in RowType, Answer(row),
         subs[Sender].status = "sending" =>
           /\ Settled(subs[Sender], row) \/ (At("out") /\ NotTaken(subs[Sender], row))
           /\ row.link = subs[Sender].link
  PROVE  Passed
<1>1. SubsOK /\ PostedOK /\ ActsOK /\ UNCHANGED posted /\ Return("worker")
      /\ Try(Sender, "answered", row)
  BY DEF Types, Answer
<1>2. ActsOK' /\ Ashore /\ Sender \in Rows
  BY <1>1, Landed
<1>3. Allowed(Sender, "answered") => Rests(Sender, row) /\ Gentle(subs[Sender], row)
  BY SourceKinds DEF Allowed, Rests, Gentle, Counts, OutWith, At, Sender
<1> QED
  BY <1>1, <1>2, <1>3, PassWrite, AshorePassed

LEMMA OkKeeps == ASSUME Types, AnswerOk PROVE Passed
<1>1. PICK status \in SentOff : Answer([subs[Sender] EXCEPT !.status = status, !.by = "webhook"])
  BY DEF AnswerOk
<1> DEFINE row == [subs[Sender] EXCEPT !.status = status, !.by = "webhook"]
<1>2. At("taken") /\ subs[Sender] \in RowType
  BY <1>1, Landed DEF AnswerOk, Types, SubsOK, Answer
<1>3. row \in RowType /\ row.status = status /\ row.by = "webhook" /\ row.link = subs[Sender].link
  BY <1>2, Kinds DEF RowType
<1>4. Answer(row)
  BY <1>1
<1> HIDE DEF row
<1>5. subs[Sender].status = "sending" => Settled(subs[Sender], row)
  BY <1>3 DEF Settled
<1> QED
  BY <1>2, <1>3, <1>4, <1>5, AnswerKeeps

LEMMA AmbiguousKeeps == ASSUME Types, AnswerAmbiguous PROVE Passed
<1>1. (At("out") \/ At("taken")) /\ Answer(Unvouched(subs[Sender]))
  BY DEF AnswerAmbiguous, Ambiguous
<1>2. subs[Sender] \in RowType
  BY <1>1, Landed DEF Types, SubsOK, Answer
<1> DEFINE row == Unvouched(subs[Sender])
<1>3. row \in RowType /\ row.status = "awaiting_confirmation" /\ row.by = "" /\ row.link = subs[Sender].link
  BY <1>2, Kinds DEF RowType, Unvouched
<1>4. Answer(row)
  BY <1>1
<1> HIDE DEF row
<1>5. subs[Sender].status = "sending" => Settled(subs[Sender], row)
  BY <1>3, Kinds DEF Settled
<1> QED
  BY <1>1, <1>3, <1>4, <1>5, AnswerKeeps

(* Taken as not posted: only while the request is out.                      *)
LEMMA NotPostedKeeps == ASSUME Types, AnswerNotPosted \/ AnswerDenied PROVE Passed
<1>1. /\ At("out")
      /\ \/ Answer(TryAgain(subs[Sender]))
         \/ \E status \in {"ready", "manual", "failed"} : Answer([subs[Sender] EXCEPT !.status = status])
  BY DEF AnswerNotPosted, AnswerDenied
<1>2. subs[Sender] \in RowType
  BY <1>1, Landed DEF Types, SubsOK, Answer
<1>3. ASSUME NEW row \in RowType, Answer(row), row.status \in {"ready", "manual", "failed"},
             row.by = subs[Sender].by, row.link = subs[Sender].link
      PROVE  Passed
  BY <1>1, <1>3, AnswerKeeps DEF NotTaken
<1>4. CASE Answer(TryAgain(subs[Sender]))
  <2> DEFINE tries == subs[Sender].tries + 1
             status == IF subs[Sender].tries < Retries THEN "ready" ELSE "failed"
             row == [subs[Sender] EXCEPT !.tries = tries, !.status = status]
  <2>1. tries \in Nat /\ status \in {"ready", "failed"}
    <3>1. subs[Sender].tries \in Nat
      BY <1>2, Columns
    <3> QED
      BY <3>1
  <2>2. TryAgain(subs[Sender]) = row
    BY DEF TryAgain
  <2> HIDE DEF tries, status
  <2>3. row \in RowType /\ row.status = status /\ row.by = subs[Sender].by /\ row.link = subs[Sender].link
    BY <1>2, <2>1, Kinds DEF RowType
  <2> HIDE DEF row
  <2> QED
    BY <1>3, <1>4, <2>1, <2>2, <2>3
<1>5. ASSUME NEW status \in {"ready", "manual", "failed"}, Answer([subs[Sender] EXCEPT !.status = status])
      PROVE  Passed
  <2> DEFINE row == [subs[Sender] EXCEPT !.status = status]
  <2>1. row \in RowType /\ row.status = status /\ row.by = subs[Sender].by /\ row.link = subs[Sender].link
    <3>1. status \in Statuses
      BY Kinds
    <3> QED
      BY <1>2, <3>1, StatusWritten
  <2>2. Answer(row)
    BY <1>5
  <2> HIDE DEF row
  <2> QED
    BY <1>3, <2>1, <2>2
<1> QED
  BY <1>1, <1>4, <1>5

LEMMA GoneKeeps == ASSUME Types, AnswerGone PROVE Passed
<1>1. /\ SubsOK /\ PostedOK /\ ActsOK /\ UNCHANGED posted /\ At("out") /\ Return("worker")
      /\ subs[Sender].status = "sending"
  BY SourceKinds DEF Types, AnswerGone, Allowed
<1>2. ActsOK' /\ Ashore /\ Sender \in Rows
  BY <1>1, Landed
<1> DEFINE hit == {s \in Rows : s = Sender \/ Allowed(s, "destination_unusable")}
<1>3. subs' = [s \in Rows |-> IF s \in hit THEN [subs[s] EXCEPT !.status = "manual"] ELSE subs[s]]
  BY DEF AnswerGone
<1>4. \A s \in hit : s = Sender \/ subs[s].status \in Editable
  BY SourceKinds DEF Allowed
<1> HIDE DEF hit
<1>5. ASSUME NEW s \in Rows
      PROVE  subs'[s] \in RowType /\ Rests(s, subs'[s]) /\ Gentle(subs[s], subs'[s])
  <2>1. subs[s] \in RowType
    BY <1>1 DEF SubsOK
  <2>2. CASE s \notin hit
    BY <1>3, <2>1, <2>2, SameIsQuiet DEF Rests
  <2>3. CASE s \in hit
    <3> DEFINE row == [subs[s] EXCEPT !.status = "manual"]
    <3>1. row \in RowType /\ row.status = "manual" /\ row.by = subs[s].by /\ row.link = subs[s].link
      BY <2>1, Kinds, StatusWritten
    <3>2. subs'[s] = row
      BY <1>3, <2>3
    <3> HIDE DEF row
    <3>3. Counts(subs[s])
      BY <1>1, <1>4, <2>3, Kinds DEF Counts
    <3>4. CASE s = Sender
      BY <1>1, <3>1, <3>2, <3>3, <3>4 DEF Rests, NotTaken, OutWith, At, Sender, Gentle
    <3>5. CASE subs[s].status \in Editable
      BY <3>1, <3>2, <3>3, <3>5, Kinds DEF Rests, Quiet, Unsent, Gentle
    <3> QED
      BY <1>4, <2>3, <3>1, <3>2, <3>4, <3>5
  <2> QED
    BY <2>2, <2>3
<1>6. PassKept
  BY <1>1, <1>3, <1>5 DEF PassKept, Rested, Gently, SubsOK
<1> QED
  BY <1>1, <1>2, <1>6, AshorePassed

LEMMA RaisesKeeps == ASSUME Types, SendRaises PROVE Passed
<1>1. /\ SubsOK /\ PostedOK /\ ActsOK /\ UNCHANGED <<subs, posted>> /\ (At("out") \/ At("taken"))
      /\ Return("worker")
  BY DEF Types, SendRaises, table
<1> QED
  BY <1>1, Landed, NothingPassed, AshorePassed

LEMMA RestartKeeps == ASSUME Types, Restart PROVE Passed
<1> DEFINE hit == {s \in Rows : subs[s].status = "sending"}
<1>1. SubsOK /\ PostedOK /\ UNCHANGED posted /\ act' = [a \in Threads |-> Idle] /\ "worker" \in Threads
  BY DEF Types, Restart, Threads
<1>2. subs' = [s \in Rows |-> IF s \in hit THEN Unvouched(subs[s]) ELSE subs[s]]
  BY DEF Restart
<1>3. hit \in SUBSET Rows /\ \A s \in hit : subs[s].status = "sending"
  OBVIOUS
<1> HIDE DEF hit
<1>4. ActsOK' /\ Ashore
  BY <1>1, IdleType DEF ActsOK, Ashore
<1> QED
  BY <1>1, <1>2, <1>3, <1>4, Recovered, AshorePassed

(* The evaluation steps are those of a request too.                         *)
LEMMA EvaluationKeeps ==
  ASSUME Types, Judge("worker") \/ Write("worker") \/ Look("worker")
  PROVE  Passed
<1>1. SubsOK /\ PostedOK /\ ActsOK /\ "worker" \in Threads /\ InPlace("worker", act["worker"])
  BY DEF Types, ActsOK, Threads
<1>2. CASE Judge("worker")
  BY <1>1, <1>2, JudgeKeeps, NothingPassed, AshorePassed DEF Ashore, table
<1>3. CASE Write("worker") \/ Look("worker")
  <2>1. ActsOK' /\ Kept /\ act'["worker"].at \in {"judge", act["worker"].back}
    BY <1>1, <1>3, WriteKeeps, LookKeeps
  <2>2. Ashore
    BY <1>1, <2>1 DEF InPlace, Phases, Ashore
  <2> QED
    BY <2>1, <2>2 DEF Kept, Passed, WorkerStep
<1> QED
  BY <1>2, <1>3

PassAlone == Background \/ (Restart /\ UNCHANGED ops)

LEMMA PassKeeps ==
  ASSUME Types, PassAlone
  PROVE  Types' /\ Passed
<1>1. Passed
  BY SweepKeeps, ExpireKeeps, LeftoverKeeps, FollowKeeps, NextPhaseKeeps, UnsentKeeps, StartKeeps,
     DeliverKeeps, OkKeeps, AmbiguousKeeps, NotPostedKeeps, GoneKeeps, RaisesKeeps, RestartKeeps,
     EvaluationKeeps DEF PassAlone, Background, Pass, Send
<1>2. UNCHANGED <<camp, ops>>
  BY DEF PassAlone, Background, Pass, Send, Sweep, Expire, CancelLeftover, Follow, NextPhase,
         SendUnusable, SendTooSoon, SendWords, SendStart, Deliver, AnswerOk, AnswerAmbiguous,
         AnswerNotPosted, AnswerGone, AnswerDenied, SendRaises, Restart, Judge, Write, Look, Answer, table
<1>3. UNCHANGED dest \/ dest' = [state |-> "gone", hook |-> FALSE] \/ dest' = [dest EXCEPT !.state = "denied"]
  BY DEF PassAlone, Background, Pass, Send, Sweep, Expire, CancelLeftover, Follow, NextPhase,
         SendUnusable, SendTooSoon, SendWords, SendStart, Deliver, AnswerOk, AnswerAmbiguous,
         AnswerNotPosted, AnswerGone, AnswerDenied, SendRaises, Restart, Judge, Write, Look, Answer, table
<1>4. troubles' = troubles \/ (troubles < MaxTroubles /\ troubles' = troubles + 1)
  BY DEF PassAlone, Background, Pass, Send, Sweep, Expire, CancelLeftover, Follow, NextPhase,
         SendUnusable, SendTooSoon, SendWords, SendStart, Deliver, AnswerOk, AnswerAmbiguous,
         AnswerNotPosted, AnswerGone, AnswerDenied, SendRaises, Restart, Judge, Write, Look, Trouble
<1>5. DestOK'
  <2>1. DestOK
    BY DEF Types
  <2>2. /\ [state |-> "gone", hook |-> FALSE]
             \in [state : {"connected", "gone", "denied", "missing"}, hook : BOOLEAN]
        /\ [dest EXCEPT !.state = "denied"]
             \in [state : {"connected", "gone", "denied", "missing"}, hook : BOOLEAN]
    BY <2>1 DEF DestOK
  <2> QED
    BY <1>3, <2>1, <2>2, Zenon DEF DestOK
<1>6. CampOK' /\ BoundsOK'
  BY <1>2, <1>4 DEF Types, CampOK, BoundsOK
<1> QED
  BY <1>1, <1>5, <1>6 DEF Types, Passed

LEMMA InitTypes == Init => Types
<1> SUFFICES ASSUME Init PROVE Types
  OBVIOUS
<1>1. NewRow("hand", FALSE, FALSE) \in RowType
  BY NewRowType DEF Methods
<1> HIDE DEF NewRow
<1>2. [NewRow("hand", FALSE, FALSE) EXCEPT !.status = "none"] \in RowType
  BY <1>1 DEF RowType
<1>3. SubsOK
  BY <1>2 DEF Init, TableInit, SubsOK
<1>4. CampOK /\ DestOK /\ PostedOK
  BY DEF Init, TableInit, CampOK, DestOK, PostedOK
<1>5. ActsOK
  BY IdleType DEF Init, WorkerInit, ActsOK
<1>6. BoundsOK
  BY DEF Init, WorkerInit, BoundsOK
<1> QED
  BY <1>3, <1>4, <1>5, <1>6 DEF Types

-----------------------------------------------------------------------------
(* Theorems.                                                                *)
LEMMA StepKinds == [Next]_vars => DeskAlone \/ PassAlone \/ UNCHANGED vars
BY DEF Next, DeskAlone, PassAlone

LEMMA StillTypes == Types /\ UNCHANGED vars => Types'
<1> SUFFICES ASSUME Types, UNCHANGED vars PROVE Types'
  OBVIOUS
<1>1. SubsOK' /\ PostedOK' /\ CampOK' /\ DestOK' /\ BoundsOK'
  BY DEF Types, vars, SubsOK, PostedOK, CampOK, DestOK, BoundsOK
<1>2. ActsOK'
  <2>1. ActsOK /\ act' = act
    BY DEF Types, vars
  <2> QED
    BY <2>1 DEF ActsOK
<1> QED
  BY <1>1, <1>2 DEF Types

(* Every variable holds what its column or object may hold, and each thread  *)
(* has a row in hand wherever the code reads one.                           *)
THEOREM TypesHold == Spec => []Types
<1>1. Types /\ [Next]_vars => Types'
  BY StepKinds, DeskKeeps, PassKeeps, StillTypes
<1> QED
  BY <1>1, InitTypes, PTL DEF Spec

(* The type invariant of the desk.                                          *)
THEOREM TypeCorrect == Spec => []TypeOK
<1>1. Types => TypeOK
  <2> SUFFICES ASSUME Types PROVE TypeOK
    OBVIOUS
  <2>1. ASSUME NEW a \in Threads
        PROVE  /\ act[a].id \in Rows \cup {NoRow} /\ act[a].row \in RowType
               /\ act[a].link \in Links \cup {NoLink} /\ act[a].typed \in BOOLEAN
               /\ act[a].method \in Methods \cup {""} /\ act[a].left \subseteq Rows
    <3>1. act[a] \in ActType
      BY DEF Types, ActsOK
    <3> QED
      BY <3>1 DEF ActType, Linkable
  <2> QED
    BY <2>1 DEF Types, SubsOK, CampOK, DestOK, PostedOK, BoundsOK, TypeOK
<1> QED
  BY <1>1, TypesHold, PTL

(* Why a message is posted once: while the request is out its row is sending *)
(* and Discord has nothing of it yet, a row Discord has is never ready, and   *)
(* what the user sent by hand is never unsent.                              *)
OutFresh   == act["worker"].at = "out" => posted[act["worker"].id] = 0
HandKnown  == \A s \in Rows : subs[s].by = "user" =>
                subs[s].status \in {"cancelled", "confirmed", "rejected"} \cup SentOff
SendingInv == OutIsSending /\ OutFresh /\ HandKnown /\ PostedIsKnown /\ PostedOnce

LEMMA DeskRowKeeps ==
  ASSUME Types, NEW s \in Rows, posted[s] \in Nat, DeskStep,
         posted[s] > 0 => subs[s].status \in {"sending", "cancelled", "confirmed", "rejected"} \cup SentOff,
         posted[s] <= 1,
         subs[s].by = "user" => subs[s].status \in {"cancelled", "confirmed", "rejected"} \cup SentOff
  PROVE  /\ posted'[s] > 0 => subs'[s].status \in {"sending", "cancelled", "confirmed", "rejected"} \cup SentOff
         /\ posted'[s] <= 1
         /\ subs'[s].by = "user" => subs'[s].status \in {"cancelled", "confirmed", "rejected"} \cup SentOff
         /\ subs[s].status = "sending" => subs'[s].status = "sending" /\ posted'[s] = posted[s]
<1>1. CASE Quiet(subs[s], subs'[s]) /\ posted'[s] = posted[s]
  BY <1>1, Kinds DEF Quiet, Same, Unsent, Told
<1>2. CASE /\ Freshly(subs[s], subs'[s]) \/ Again(subs[s], subs'[s])
           /\ posted'[s] = 0 \/ (subs[s].status = "none" /\ posted'[s] = posted[s])
  <2>1. subs[s].status \notin {"sending"} /\ subs'[s].by = ""
    BY <1>2, Kinds DEF Freshly, Again
  <2>2. subs[s].status = "none" => ~(posted[s] > 0)
    BY Kinds
  <2>3. ~(posted[s] > 0) => posted[s] = 0
    OBVIOUS
  <2>4. posted'[s] = 0
    BY <1>2, <2>2, <2>3, Zenon
  <2>5. ~(posted'[s] > 0) /\ posted'[s] <= 1
    BY <2>4
  <2> QED
    BY <2>1, <2>5, Zenon
<1> QED
  BY <1>1, <1>2, Zenon DEF DeskStep

LEMMA InitSending == Init => SendingInv
<1> SUFFICES ASSUME Init PROVE SendingInv
  OBVIOUS
<1>1. act["worker"].at = "idle"
  BY IdleType DEF Init, WorkerInit, Threads
<1>2. NewRow("hand", FALSE, FALSE) \in RowType /\ NewRow("hand", FALSE, FALSE).by = ""
  BY NewRowType DEF Methods
<1> HIDE DEF NewRow
<1>3. [NewRow("hand", FALSE, FALSE) EXCEPT !.status = "none"].by = ""
  BY <1>2 DEF RowType
<1>4. \A s \in Rows : subs[s].by = ""
  BY <1>3 DEF Init, TableInit
<1>4a. \A s \in Rows : posted[s] = 0
  BY DEF Init, TableInit
<1>5. OutIsSending /\ OutFresh
  BY <1>1 DEF OutIsSending, OutFresh
<1>6. HandKnown
  BY <1>4 DEF HandKnown
<1>7. PostedIsKnown /\ PostedOnce
  BY <1>4a DEF PostedIsKnown, PostedOnce
<1> QED
  BY <1>5, <1>6, <1>7 DEF SendingInv

LEMMA SendingKept == Types /\ SendingInv /\ [Next]_vars => SendingInv'
<1> SUFFICES ASSUME Types, SendingInv, [Next]_vars PROVE SendingInv'
  OBVIOUS
<1> DEFINE w == act["worker"]
<1>1. InPlace("worker", w) /\ posted \in [Rows -> Nat] /\ (w.at \in {"out", "taken"} => w.id \in Rows)
  BY DEF Types, ActsOK, Threads, InPlace, PostedOK
<1>2. ASSUME NEW s \in Rows
      PROVE  /\ posted[s] \in Nat /\ posted[s] <= 1
             /\ posted[s] > 0 => subs[s].status \in {"sending", "cancelled", "confirmed", "rejected"} \cup SentOff
             /\ subs[s].by = "user" => subs[s].status \in {"cancelled", "confirmed", "rejected"} \cup SentOff
  BY <1>1 DEF SendingInv, PostedOnce, PostedIsKnown, HandKnown
<1>3. ASSUME DeskStep, w' = w \/ Ashore
      PROVE  SendingInv'
  <2>1. ASSUME NEW s \in Rows
        PROVE  /\ posted'[s] > 0 => subs'[s].status \in {"sending", "cancelled", "confirmed", "rejected"} \cup SentOff
               /\ posted'[s] <= 1
               /\ subs'[s].by = "user" => subs'[s].status \in {"cancelled", "confirmed", "rejected"} \cup SentOff
               /\ subs[s].status = "sending" => subs'[s].status = "sending" /\ posted'[s] = posted[s]
    BY <1>2, <1>3, DeskRowKeeps
  <2>2. (OutIsSending /\ OutFresh)'
    BY <1>1, <1>3, <2>1 DEF SendingInv, OutIsSending, OutFresh, Ashore
  <2> QED
    BY <2>1, <2>2 DEF SendingInv, PostedOnce, PostedIsKnown, HandKnown
<1>4. ASSUME Ashore, Rested
      PROVE  SendingInv'
  <2>1. ASSUME NEW s \in Rows
        PROVE  /\ posted'[s] > 0 => subs'[s].status \in {"sending", "cancelled", "confirmed", "rejected"} \cup SentOff
               /\ posted'[s] <= 1
               /\ subs'[s].by = "user" => subs'[s].status \in {"cancelled", "confirmed", "rejected"} \cup SentOff
    <3>1. posted'[s] = posted[s] /\ Rests(s, subs'[s])
      BY <1>4 DEF Rested
    <3>2. CASE Quiet(subs[s], subs'[s])
      BY <1>2, <3>1, <3>2, Kinds DEF Quiet, Same, Unsent, Told
    <3>3. CASE Settled(subs[s], subs'[s])
      BY <1>2, <3>1, <3>3, Kinds DEF Settled
    <3>4. CASE OutWith(s) /\ NotTaken(subs[s], subs'[s])
      <4>1. posted[s] = 0
        BY <3>4 DEF OutWith, SendingInv, OutFresh
      <4> QED
        BY <1>2, <3>1, <3>4, <4>1, Kinds DEF NotTaken
    <3> QED
      BY <3>1, <3>2, <3>3, <3>4 DEF Rests
  <2>2. (OutIsSending /\ OutFresh)'
    BY <1>4 DEF OutIsSending, OutFresh, Ashore
  <2> QED
    BY <2>1, <2>2 DEF SendingInv, PostedOnce, PostedIsKnown, HandKnown
<1>5. CASE Begins
  <2>1. PICK s \in Rows : /\ w'.id = s /\ Begun(subs[s], subs'[s])
                          /\ \A u \in Rows \ {s} : subs'[u] = subs[u]
    BY <1>5 DEF Begins
  <2>2. w'.at = "out" /\ posted' = posted
    BY <1>5 DEF Begins
  <2>3. posted[s] = 0 /\ subs'[s].status = "sending" /\ subs'[s].by = subs[s].by /\ subs[s].by # "user"
    BY <1>2, <2>1, Kinds DEF Begun
  <2>4. ASSUME NEW u \in Rows
        PROVE  /\ posted'[u] > 0 => subs'[u].status \in {"sending", "cancelled", "confirmed", "rejected"} \cup SentOff
               /\ posted'[u] <= 1
               /\ subs'[u].by = "user" => subs'[u].status \in {"cancelled", "confirmed", "rejected"} \cup SentOff
    BY <1>2, <2>1, <2>2, <2>3
  <2>5. (OutIsSending /\ OutFresh)'
    BY <2>1, <2>2, <2>3 DEF OutIsSending, OutFresh
  <2> QED
    BY <2>4, <2>5 DEF SendingInv, PostedOnce, PostedIsKnown, HandKnown
<1>6. CASE Delivers
  <2>1. /\ w.at = "out" /\ w'.at = "taken" /\ w'.id = w.id /\ subs' = subs
        /\ posted' = [posted EXCEPT ![w.id] = @ + 1]
    BY <1>6 DEF Delivers
  <2>2. w.id \in Rows /\ posted[w.id] = 0 /\ subs[w.id].status = "sending"
    BY <1>1, <2>1 DEF SendingInv, OutIsSending, OutFresh
  <2>3. posted'[w.id] = 1 /\ \A u \in Rows \ {w.id} : posted'[u] = posted[u]
    BY <1>1, <2>1, <2>2
  <2>4. ASSUME NEW u \in Rows
        PROVE  /\ posted'[u] > 0 => subs'[u].status \in {"sending", "cancelled", "confirmed", "rejected"} \cup SentOff
               /\ posted'[u] <= 1
               /\ subs'[u].by = "user" => subs'[u].status \in {"cancelled", "confirmed", "rejected"} \cup SentOff
    BY <1>2, <2>1, <2>2, <2>3
  <2>5. (OutIsSending /\ OutFresh)'
    BY <2>1, <2>2 DEF OutIsSending, OutFresh
  <2> QED
    BY <2>4, <2>5 DEF SendingInv, PostedOnce, PostedIsKnown, HandKnown
<1>7. CASE UNCHANGED vars
  BY <1>7 DEF vars, SendingInv, OutIsSending, OutFresh, HandKnown, PostedIsKnown, PostedOnce
<1>8. CASE DeskAlone
  BY <1>3, <1>8, DeskKeeps DEF Kept, RequestMoves
<1>9. CASE PassAlone
  BY <1>3, <1>4, <1>5, <1>6, <1>9, PassKeeps DEF Passed, WorkerStep
<1> QED
  BY <1>7, <1>8, <1>9, StepKinds

(* What is true of a message from the claim to its answer: while the request *)
(* is out the row stays `sending` and nothing is posted yet, a posted message *)
(* is on a row that says so, and no row was posted twice.                    *)
THEOREM SendingHolds == Spec => []SendingInv
BY TypesHold, InitSending, SendingKept, PTL DEF Spec

(* A row's message is posted at most once since the user last asked for it:  *)
(* queue.py writes `sending` before the request and hands an unanswered send  *)
(* to the user instead of sending it again.                                 *)
THEOREM MessagePostedOnce == Spec => []PostedOnce
<1>1. SendingInv => PostedOnce
  BY DEF SendingInv
<1> QED
  BY <1>1, SendingHolds, PTL

(* A message that Discord took is never shown as one still to be sent.      *)
THEOREM PostKnown == Spec => []PostedIsKnown
<1>1. SendingInv => PostedIsKnown
  BY DEF SendingInv
<1> QED
  BY <1>1, SendingHolds, PTL

(* While the request is out nothing moves its row away from `sending`.      *)
THEOREM OutStaysSending == Spec => []OutIsSending
<1>1. SendingInv => OutIsSending
  BY DEF SendingInv
<1> QED
  BY <1>1, SendingHolds, PTL

(* What the user submitted by hand is not also sent by the webhook.         *)
THEOREM HandSentKept == Spec => HandSentStays
<1> DEFINE Stays(s) == subs[s].by = "user" /\ subs[s].status \notin Reopenable =>
                         subs'[s].status \in {"cancelled", "confirmed", "rejected"} \cup SentOff
<1>1. ASSUME Types, SendingInv, [Next]_vars, NEW s \in Rows
      PROVE  Stays(s)
  <2>1. /\ posted[s] \in Nat /\ posted[s] <= 1
        /\ posted[s] > 0 => subs[s].status \in {"sending", "cancelled", "confirmed", "rejected"} \cup SentOff
        /\ subs[s].by = "user" => subs[s].status \in {"cancelled", "confirmed", "rejected"} \cup SentOff
    BY <1>1 DEF Types, PostedOK, SendingInv, PostedOnce, PostedIsKnown, HandKnown
  <2>2. CASE Quiet(subs[s], subs'[s])
    BY <2>1, <2>2, Kinds DEF Quiet, Same, Unsent, Told
  <2>3. CASE \/ Freshly(subs[s], subs'[s]) \/ Again(subs[s], subs'[s])
             \/ Settled(subs[s], subs'[s]) \/ NotTaken(subs[s], subs'[s]) \/ Begun(subs[s], subs'[s])
    BY <2>1, <2>3, Kinds DEF Freshly, Again, Settled, NotTaken, Begun
  <2>4. CASE subs'[s] = subs[s]
    BY <2>1, <2>4, Kinds
  <2>5. DeskStep \/ Rested \/ Begins \/ Delivers \/ UNCHANGED subs
    BY <1>1, StepKinds, DeskKeeps, PassKeeps DEF Kept, Passed, WorkerStep, vars
  <2>6. DeskStep => Quiet(subs[s], subs'[s]) \/ Freshly(subs[s], subs'[s]) \/ Again(subs[s], subs'[s])
    BY DEF DeskStep
  <2>7. Rested => Quiet(subs[s], subs'[s]) \/ Settled(subs[s], subs'[s]) \/ NotTaken(subs[s], subs'[s])
    BY DEF Rested, Rests
  <2>8. Begins => Begun(subs[s], subs'[s]) \/ subs'[s] = subs[s]
    BY DEF Begins
  <2>9. Delivers \/ UNCHANGED subs => subs'[s] = subs[s]
    BY DEF Delivers
  <2> QED
    BY <2>2, <2>3, <2>4, <2>5, <2>6, <2>7, <2>8, <2>9
<1>2. Types /\ SendingInv /\ [Next]_vars => [\A s \in Rows : Stays(s)]_vars
  BY <1>1
<1> QED
  BY <1>2, TypesHold, SendingHolds, PTL DEF Spec, HandSentStays

(* Two rows of one campaign that count to one link.                         *)
Twice(s, t, r, q) ==
  /\ s # t /\ t[1] = s[1] /\ r.link # NoLink /\ Counts(r) /\ Counts(q) /\ q.link = r.link

LEMMA TwiceClashes ==
  ASSUME NEW s \in Rows, NEW t \in Rows, NEW r, Twice(s, t, r, subs[t])
  PROVE  Clash(s, r)
BY DEF Twice, Clash, Duplicate, Holds

LEMMA LinksKept == LinkOnce /\ (LinkStep \/ Gently) => LinkOnce'
<1> SUFFICES ASSUME LinkOnce, LinkStep \/ Gently,
                    NEW s \in Rows, NEW t \in Rows, Twice(s, t, subs'[s], subs'[t])
             PROVE  FALSE
  BY DEF LinkOnce, Clash, Duplicate, Holds, Twice
<1>1. Gentle(subs[s], subs'[s]) /\ Gentle(subs[t], subs'[t]) => Twice(s, t, subs[s], subs[t])
  BY DEF Gentle, Twice
<1>2. ~Twice(s, t, subs[s], subs[t])
  BY TwiceClashes DEF LinkOnce
<1>3. Gentle(subs[t], subs'[t]) => Twice(s, t, subs'[s], subs[t])
  BY DEF Gentle, Twice
<1>4. Gentle(subs[s], subs'[s]) => Twice(t, s, subs'[t], subs[s])
  BY DEF Gentle, Twice
<1>5. CASE Gently
  BY <1>1, <1>2, <1>5 DEF Gently
<1>6. CASE LinkStep
  <2>1. PICK u \in Rows : /\ Gentle(subs[u], subs'[u]) \/ ~Clash(u, subs'[u])
                          /\ \A v \in Rows \ {u} : Gentle(subs[v], subs'[v])
    BY <1>6 DEF LinkStep
  <2>2. s # t
    BY DEF Twice
  <2>3. CASE u = s
    BY <1>1, <1>2, <1>3, <2>1, <2>2, <2>3, TwiceClashes
  <2>4. CASE u = t
    BY <1>1, <1>2, <1>4, <2>1, <2>2, <2>4, TwiceClashes
  <2>5. CASE u # s /\ u # t
    BY <1>1, <1>2, <2>1, <2>5
  <2> QED
    BY <2>3, <2>4, <2>5
<1> QED
  BY <1>5, <1>6

(* A link is submitted to a campaign once: no path but evaluation, which     *)
(* looks for another row of the campaign that counts, brings a row to a link. *)
THEOREM OneRowPerLink == Spec => []LinkOnce
<1>1. Init => LinkOnce
  <2> SUFFICES ASSUME Init, NEW s \in Rows PROVE ~Clash(s, subs[s])
    BY DEF LinkOnce
  <2>1. NewRow("hand", FALSE, FALSE) \in RowType
    BY NewRowType DEF Methods
  <2> HIDE DEF NewRow
  <2>2. [NewRow("hand", FALSE, FALSE) EXCEPT !.status = "none"].status = "none"
    BY <2>1 DEF RowType
  <2>3. subs[s].status = "none"
    BY <2>2 DEF Init, TableInit
  <2> QED
    BY <2>3 DEF Clash, Counts
<1>2. Types /\ LinkOnce /\ [Next]_vars => LinkOnce'
  <2>1. DeskAlone /\ Types => LinkStep \/ Gently
    BY DeskKeeps DEF Kept
  <2>2. PassAlone /\ Types => LinkStep \/ Gently
    BY PassKeeps DEF Passed
  <2>3. UNCHANGED vars => Gently
    BY SameIsQuiet DEF vars, Gently
  <2> QED
    BY <2>1, <2>2, <2>3, StepKinds, LinksKept
<1> QED
  BY <1>1, <1>2, TypesHold, PTL DEF Spec
=============================================================================
