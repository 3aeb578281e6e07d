-------------------------- MODULE SubmissionWorker --------------------------
(***************************************************************************)
(* Two threads over the submissions: the publisher's, which makes the      *)
(* background pass (campaigns/queue.py advance) and sends by webhook, and  *)
(* one request of the app at a time. A thread keeps the row it read while  *)
(* the other changes the table; every write compares the row again.        *)
(***************************************************************************)
EXTENDS Submission

CONSTANTS MaxTroubles     \* bound: unanswered, refused and failed sends, crashes, deadlines

ASSUME WorkerAssumption == MaxTroubles \in Nat

VARIABLES
  act,       \* thread -> where it is, and what it read and decided
  troubles

table == <<subs, camp, dest, posted>>

Trouble == troubles < MaxTroubles /\ troubles' = troubles + 1

Threads == {"worker", "request"}

(* `back` is where the thread goes when it is done with the row; `sent`     *)
(* says that this pass posted to the webhook already (its spacing).         *)
Idle == [at |-> "idle", back |-> "idle", id |-> NoRow, row |-> NewRow("hand", FALSE, FALSE),
         event |-> "", link |-> NoLink, typed |-> FALSE, method |-> "", goal |-> "",
         left |-> {}, sent |-> FALSE]

WorkerInit == act = [a \in Threads |-> Idle] /\ troubles = 0

Return(a) ==
  act' = [act EXCEPT ![a] = [Idle EXCEPT !.at = act[a].back, !.back = act[a].back,
                                         !.left = act[a].left, !.sent = act[a].sent]]

(* What a thread keeps of the row it read.                                  *)
Copy(row) == [Idle.row EXCEPT !.status = row.status, !.link = row.link,
                              !.method = row.method, !.hold = row.hold]

(* The row takes the event, or another thread has moved it meanwhile.       *)
Try(s, event, row) == Apply(s, event, row) \/ (~Allowed(s, event) /\ UNCHANGED subs)

-----------------------------------------------------------------------------
(* evaluate: what the checks say of the row as it was read ..               *)

Judge(a) ==
  LET t == act[a]
      row == [subs[t.id] EXCEPT !.method = IF t.method = "" THEN @ ELSE t.method]
  IN /\ t.at = "judge"
     /\ \E goal \in Goals(t.id, row, t.link) :
          act' = [act EXCEPT ![a].at = "write", ![a].row = Copy(row), ![a].goal = goal]
     /\ UNCHANGED <<table, troubles>>

(* .. and the write: refused when the row can't take the event any more, a  *)
(* cancel when the link index catches another row.                          *)
Write(a) ==
  LET t == act[a]
      row == Judged(subs[t.id], t)
      twice == [Judged(subs[t.id], [t EXCEPT !.goal = "cancelled"]) EXCEPT !.due = subs[t.id].due]
  IN /\ t.at = "write"
     /\ Try(t.id, t.event, IF Clash(t.id, row) THEN twice ELSE row)
     /\ Return(a)
     /\ UNCHANGED <<camp, dest, posted, troubles>>

Followed(row) == row.status \in Waiting \/ (row.status = "manual" /\ row.link = NoLink)

(* follow: one look at where the post of a followed row stands.             *)
StartJudge(a, event, link, typed, method) ==
  act' = [act EXCEPT ![a].at = "judge", ![a].row = Idle.row, ![a].event = event, ![a].link = link,
                     ![a].typed = typed, ![a].method = method]

Look(a) ==
  LET t == act[a]  now == subs[t.id]
      Becomes(event, status, due) ==
        Apply(t.id, event, [now EXCEPT !.status = status, !.due = due])
      Unchanged == now.status = t.row.status /\ now.link = t.row.link
      Later == Unchanged /\ subs' = [subs EXCEPT ![t.id].due = FALSE]
      Blocked(link) ==
        LET row == [now EXCEPT !.status = "manual", !.due = FALSE]
            linked == [row EXCEPT !.link = link, !.typed = FALSE]
        IN Apply(t.id, "url_found", IF Clash(t.id, linked) THEN row ELSE linked)
  IN /\ t.at = "look"
     /\ \/ \E link \in Links : StartJudge(a, "url_found", link, FALSE, "") /\ UNCHANGED subs
        \/ /\ \/ Becomes("url_found", "manual", FALSE)
              \/ \E link \in Links : Blocked(link)
              \/ t.row.status = "waiting_publication" /\ Becomes("published_no_url", "waiting_url", FALSE)
              \/ t.row.status = "waiting_url" /\ Becomes("url_overdue", "manual", FALSE)
              \/ t.row.status = "waiting_publication"
                 /\ \E status \in {"manual", "waiting_publication"} : Becomes("post_failed", status, FALSE)
              \/ t.row.status \in Waiting /\ Becomes("stale", "manual", FALSE)
              \/ Later
              \/ ~(Followed(t.row) /\ Unchanged) /\ UNCHANGED subs
           /\ Return(a)
     /\ UNCHANGED <<camp, dest, posted, troubles>>

-----------------------------------------------------------------------------
(* The pass: sweep, deadlines, archived campaigns, posts, sends.            *)

IsDue(s)  == Followed(subs[s]) /\ subs[s].due /\ Open(s[1])
ToSend(s) == LET row == subs[s] IN
  row.status = "ready" /\ ~row.hold /\ row.method = "webhook" /\ row.due /\ Open(s[1])
LateReversed(s) == subs[s].status = "sending" /\ ~subs[s].due
Late(s)     == subs[s].status = "sending" /\ subs[s].due
Expired(s)  == subs[s].status \in PreSend /\ camp[s[1]].over
LeftoverPreSend(s) == subs[s].status \in PreSend /\ camp[s[1]].archived
Leftover(s) == subs[s].status \in Editable /\ camp[s[1]].archived

(* A phase begins with its listing; each row listed is then handled by      *)
(* itself, as it is by then.                                                *)
At(phase) == act["worker"].at = phase
PhaseSpaced(phase, listed) ==      \* the spacing outlives the pass
  act' = [act EXCEPT !["worker"] = [Idle EXCEPT !.at = phase, !.back = phase, !.left = listed,
                                                !.sent = act["worker"].sent]]
Phase(phase, listed) ==
  act' = [act EXCEPT !["worker"] = [Idle EXCEPT !.at = phase, !.back = phase, !.left = listed]]
Listed == act["worker"].left
Handled(s) == act' = [act EXCEPT !["worker"].left = @ \ {s}]
ListingDone(phase) == At(phase) /\ Listed = {}

Sweep ==
  /\ At("idle")
  /\ subs' = [s \in Rows |-> IF Late(s) THEN Unvouched(subs[s]) ELSE subs[s]]
  /\ Phase("expire", {s \in Rows : Expired(s)})
  /\ UNCHANGED <<camp, dest, posted, troubles>>

Expire ==
  /\ At("expire")
  /\ \E s \in Listed : Try(s, "expire", [subs[s] EXCEPT !.status = "expired"]) /\ Handled(s)
  /\ UNCHANGED <<camp, dest, posted, troubles>>

(* A row listed unsent may be recorded as sent by now: it is cancelled all   *)
(* the same.                                                                *)
CancelLeftover ==
  /\ At("leftovers")
  /\ \E s \in Listed : Try(s, "cancel", [subs[s] EXCEPT !.status = "cancelled"]) /\ Handled(s)
  /\ UNCHANGED <<camp, dest, posted, troubles>>

Follow ==
  /\ At("follow")
  /\ \E s \in Listed :
       act' = [act EXCEPT !["worker"].left = @ \ {s}, !["worker"].at = "look",
                          !["worker"].id = s, !["worker"].row = Copy(subs[s])]
  /\ UNCHANGED <<table, troubles>>

NextPhase ==
  /\ \/ ListingDone("expire") /\ Phase("leftovers", {s \in Rows : Leftover(s)})
     \/ ListingDone("leftovers") /\ Phase("follow", {s \in Rows : IsDue(s)})
     \/ ListingDone("follow") /\ Phase("send", {s \in Rows : ToSend(s)})
     \/ ListingDone("send") /\ Phase("idle", {})
  /\ UNCHANGED <<table, troubles>>

-----------------------------------------------------------------------------
(* _send.                                                                   *)

Usable == At("send") /\ ~Unusable /\ dest.hook

(* The webhook can't be used; the last post was a moment ago; the words no  *)
(* longer pass; or `sending` is written, and the request goes out.          *)
SendUnusable ==
  /\ At("send") /\ (Unusable \/ ~dest.hook)
  /\ \E s \in Listed :
       Try(s, "destination_unusable", [subs[s] EXCEPT !.status = "manual"]) /\ Handled(s)
  /\ UNCHANGED <<camp, dest, posted, troubles>>

SendTooSoon ==
  /\ Usable /\ act["worker"].sent
  /\ \E s \in Listed : Handled(s)
  /\ UNCHANGED <<table, troubles>>

SendWords ==
  /\ Usable /\ ~act["worker"].sent
  /\ Trouble
  /\ \E s \in Listed : Try(s, "edit", [subs[s] EXCEPT !.status = "review"]) /\ Handled(s)
  /\ UNCHANGED <<camp, dest, posted>>

SendStart ==
  /\ Usable /\ ~act["worker"].sent
  /\ \E s \in Listed :
       \/ /\ Apply(s, "send_start", [subs[s] EXCEPT !.status = "sending", !.due = FALSE])
          /\ act' = [act EXCEPT !["worker"].at = "out", !["worker"].id = s,
                                !["worker"].sent = TRUE, !["worker"].left = @ \ {s}]
       \/ ~Allowed(s, "send_start") /\ UNCHANGED subs /\ Handled(s)
  /\ UNCHANGED <<camp, dest, posted, troubles>>

Sender == act["worker"].id

(* Discord takes the message.                                               *)
Deliver ==
  /\ At("out")
  /\ posted' = [posted EXCEPT ![Sender] = @ + 1]
  /\ act' = [act EXCEPT !["worker"].at = "taken"]
  /\ UNCHANGED <<subs, camp, dest, troubles>>

Answer(row) ==
  /\ Try(Sender, "answered", row)
  /\ Return("worker")
  /\ UNCHANGED <<camp, posted>>

AnswerOk ==
  /\ At("taken")
  /\ \E status \in SentOff : Answer([subs[Sender] EXCEPT !.status = status, !.by = "webhook"])
  /\ UNCHANGED <<dest, troubles>>

(* The answer never came, or can't be read: it may have been posted.        *)
AmbiguousAsRetry(row) == [row EXCEPT !.status = "ready"]
Ambiguous(row) == Unvouched(row)

AnswerAmbiguous ==
  /\ At("out") \/ At("taken")
  /\ Trouble
  /\ Answer(Ambiguous(subs[Sender]))
  /\ UNCHANGED dest

(* 429; 5xx and no connection, which are taken as not posted; 4xx.          *)
TryAgain(row) ==
  [row EXCEPT !.tries = @ + 1, !.status = IF row.tries < Retries THEN "ready" ELSE "failed"]

AnswerNotPosted ==
  /\ At("out")
  /\ Trouble
  /\ LET row == subs[Sender] IN
     \/ Answer([row EXCEPT !.status = "ready"])
     \/ Answer(TryAgain(row))
     \/ \E status \in {"manual", "failed"} : Answer([row EXCEPT !.status = status])
  /\ UNCHANGED dest

(* 404 and 403: the webhook is marked, and after a 404 its link is wiped    *)
(* and every other ready row of it is the user's.                           *)
AnswerGone ==
  /\ At("out") /\ Allowed(Sender, "answered")
  /\ Trouble
  /\ dest' = [state |-> "gone", hook |-> FALSE]
  /\ subs' = [s \in Rows |-> IF s = Sender \/ Allowed(s, "destination_unusable")
                             THEN [subs[s] EXCEPT !.status = "manual"] ELSE subs[s]]
  /\ Return("worker")
  /\ UNCHANGED <<camp, posted>>

AnswerDenied ==
  /\ At("out")
  /\ Trouble
  /\ dest' = [dest EXCEPT !.state = "denied"]
  /\ Answer([subs[Sender] EXCEPT !.status = "manual"])

(* An exception after `sending` was written: the sweep settles the row.     *)
SendRaises ==
  /\ At("out") \/ At("taken")
  /\ Trouble
  /\ Return("worker")
  /\ UNCHANGED table

(* The app dies and is started again: rows left `sending` are recovered.    *)
Restart ==
  /\ Trouble
  /\ act' = [a \in Threads |-> Idle]
  /\ subs' = [s \in Rows |-> IF subs[s].status = "sending" THEN Unvouched(subs[s]) ELSE subs[s]]
  /\ UNCHANGED <<camp, dest, posted>>

(* The clock: a row's time comes.                                           *)
Tick(s) ==
  /\ ~subs[s].due
  /\ Followed(subs[s]) \/ subs[s].status \in {"ready", "sending"}
  /\ subs' = [subs EXCEPT ![s].due = TRUE]
  /\ UNCHANGED <<camp, dest, posted, act, troubles>>

Send == SendUnusable \/ SendTooSoon \/ SendWords \/ SendStart \/ Deliver \/ AnswerOk
        \/ AnswerAmbiguous \/ AnswerNotPosted \/ AnswerGone \/ AnswerDenied \/ SendRaises

Pass == Sweep \/ Expire \/ CancelLeftover \/ Follow \/ NextPhase \/ Send
        \/ Judge("worker") \/ Write("worker") \/ Look("worker")
=============================================================================
