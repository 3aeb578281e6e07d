---------------------------- MODULE CampaignDesk ----------------------------
(***************************************************************************)
(* What the user does to campaigns, submissions and the webhook in the     *)
(* app, one request at a time, beside the background pass.                 *)
(***************************************************************************)
EXTENDS SubmissionWorker

CONSTANTS
  Modes,      \* the ways of attaching this instance uses
  MaxOps      \* bound: what the user does

ASSUME DeskAssumption == Modes \subseteq {"now", "review", "later"} /\ MaxOps \in Nat

VARIABLES ops

vars == <<subs, camp, dest, posted, act, troubles, ops>>

Init == TableInit /\ WorkerInit /\ ops = 0

-----------------------------------------------------------------------------
Asks == act["request"].at = "idle" /\ ops < MaxOps /\ ops' = ops + 1

Takes(c) == Open(c) /\ ~camp[c].over          \* campaign_refusal

(* attach: a new row, looked at once here; an existing one is looked at on   *)
(* the next pass.                                                           *)
Attach(s) ==
  /\ Asks /\ Takes(s[1])
  /\ \/ /\ subs[s].status = "none"
        /\ \E mode \in Modes :
             LET row == NewRow(camp[s[1]].method, mode = "later", mode = "review") IN
             /\ subs' = [subs EXCEPT ![s] = row]
             /\ act' = [act EXCEPT !["request"].at = "look", !["request"].id = s,
                                   !["request"].row = Copy(row)]
     \/ Followed(subs[s]) /\ subs' = [subs EXCEPT ![s].due = TRUE] /\ UNCHANGED act
  /\ UNCHANGED <<camp, dest, posted, troubles>>

(* attach again with reopen_rows, in the mode picked now: a link the user    *)
(* typed is given back through evaluation; any other is looked for.         *)
Restarted(s, mode) ==
  [Reopened(subs[s]) EXCEPT !.method = IF subs[s].own THEN @ ELSE camp[s[1]].method,
                            !.hold = (mode = "later"), !.first = (mode = "review")]

Reopen(s) ==
  /\ Asks /\ Takes(s[1])
  /\ \E mode \in Modes :
       LET row == Restarted(s, mode) IN
       /\ Apply(s, "reopen", row)
       /\ IF subs[s].typed
          THEN act' = [act EXCEPT !["request"].at = "judge", !["request"].id = s,
                                  !["request"].event = "set_url", !["request"].link = subs[s].link,
                                  !["request"].typed = TRUE]
          ELSE act' = [act EXCEPT !["request"].at = "look", !["request"].id = s,
                                  !["request"].row = Copy(row)]
  /\ posted' = [posted EXCEPT ![s] = 0]
  /\ UNCHANGED <<camp, dest, troubles>>

(* edit of the link: evaluated as set_url where that is allowed.            *)
EditLink(s) ==
  /\ Asks /\ subs[s].status \in Editable
  /\ \E link \in Links :
       act' = [act EXCEPT !["request"].at = "judge", !["request"].id = s,
                 !["request"].event = IF Allowed(s, "set_url") THEN "set_url" ELSE "edit",
                 !["request"].link = link, !["request"].typed = TRUE]
  /\ UNCHANGED <<table, troubles>>

(* edit of the method: evaluated again when the row has a link, else written *)
(* over whatever the row has become that an edit may keep (`to` is the       *)
(* status that was read).                                                   *)
EditMethod(s) ==
  /\ Asks /\ subs[s].status \in Editable
  /\ \E method \in Methods :
       act' = [act EXCEPT !["request"].at = IF subs[s].link = NoLink THEN "keep" ELSE "judge",
                 !["request"].id = s, !["request"].row = Copy(subs[s]), !["request"].event = "edit",
                 !["request"].link = subs[s].link, !["request"].typed = subs[s].typed,
                 !["request"].method = method]
  /\ UNCHANGED <<table, troubles>>

Keep ==
  LET t == act["request"]  now == subs[t.id] IN
  /\ t.at = "keep"
  /\ \/ /\ Apply(t.id, t.event, [now EXCEPT !.status = t.row.status, !.method = t.method,
                                            !.own = @ \/ t.event = "edit"])
        /\ t.row.status \in {now.status, "ready", "review", "manual"}
     \/ /\ ~Allowed(t.id, t.event) \/ t.row.status \notin {now.status, "ready", "review", "manual"}
        /\ UNCHANGED subs
  /\ Return("request")
  /\ UNCHANGED <<camp, dest, posted, troubles, ops>>

(* Saved for later; let go of, a ready row is submitted.                    *)
EditHold(s) ==
  /\ Asks
  /\ Apply(s, "edit", [subs[s] EXCEPT !.hold = ~@])
  /\ ~(subs[s].status = "ready" /\ subs[s].hold)
  /\ UNCHANGED <<camp, dest, posted, act, troubles>>

ByMethod(row) == [row EXCEPT !.status = IF row.method = "webhook" THEN "ready" ELSE "manual",
                             !.due = @ \/ row.method = "webhook"]

(* The buttons of one row.                                                  *)
Approve(s)   == Apply(s, "approve", ByMethod(subs[s])) /\ UNCHANGED posted
Submit(s)    == Apply(s, "submit", [ByMethod(subs[s]) EXCEPT !.hold = FALSE]) /\ UNCHANGED posted
Retry(s)     == /\ Apply(s, "retry", [subs[s] EXCEPT !.status = "ready", !.tries = 0, !.due = TRUE])
                /\ UNCHANGED posted
Cancel(s)    == Apply(s, "cancel", [subs[s] EXCEPT !.status = "cancelled"]) /\ UNCHANGED posted
SendAgain(s) == /\ Apply(s, "send_again", [subs[s] EXCEPT !.status = "ready", !.due = TRUE, !.by = ""])
                /\ posted' = [posted EXCEPT ![s] = 0]
RecordSubmitted(s) ==
  /\ \E status \in SentOff :
       Apply(s, "user_submitted", [subs[s] EXCEPT !.status = status, !.by = "user"])
  /\ UNCHANGED posted
RecordAnswer(s) ==
  /\ \E answer \in {"confirmed", "rejected"} : Apply(s, answer, [subs[s] EXCEPT !.status = answer])
  /\ UNCHANGED posted
Opened(s) == /\ subs[s].status # "none"
             /\ subs' = [subs EXCEPT ![s].opened = TRUE] /\ UNCHANGED posted

Press(s) ==
  /\ Asks
  /\ Approve(s) \/ Submit(s) \/ Retry(s) \/ Cancel(s) \/ SendAgain(s)
     \/ RecordSubmitted(s) \/ RecordAnswer(s) \/ Opened(s)
  /\ UNCHANGED <<camp, dest, act, troubles>>

(* move: one transaction, the first look of the moved row included: a link   *)
(* the user typed goes with it (or comes back with the row it had there),    *)
(* any other is looked for.                                                 *)
Moved(s, t) ==
  LET carried == NewRow(camp[t[1]].method, subs[s].hold, subs[s].first)
      Found(link, typed) == {[carried EXCEPT !.link = link, !.typed = typed, !.status = goal] :
                               goal \in Goals(t, carried, link)}
      Given(r) == IF subs[r].typed THEN Found(subs[r].link, TRUE) ELSE {}
      looked == {[carried EXCEPT !.status = status, !.due = FALSE] : status \in Waiting \cup {"manual"}}
                \cup UNION {Found(link, FALSE) : link \in Links}
  IN IF subs[s].typed THEN Given(s) ELSE looked \cup Given(t)

Move(s, t) ==
  /\ Asks /\ s[2] = t[2] /\ s # t /\ Takes(t[1])
  /\ subs[t].status \in {"none"} \cup Reopenable
  /\ Allowed(s, "move")
  /\ subs[s].link # NoLink => ~Duplicate(t, subs[s].link)
  /\ \E row \in Moved(s, t) :
       subs' = [subs EXCEPT ![s].status = "cancelled", ![t] = row]
  /\ posted' = [posted EXCEPT ![t] = 0]
  /\ UNCHANGED <<camp, dest, act, troubles>>

-----------------------------------------------------------------------------
(* Campaigns and the webhook.                                               *)

Switch(c) ==
  /\ Asks /\ ~camp[c].archived
  /\ camp' = [camp EXCEPT ![c].on = ~@]
  /\ UNCHANGED <<subs, dest, posted, act, troubles>>

(* remove_campaign: the archive and its cancels in one transaction; a row    *)
(* out sending is left to the pass.                                         *)
Archive(c) ==
  /\ Asks /\ ~camp[c].archived
  /\ \E s \in Rows : s[1] = c /\ subs[s].status # "none"
  /\ camp' = [camp EXCEPT ![c].archived = TRUE]
  /\ subs' = [s \in Rows |-> IF s[1] = c /\ Allowed(s, "cancel") /\ subs[s].status \in Editable
                             THEN [subs[s] EXCEPT !.status = "cancelled"] ELSE subs[s]]
  /\ UNCHANGED <<dest, posted, act, troubles>>

(* The deadline is edited to a later time.                                  *)
Extend(c) ==
  /\ Asks /\ camp[c].over
  /\ camp' = [camp EXCEPT ![c].over = FALSE]
  /\ UNCHANGED <<subs, dest, posted, act, troubles>>

(* reapply_campaign: the new method, row after row.                         *)
ChangeMethod(c) ==
  /\ Asks
  /\ \E method \in Methods \ {camp[c].method} :
       /\ camp' = [camp EXCEPT ![c].method = method]
       /\ act' = [act EXCEPT !["request"] =
            [Idle EXCEPT !.at = "reapply", !.back = "reapply",
                         !.left = {s \in Rows : s[1] = c /\ subs[s].status \in Editable}]]
  /\ UNCHANGED <<subs, dest, posted, troubles>>

Reapply ==
  LET t == act["request"] IN
  /\ t.at = "reapply"
  /\ \/ t.left = {} /\ act' = [act EXCEPT !["request"] = Idle]
     \/ \E s \in t.left :
          LET rest == [t EXCEPT !.left = @ \ {s}]
              method == camp[s[1]].method
              keeps == subs[s].opened \/ subs[s].own \/ subs[s].method = method
          IN act' = [act EXCEPT !["request"] =
               IF keeps THEN rest
               ELSE [rest EXCEPT !.at = IF subs[s].link = NoLink THEN "keep" ELSE "judge",
                                 !.id = s, !.row = Copy(subs[s]), !.event = "campaign_changed",
                                 !.link = subs[s].link, !.typed = subs[s].typed,
                                 !.method = method]]
  /\ UNCHANGED <<table, troubles, ops>>

(* remove_destination: its ready rows are the user's.                       *)
RemoveWebhook ==
  /\ Asks /\ dest.state # "missing"
  /\ dest' = [state |-> "missing", hook |-> FALSE]
  /\ subs' = [s \in Rows |-> IF Allowed(s, "destination_unusable")
                             THEN [subs[s] EXCEPT !.status = "manual"] ELSE subs[s]]
  /\ UNCHANGED <<camp, posted, act, troubles>>

(* update_destination with a new link.                                      *)
PasteWebhook ==
  /\ Asks /\ dest.state # "missing"
  /\ dest' = [state |-> "connected", hook |-> TRUE]
  /\ UNCHANGED <<subs, camp, posted, act, troubles>>

DeadlinePasses(c) ==
  /\ ~camp[c].over
  /\ Trouble
  /\ camp' = [camp EXCEPT ![c].over = TRUE]
  /\ UNCHANGED <<subs, dest, posted, act, ops>>

-----------------------------------------------------------------------------
Desk ==
  \/ \E s \in Rows : Attach(s) \/ Reopen(s) \/ EditLink(s) \/ EditMethod(s) \/ EditHold(s) \/ Press(s)
  \/ \E s, t \in Rows : Move(s, t)
  \/ \E c \in Campaigns : Switch(c) \/ Archive(c) \/ Extend(c) \/ ChangeMethod(c)
  \/ RemoveWebhook \/ PasteWebhook

RequestStep == Keep \/ Reapply \/ ((Judge("request") \/ Write("request") \/ Look("request")) /\ UNCHANGED ops)

Background == Pass /\ UNCHANGED ops
Clock == \E s \in Rows : Tick(s)

Next == \/ Desk \/ RequestStep \/ Background
        \/ (Clock \/ Restart) /\ UNCHANGED ops
        \/ \E c \in Campaigns : DeadlinePasses(c)

Spec == Init /\ [][Next]_vars

(* The publisher's thread and the requests in hand go on; time passes for   *)
(* each row. The user, deadlines and troubles are owed nothing.             *)
FairSpec ==
  /\ Spec
  /\ WF_vars(Background) /\ WF_vars(RequestStep)
  /\ \A s \in Rows : WF_vars(Tick(s) /\ UNCHANGED ops)

-----------------------------------------------------------------------------
(* Every variable holds what its column or object may hold.                 *)
TypeOK ==
  /\ subs \in [Rows -> RowType]
  /\ camp \in [Campaigns -> [on : BOOLEAN, archived : BOOLEAN, over : BOOLEAN, method : Methods]]
  /\ dest \in [state : {"connected", "gone", "denied", "missing"}, hook : BOOLEAN]
  /\ posted \in [Rows -> Nat]
  /\ \A a \in Threads :
       /\ act[a].id \in Rows \cup {NoRow} /\ act[a].row \in RowType
       /\ act[a].link \in Links \cup {NoLink} /\ act[a].typed \in BOOLEAN
       /\ act[a].method \in Methods \cup {""} /\ act[a].left \subseteq Rows
  /\ troubles \in 0 .. MaxTroubles /\ ops \in 0 .. MaxOps

(* A row's message is posted at most once since the user last asked for it   *)
(* (attached again, moved there, or sent again on purpose), whatever fails,  *)
(* is lost, is recovered or is edited around the send.                      *)
PostedOnce == \A s \in Rows : posted[s] <= 1

(* A message that Discord took is never shown as one still to be sent: the   *)
(* row is out, sent, waiting for the campaign's word, or closed.            *)
PostedIsKnown ==
  \A s \in Rows : posted[s] > 0 =>
    subs[s].status \in {"sending", "cancelled", "confirmed", "rejected"} \cup SentOff

(* While the request is out its row is `sending`: no request of the app, no  *)
(* sweep and no edit moves it before the answer is written.                 *)
OutIsSending ==
  act["worker"].at \in {"out", "taken"} => subs[act["worker"].id].status = "sending"

(* One link is submitted to one campaign once: no path but evaluation, which *)
(* catches the clash, brings two rows that count to the same link. The index *)
(* is therefore never hit where nothing catches it.                         *)
LinkOnce == \A s \in Rows : ~Clash(s, subs[s])

(* What the user submitted by hand is not also sent by the webhook: such a   *)
(* row stays sent or gets the campaign's word, until it is closed and        *)
(* attached again.                                                          *)
HandSentStays ==
  [][\A s \in Rows : subs[s].by = "user" /\ subs[s].status \notin Reopenable =>
       subs'[s].status \in {"cancelled", "confirmed", "rejected"} \cup SentOff]_vars

(* No send stays `sending` for good, whatever cut it off.                   *)
SendEnds == \A s \in Rows : subs[s].status = "sending" ~> subs[s].status # "sending"

(* A row not yet sent when its campaign is archived, or back unsent after    *)
(* it, ends up closed or sent.                                              *)
ArchivedSettles ==
  \A s \in Rows : (camp[s[1]].archived /\ subs[s].status \in Editable)
                  ~> subs[s].status \notin Editable
=============================================================================
