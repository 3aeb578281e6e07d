----------------------------- MODULE Submission -----------------------------
(***************************************************************************)
(* The table of campaign submissions: one row for each campaign and post,  *)
(* its statuses, the events that move it (campaigns/statemachine.py) and   *)
(* the partial unique index on links (core/state.py). A webhook submission *)
(* is sent by Clips Kitty; "hand" stands for the assisted and the website  *)
(* methods, which the user does. Words, checks and reasons are left out:   *)
(* what they decide is a choice.                                           *)
(***************************************************************************)
EXTENDS Naturals, FiniteSets

CONSTANTS
  Campaigns, Posts, Links, NoLink, NoRow,
  Rows,      \* the (campaign, post) pairs this instance may attach
  Retries    \* tries after the first before a send has failed (RETRY_DELAYS)

ASSUME SubmissionAssumption ==
  /\ NoLink \notin Links /\ NoRow \notin Rows
  /\ Rows \subseteq Campaigns \X Posts
  /\ Retries \in Nat

VARIABLES
  subs,     \* campaign_submissions: (campaign, post) -> row
  camp,     \* campaigns: switched on, archived, its deadline passed, its method
  dest,     \* the one webhook: its state, and whether its link is on this PC
  posted    \* history: messages Discord took for a row since it was last asked for

Methods == {"webhook", "hand"}

Waiting  == {"waiting_publication", "waiting_url"}
PreSend  == Waiting \cup {"ready", "review", "manual"}
Editable == PreSend \cup {"failed"}
SentOff  == {"sent", "awaiting_confirmation"}
Terminal == {"confirmed", "rejected", "expired", "cancelled"}
Statuses == Editable \cup {"sending"} \cup SentOff \cup Terminal
Reopenable == {"cancelled", "expired", "failed"}

(* "none" is a post not attached to the campaign. `due` says that the time   *)
(* the row waits for (next_attempt_at; 120 seconds of sending) has come.     *)
RowType == [status : Statuses \cup {"none"}, method : Methods, hold : BOOLEAN,
            first : BOOLEAN, link : Links \cup {NoLink}, typed : BOOLEAN,
            due : BOOLEAN, tries : Nat, by : {"", "webhook", "user"},
            opened : BOOLEAN, own : BOOLEAN]

NewRow(method, hold, first) ==
  [status |-> "waiting_publication", method |-> method, hold |-> hold, first |-> first,
   link |-> NoLink, typed |-> FALSE, due |-> TRUE, tries |-> 0, by |-> "",
   opened |-> FALSE, own |-> FALSE]

TableInit ==
  /\ subs = [s \in Rows |-> [NewRow("hand", FALSE, FALSE) EXCEPT !.status = "none"]]
  /\ camp \in [Campaigns -> [on : {TRUE}, archived : {FALSE}, over : {FALSE}, method : Methods]]
  /\ dest = [state |-> "connected", hook |-> TRUE]
  /\ posted = [s \in Rows |-> 0]

-----------------------------------------------------------------------------
(* The state machine.                                                       *)

(* TRANSITIONS: the statuses each event is allowed in.                      *)
Sources == [
  published_no_url |-> {"waiting_publication"},
  post_failed      |-> {"waiting_publication"},
  url_found        |-> Waiting \cup {"manual"},
  url_overdue      |-> {"waiting_url"},
  stale            |-> Waiting,
  expire           |-> PreSend,
  send_start       |-> {"ready"},
  destination_unusable |-> {"ready"},
  answered         |-> {"sending"},
  set_url          |-> Waiting \cup {"review", "manual", "failed"},
  approve          |-> {"review"},
  submit           |-> {"ready"},
  user_submitted   |-> {"manual", "ready", "review", "failed", "awaiting_confirmation"},
  confirmed        |-> SentOff \cup {"manual"},
  rejected         |-> SentOff,
  retry            |-> {"failed"},
  send_again       |-> {"awaiting_confirmation"},
  cancel           |-> Editable \cup SentOff,
  move             |-> Editable,
  edit             |-> Editable,
  campaign_changed |-> Editable,
  reopen           |-> Reopenable ]

(* What the row must be beyond its status, compared again as it is written. *)
GuardAnySender(row, event) ==   \* send_again forgets who sent it
  CASE event = "url_found"  -> row.status = "manual" => row.link = NoLink
    [] event = "send_start" -> row.method = "webhook" /\ ~row.hold /\ row.due
    [] event = "submit"     -> row.hold
    [] event = "campaign_changed" -> ~row.opened
    [] OTHER -> TRUE

Guard(row, event) ==
  CASE event = "url_found"  -> row.status = "manual" => row.link = NoLink
    [] event = "send_start" -> row.method = "webhook" /\ ~row.hold /\ row.due
    [] event = "destination_unusable" -> row.method = "webhook"
    [] event = "submit"     -> row.hold
    [] event = "send_again" -> row.by # "user"
    [] event = "campaign_changed" -> ~row.opened
    [] OTHER -> TRUE

AllowedOrCancel(s, event) ==     \* a row can be cancelled whatever its status
  \/ event = "cancel" /\ subs[s].status # "none"
  \/ subs[s].status \in Sources[event] /\ Guard(subs[s], event)

Allowed(s, event) == subs[s].status \in Sources[event] /\ Guard(subs[s], event)

(* UPDATE .. WHERE status and the watched columns are as they were read.    *)
Apply(s, event, row) == Allowed(s, event) /\ subs' = [subs EXCEPT ![s] = row]

(* idx_campaign_submissions_url: a row that still counts keeps its link.    *)
Counts(row) == row.status \notin {"none", "cancelled", "expired"}
Holds(t, link) == Counts(subs[t]) /\ subs[t].link = link
Duplicate(s, link) == \E t \in Rows \ {s} : t[1] = s[1] /\ Holds(t, link)
Clash(s, row) == row.link # NoLink /\ Counts(row) /\ Duplicate(s, row.link)

Open(c) == camp[c].on /\ ~camp[c].archived     \* _LIVE_CAMPAIGN

(* reopen clears what happened to the row; what the user set on it stays.   *)
ReopenedWithLink(row) ==    \* the link is not cleared
  [row EXCEPT !.status = "waiting_publication", !.due = TRUE, !.tries = 0,
              !.by = "", !.opened = FALSE]

Reopened(row) ==
  [row EXCEPT !.status = "waiting_publication", !.link = NoLink, !.typed = FALSE,
              !.due = TRUE, !.tries = 0, !.by = "", !.opened = FALSE]

(* Recovery: a row left `sending` may have reached Discord.                 *)
UnvouchedResent(row) == [row EXCEPT !.status = "ready", !.due = TRUE, !.by = ""]

Unvouched(row) == [row EXCEPT !.status = "awaiting_confirmation", !.by = ""]

-----------------------------------------------------------------------------
(* Evaluation of a row that has a link.                                     *)

Unusable == dest.state # "connected"

(* eligibility.verdict and _outcome: where the checks may send the row.     *)
Verdicts(s, row) ==
  IF camp[s[1]].over THEN {"expired"}
  ELSE IF row.method = "webhook" /\ Unusable
       THEN {IF row.first THEN "review" ELSE "manual"}
  ELSE {"review"} \cup
       IF row.first THEN {}
       ELSE {IF row.hold \/ row.method = "webhook" THEN "ready" ELSE "manual"}

Goals(s, row, link) == IF Duplicate(s, link) THEN {"cancelled"} ELSE Verdicts(s, row)

(* The row as evaluation writes it: `j` says what was decided and from which *)
(* row; `found` is the row now.                                             *)
JudgedBlank(found, j) ==      \* a change that was not asked for is written blank
  [found EXCEPT !.status = j.goal, !.link = j.link, !.typed = j.typed, !.method = j.method]

Judged(found, j) ==
  LET method == IF j.method = "" THEN found.method ELSE j.method
      send   == j.goal = "ready" /\ j.row.method = "webhook" /\ ~j.row.hold
  IN [found EXCEPT !.status = j.goal, !.link = j.link, !.typed = j.typed,
                   !.method = method, !.own = @ \/ (j.method # "" /\ j.event = "edit"),
                   !.due = @ \/ send,
                   !.tries = IF j.row.status = "failed" /\ j.goal # "cancelled" THEN 0 ELSE @]
=============================================================================
