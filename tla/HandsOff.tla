------------------------------ MODULE HandsOff ------------------------------
(***************************************************************************)
(* A watched video's clips on their way out with nobody watching            *)
(* (server/automation.py _decide_publishing, publish, _publish_failed,      *)
(* _retry_rejected_posts): the item of watch_items and its tries, over the  *)
(* sends of FanOut, with a person's own presses and restarts.               *)
(***************************************************************************)
EXTENDS FanOut

CONSTANTS
  MaxStarts,   \* PUBLISH_START_ATTEMPTS
  MaxRedo      \* the lengths in DELIVERY_RETRY_DELAYS

ASSUME HandsOffAssumption == MaxStarts \in Nat /\ MaxRedo \in Nat

VARIABLES item   \* publish_state, publish_attempts, delivery_retries, and
                 \* publish_retry_at: "" (0), "set" or "past"

vars == <<table, send, checks, woop, asked, slips, troubles, asks, item>>
Outside == UNCHANGED <<table, checks, woop, asked, slips>>

Init == /\ FanOutInit
        /\ item = [is |-> "publishing", tries |-> 0, redo |-> 0, retry |-> ""]

Due == item.retry # "set"

(* publish: it begins to send, or every clip is sent already.               *)
Publish ==
  /\ item.is = "publishing" /\ Due
  /\ \/ BeginOnce /\ UNCHANGED troubles
     \/ /\ send["watcher"].at = "idle" /\ AlreadySent = Platforms
        /\ send' = [send EXCEPT !["watcher"].at = "ended"]
        /\ Outside /\ UNCHANGED <<troubles, asks>>
  /\ item' = [item EXCEPT !.is = "publishing"]

(* Faulty variant of StartFails: the tries are not counted.                 *)
StartFailsForever ==
  /\ item.is = "publishing" /\ Due /\ send["watcher"].at = "idle"
  /\ item' = [item EXCEPT !.retry = "set"]
  /\ Outside /\ UNCHANGED <<send, asks, troubles>>

(* Faulty variant of StartFails: the tries are counted and never looked at. *)
StartFailsUncapped ==
  /\ item.is = "publishing" /\ Due /\ send["watcher"].at = "idle" /\ Trouble
  /\ item' = [item EXCEPT !.tries = @ + 1, !.retry = "set"]
  /\ Outside /\ UNCHANGED <<send, asks>>

(* WoopSocial can't be reached, or refuses the key: nothing has been marked. *)
StartFails ==
  /\ item.is = "publishing" /\ Due /\ send["watcher"].at = "idle" /\ Trouble
  /\ \/ item.tries < MaxStarts /\ item' = [item EXCEPT !.tries = @ + 1, !.retry = "set"]
     \/ item' = [item EXCEPT !.is = "ask", !.retry = ""]
  /\ Outside /\ UNCHANGED <<send, asks>>

Published ==
  /\ send["watcher"].at = "ended"
  /\ send' = [send EXCEPT !["watcher"] = NoSend]
  /\ item' = [item EXCEPT !.is = "done", !.tries = 0, !.retry = ""]
  /\ Outside /\ UNCHANGED <<troubles, asks>>

(* _retry_rejected_posts: the delay is set, and after it the clips are sent  *)
(* again.                                                                   *)
RetryRejected ==
  /\ item.is = "done" /\ item.redo < MaxRedo /\ send["watcher"].at = "idle"
  /\ \E p \in Platforms : rows[p].state = "failed"
  /\ \/ item.retry = "" /\ item' = [item EXCEPT !.retry = "set"]
     \/ item.retry = "past" /\ item' = [item EXCEPT !.is = "publishing", !.retry = "", !.tries = 0,
                                                    !.redo = @ + 1]
  /\ Outside /\ UNCHANGED <<send, troubles, asks>>

TimePasses ==
  /\ item.retry = "set" /\ item' = [item EXCEPT !.retry = "past"]
  /\ Outside /\ UNCHANGED <<send, troubles, asks>>

(* approve_item: Publish, pressed on the video.                             *)
Approve ==
  /\ asks < MaxAsks /\ asks' = asks + 1
  /\ item.is # "publishing" \/ item.retry # ""
  /\ item' = [item EXCEPT !.is = "publishing", !.tries = 0, !.retry = ""]
  /\ Outside /\ UNCHANGED <<send, troubles>>

Restart == Trouble /\ FanOutStops /\ UNCHANGED <<asks, item>>

Watcher   == Publish \/ StartFails \/ Published \/ RetryRejected
World     == \E r \in Made, p \in Platforms : Deliver(r, p)
Ages      == \E p \in Platforms : Age(p)
Lapses    == \E r \in Made : Lapse(r)
Presses   == \E r \in Made : AskPressed(r)
Sends     == SendStep /\ UNCHANGED item
Refreshes == Background /\ UNCHANGED item
Pressed   == Check("person") /\ UNCHANGED item

Next == \/ Watcher \/ Sends \/ Refreshes \/ Pressed \/ TimePasses \/ Approve \/ Restart
        \/ (World \/ Ages \/ Lapses \/ BeginAsked \/ Presses) /\ UNCHANGED item

Spec == Init /\ [][Next]_vars

(* The watcher, the publisher's thread and requests go on; time passes; what *)
(* WoopSocial accepted is published or rejected in the end.                  *)
FairSpec ==
  /\ Spec
  /\ WF_vars(Watcher) /\ WF_vars(Sends) /\ WF_vars(Refreshes) /\ WF_vars(Pressed)
  /\ WF_vars(TimePasses)
  /\ WF_vars(World /\ UNCHANGED item) /\ WF_vars(Ages /\ UNCHANGED item)

-----------------------------------------------------------------------------
(* Every variable holds what its column or object may hold.                 *)
TypeOK ==
  /\ rows \in [Platforms -> [state : States, req : {0} \cup Made, media : Nat]]
  /\ old \subseteq Platforms
  /\ \A a \in Senders :
       /\ send[a].at \in {"idle", "marking", "uploading", "tagging", "creating", "recording",
                          "failing", "ended"}
       /\ send[a].left \subseteq Platforms /\ send[a].to \subseteq Platforms
       /\ send[a].req \in {0} \cup Made /\ send[a].media \in 0 .. medias
  /\ \A c \in Checkers :
       /\ fresh[c].at \in {"idle", "asking", "finding", "writing"}
       /\ fresh[c].left \subseteq Platforms /\ fresh[c].req \in {0} \cup Made
       /\ \A p \in Platforms : fresh[c].known[p] \in States \cup {"no"}
       /\ doubted[c] \subseteq Platforms
  /\ late \subseteq Made /\ slips \subseteq Platforms
  /\ item.is \in {"publishing", "done", "ask"} /\ item.retry \in {"", "set", "past"}
  /\ item.tries \in 0 .. MaxStarts /\ item.redo \in 0 .. MaxRedo

(* A clip is on a platform, or on its way there, at most once for the watch  *)
(* and once for each time a person asked: whatever is cut off, unanswered,   *)
(* reconciled, rejected or sent again. Set apart are the platforms on which  *)
(* a post was lost sight of: its answer could not be read, it was not among  *)
(* the newest when it was looked for, a stop fell between two rows of it, or *)
(* one check wrote what another had made old (README, section 6).           *)
PostedOnce ==
  \A p \in Platforms \ slips : Cardinality({r \in Made : Live(r, p)}) <= 1 + asked[p]

(* While the watch's own post of a clip lives, its row says that one is      *)
(* sent or on its way, so it will not be sent again.                         *)
PostedIsKnown ==
  \A p \in Platforms \ slips, r \in Made :
    posts[r].by = "watcher" /\ Live(r, p) => rows[p].state \in Alive \/ asked[p] > 0

(* A publish nobody watches ends: sent, or put in front of a person.         *)
HandsOffEnds == item.is = "publishing" ~> item.is # "publishing"

(* What a platform published for the watch is shown as published, unless it   *)
(* is no longer followed, or was lost sight of, or a person posts there too. *)
PublishedShown ==
  \A p \in Platforms, r \in Made :
    posts[r].by = "watcher" /\ posts[r].is[p] = "published"
      ~> rows[p].state = "published" \/ r \in late \/ p \in slips \/ asked[p] > 0
=============================================================================
