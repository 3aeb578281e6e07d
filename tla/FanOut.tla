------------------------------- MODULE FanOut -------------------------------
(***************************************************************************)
(* Posting one clip to several platforms through WoopSocial                *)
(* (server/woopsocial_service.py): the rows of clip_publishes, the sends    *)
(* nobody watches (`once`) and those a person asks for, what reconciles a   *)
(* send that was cut off, and the refreshes that follow a post.             *)
(***************************************************************************)
EXTENDS Naturals, FiniteSets

CONSTANTS
  Platforms,
  MaxPosts,      \* bound: posts WoopSocial makes
  MaxTroubles,   \* bound: refusals, lost or unreadable answers, posts overlooked,
                 \* rejections, crashes
  MaxLate,       \* bound: posts no longer followed
  MaxAsks        \* bound: what a person asks for

ASSUME FanOutAssumption == MaxPosts \in Nat /\ MaxTroubles \in Nat /\ MaxLate \in Nat /\ MaxAsks \in Nat

VARIABLES
  rows,      \* clip_publishes: platform -> state, request and media (0: none)
  old,       \* the platforms whose "sending" is older than STALE_SENDING_SECONDS
  send,      \* the two threads in publish_clips: the watcher's (once), a person's
  fresh,     \* who checks: the publisher's thread, in reconcile_sending or
             \* refresh_in_flight, and a person's POST /woopsocial/refresh
  doubted,   \* history: of what each has read, the rows the other wrote since
  posts,     \* WoopSocial: the posts made; each has its media and is, platform
             \* by platform, on its way, published or rejected
  medias,    \* WoopSocial: uploads of the watcher's so far
  late,      \* the posts due more than FOLLOW_DAYS ago
  asked,     \* platform -> how often a person asked for a post there
  slips,     \* history: the platforms on which a post was lost sight of (below)
  troubles, asks

table  == <<rows, old>>
checks == <<fresh, doubted>>
woop   == <<posts, medias, late>>

Senders  == {"watcher", "person"}
Checkers == {"publisher", "person"}
Made    == 1 .. MaxPosts
States  == {"none", "sending", "processing", "published", "failed"}
Alive   == {"sending", "processing", "published"}     \* ALIVE
NoRow   == [state |-> "none", req |-> 0, media |-> 0]
NoSend  == [at |-> "idle", to |-> {}, left |-> {}, media |-> 0, req |-> 0]
NoFresh == [at |-> "idle", req |-> 0, media |-> 0, known |-> [p \in Platforms |-> "no"], left |-> {}]
NoPost  == [media |-> 0, by |-> "none", is |-> [p \in Platforms |-> "no"]]

FanOutInit ==
  /\ rows = [p \in Platforms |-> NoRow] /\ old = {}
  /\ send = [a \in Senders |-> NoSend]
  /\ fresh = [c \in Checkers |-> NoFresh] /\ doubted = [c \in Checkers |-> {}]
  /\ posts = [r \in Made |-> NoPost] /\ medias = 0 /\ late = {}
  /\ asked = [p \in Platforms |-> 0] /\ slips = {} /\ troubles = 0 /\ asks = 0

Trouble == troubles < MaxTroubles /\ troubles' = troubles + 1
Live(r, p) == posts[r].is[p] \in {"going", "published"}
On(r)      == {p \in Platforms : posts[r].is[p] # "no"}

(* What a status check says of a post.                                      *)
Outcome(r, p) == CASE posts[r].is[p] = "published" -> "published"
                   [] posts[r].is[p] = "rejected"  -> "failed"
                   [] OTHER -> "processing"

-----------------------------------------------------------------------------
(* publish_clips, the clip of this run. What a thread has yet to write,      *)
(* platform by platform, is in `left`.                                      *)

Step(a, new) == send' = [send EXCEPT ![a] = new]

(* Faulty variant of AlreadySent: a send that was cut off holds nothing.    *)
AlreadySentDone == {p \in Platforms : rows[p].state \in {"processing", "published"}}

AlreadySent == {p \in Platforms : rows[p].state \in Alive}

(* The guard of `once`; a person's send has none.                           *)
BeginOnce ==
  LET to == Platforms \ AlreadySent IN
  /\ send["watcher"].at = "idle" /\ to # {}
  /\ Step("watcher", [NoSend EXCEPT !.at = "marking", !.to = to, !.left = to])
  /\ UNCHANGED <<table, checks, woop, asked, slips, asks>>

BeginAsked ==
  /\ send["person"].at = "idle" /\ asks < MaxAsks /\ asks' = asks + 1
  /\ \E to \in SUBSET Platforms \ {{}} :
       /\ Step("person", [NoSend EXCEPT !.at = "uploading", !.to = to])
       /\ asked' = [p \in Platforms |-> asked[p] + IF p \in to THEN 1 ELSE 0]
  /\ UNCHANGED <<table, checks, woop, slips, troubles>>

Mark(p) ==
  LET t == send["watcher"] IN
  /\ t.at = "marking" /\ p \in t.left
  /\ rows' = [rows EXCEPT ![p] = [NoRow EXCEPT !.state = "sending"]]
  /\ old' = old \ {p}
  /\ Step("watcher", [t EXCEPT !.left = @ \ {p}, !.at = IF t.left = {p} THEN "uploading" ELSE @])
  /\ UNCHANGED <<checks, woop, asked, slips, troubles, asks>>

(* Only the watcher's media are put on its rows: only they are told apart.   *)
Upload(a) ==
  /\ send[a].at = "uploading"
  /\ \/ /\ a = "watcher" /\ medias' = medias + 1
        /\ Step(a, [send[a] EXCEPT !.at = "tagging", !.left = send[a].to, !.media = medias + 1])
     \/ a = "person" /\ Step(a, [send[a] EXCEPT !.at = "creating"]) /\ UNCHANGED medias
  /\ UNCHANGED <<table, checks, posts, late, asked, slips, troubles, asks>>

(* on_media                                                                 *)
Tag(p) ==
  LET t == send["watcher"] IN
  /\ t.at = "tagging" /\ p \in t.left
  /\ rows' = [rows EXCEPT ![p].media = t.media] /\ old' = old \ {p}
  /\ Step("watcher", [t EXCEPT !.left = @ \ {p}, !.at = IF t.left = {p} THEN "creating" ELSE @])
  /\ UNCHANGED <<checks, woop, asked, slips, troubles, asks>>

(* A send leaves the person's thread free; the watcher still has to say so   *)
(* on the item.                                                             *)
Over(a) == IF a = "watcher" THEN [NoSend EXCEPT !.at = "ended"] ELSE NoSend

Makes(a, r) ==
  /\ r \in Made /\ posts[r] = NoPost /\ \A s \in 1 .. (r - 1) : posts[s] # NoPost
  /\ posts' = [posts EXCEPT ![r] = [media |-> send[a].media, by |-> a,
                 is |-> [p \in Platforms |-> IF p \in send[a].to THEN "going" ELSE "no"]]]

(* create_post, and its answer.                                             *)
Create(a) ==
  /\ send[a].at = "creating"
  /\ \E r \in Made :
       /\ Makes(a, r)
       /\ Step(a, [send[a] EXCEPT !.at = "recording", !.left = send[a].to, !.req = r])
  /\ UNCHANGED <<table, checks, medias, late, asked, slips, troubles, asks>>

(* Faulty variant of NoAnswer: a lost answer is taken for a refusal.        *)
NoAnswerRefused(a) == IF a = "watcher" THEN [send[a] EXCEPT !.at = "failing", !.left = send[a].to]
                      ELSE NoSend

(* A timeout after the upload: the row stays "sending".                     *)
NoAnswer(a) == Over(a)

CreateUnanswered(a) ==
  /\ send[a].at = "creating" /\ Trouble /\ Step(a, NoAnswer(a))
  /\ UNCHANGED posts \/ \E r \in Made : Makes(a, r)
  /\ UNCHANGED <<table, checks, medias, late, asked, slips, asks>>

(* An error that will not pass: the rows of the watcher's send fail.         *)
Refuse(a) == Step(a, IF a = "watcher" THEN [send[a] EXCEPT !.at = "failing", !.left = send[a].to]
                     ELSE NoSend)

(* Refused outright, or stopped before the upload landed.                   *)
Refused(a) ==
  /\ send[a].at \in {"uploading", "creating"} /\ Trouble /\ Refuse(a)
  /\ UNCHANGED <<table, checks, woop, asked, slips, asks>>

(* The post is made, and the answer that says so cannot be read: the code     *)
(* takes that for a refusal too.                                            *)
Unreadable(a) ==
  /\ send[a].at = "creating" /\ Trouble /\ Refuse(a)
  /\ \E r \in Made : Makes(a, r)
  /\ slips' = IF a = "watcher" THEN slips \cup send[a].to ELSE slips
  /\ UNCHANGED <<table, checks, medias, late, asked, asks>>

Fail(p) ==
  LET t == send["watcher"] IN
  /\ t.at = "failing" /\ p \in t.left
  /\ rows' = [rows EXCEPT ![p].state = "failed"] /\ old' = old \ {p}
  /\ Step("watcher", IF t.left = {p} THEN Over("watcher") ELSE [t EXCEPT !.left = @ \ {p}])
  /\ UNCHANGED <<checks, woop, asked, slips, troubles, asks>>

(* record_outcomes: what the answer said, which may be the outcome already.  *)
Record(a, p) ==
  LET t == send[a] IN
  /\ t.at = "recording" /\ p \in t.left
  /\ \E state \in {"processing", Outcome(t.req, p)} :
       rows' = [rows EXCEPT ![p].state = state, ![p].req = t.req]
  /\ old' = old \ {p}
  /\ Step(a, IF t.left = {p} THEN Over(a) ELSE [t EXCEPT !.left = @ \ {p}])
  /\ UNCHANGED <<checks, woop, asked, slips, troubles, asks>>

SendStep ==
  \/ \E a \in Senders : Upload(a) \/ Create(a) \/ CreateUnanswered(a) \/ Refused(a) \/ Unreadable(a)
                        \/ \E p \in Platforms : Record(a, p)
  \/ \E p \in Platforms : Mark(p) \/ Tag(p) \/ Fail(p)

-----------------------------------------------------------------------------
(* The checks: one request, or one interrupted send, at a time.             *)

Busy(p) == send["watcher"].at \notin {"idle", "ended"} /\ p \in send["watcher"].to

(* More than STALE_SENDING_SECONDS pass: longer than a send can take.       *)
Age(p) ==
  /\ rows[p].state = "sending" /\ p \notin old /\ ~Busy(p)
  /\ old' = old \cup {p}
  /\ UNCHANGED <<rows, send, checks, woop, asked, slips, troubles, asks>>

InFlight(r) == \E p \in Platforms : rows[p].req = r /\ rows[p].state = "processing"

(* FOLLOW_DAYS pass after a request in flight was due.                      *)
Lapse(r) ==
  /\ InFlight(r) /\ r \notin late /\ Cardinality(late) < MaxLate /\ late' = late \cup {r}
  /\ UNCHANGED <<table, send, checks, posts, medias, asked, slips, troubles, asks>>

Reads(c, new) ==
  fresh' = [fresh EXCEPT ![c] = new] /\ doubted' = [doubted EXCEPT ![c] = {}]

(* A request's check reads its rows as stored ..                             *)
ReadRows(c, r) ==
  /\ fresh[c].at = "idle"
  /\ Reads(c, [NoFresh EXCEPT !.at = "asking", !.req = r,
                  !.known = [p \in Platforms |-> IF rows[p].req = r THEN rows[p].state ELSE "no"]])
  /\ UNCHANGED <<table, send, woop, asked, slips, troubles>>

(* refresh_in_flight: what is due is asked about in the background, and all   *)
(* that a request made, when a person presses refresh.                      *)
AskDue(r)     == InFlight(r) /\ r \notin late /\ ReadRows("publisher", r) /\ UNCHANGED asks
AskPressed(r) == /\ \E p \in Platforms : rows[p].req = r
                 /\ asks < MaxAsks /\ asks' = asks + 1 /\ ReadRows("person", r)

(* Faulty variant of News: only a rejection is news.                        *)
NewsFailures(r, known) == {p \in Platforms : known[p] # "no" /\ posts[r].is[p] = "rejected"}

(* .. and what of the answer they do not say yet (posts.news).              *)
News(r, known) == {p \in Platforms : known[p] # "no" /\ posts[r].is[p] # "no" /\ known[p] # Outcome(r, p)}

Writes(c, t) == fresh' = [fresh EXCEPT ![c] = IF t.left = {} THEN NoFresh ELSE t]

Hear(c) ==
  /\ fresh[c].at = "asking"
  /\ LET r == fresh[c].req IN
     Writes(c, [fresh[c] EXCEPT !.at = "writing", !.left = News(r, fresh[c].known),
                                !.known = [p \in Platforms |-> IF p \in News(r, fresh[c].known)
                                                              THEN Outcome(r, p) ELSE "no"]])
  /\ UNCHANGED <<table, send, doubted, woop, asked, slips, troubles, asks>>

(* reconcile_sending: the rows of one interrupted send. Without media no     *)
(* post can exist.                                                          *)
AskMedia(m) ==
  /\ fresh["publisher"].at = "idle"
  /\ LET group == {p \in old : rows[p].state = "sending" /\ rows[p].media = m} IN
     /\ group # {}
     /\ Reads("publisher",
              [NoFresh EXCEPT !.at = IF m = 0 THEN "writing" ELSE "finding", !.media = m, !.left = group,
                              !.known = [p \in Platforms |-> IF p \in group THEN "failed" ELSE "no"]])
  /\ UNCHANGED <<table, send, woop, asked, slips, troubles, asks>>

(* find_by_media                                                            *)
Found(m) == {r \in Made : posts[r].media = m /\ posts[r] # NoPost}

(* The post is adopted, on every platform it names; what it does not name    *)
(* was never sent. When it is not among the newest 100 of its accounts, it   *)
(* is as if there were none.                                                *)
Find ==
  LET t == fresh["publisher"] IN
  /\ t.at = "finding"
  /\ \/ /\ Found(t.media) = {} /\ Writes("publisher", [t EXCEPT !.at = "writing"])
        /\ UNCHANGED <<slips, troubles>>
     \/ /\ Found(t.media) # {} /\ Trouble /\ Writes("publisher", [t EXCEPT !.at = "writing"])
        /\ slips' = slips \cup t.left
     \/ /\ \E r \in Found(t.media) :
             Writes("publisher", [t EXCEPT !.at = "writing", !.req = r, !.left = @ \cup On(r),
                                    !.known = [p \in Platforms |-> IF p \in On(r) THEN Outcome(r, p)
                                                                   ELSE t.known[p]]])
        /\ UNCHANGED <<slips, troubles>>
  /\ UNCHANGED <<table, send, doubted, woop, asked, asks>>

Unreachable(c) ==
  /\ fresh[c].at \in {"asking", "finding"} /\ Trouble /\ Reads(c, NoFresh)
  /\ UNCHANGED <<table, send, woop, asked, slips, asks>>

(* A write from what was read before the other check wrote the row: it says   *)
(* so of another request, or of a post that failed since.                   *)
Undoes(t, p) ==
  t.req = 0 \/ rows[p].req # t.req \/ (rows[p].state = "failed" /\ t.known[p] # "failed")

(* record_refresh, or the row of a send that never was.                     *)
Write(c, p) ==
  LET t == fresh[c] IN
  /\ t.at = "writing" /\ p \in t.left
  /\ rows' = [rows EXCEPT ![p].state = t.known[p],
                          ![p].req = IF t.req # 0 /\ p \in On(t.req) THEN t.req ELSE @]
  /\ old' = old \ {p}
  /\ Writes(c, [t EXCEPT !.left = @ \ {p}])
  /\ doubted' = [d \in Checkers |-> IF d # c /\ fresh[d].at # "idle" THEN doubted[d] \cup {p} ELSE doubted[d]]
  /\ slips' = slips \cup {q \in {p} : p \in doubted[c] /\ Undoes(t, p)}
  /\ UNCHANGED <<send, woop, asked, troubles, asks>>

Check(c) == Hear(c) \/ Unreachable(c) \/ \E p \in Platforms : Write(c, p)

(* _refresh_woopsocial, in the publisher's loop.                            *)
Background ==
  \/ \E r \in Made : AskDue(r)
  \/ \E m \in 0 .. medias : AskMedia(m)
  \/ Find \/ Check("publisher")

-----------------------------------------------------------------------------
(* WoopSocial delivers a post to a platform, which may reject it.           *)
Deliver(r, p) ==
  /\ posts[r].is[p] = "going"
  /\ \/ posts' = [posts EXCEPT ![r].is[p] = "published"] /\ UNCHANGED troubles
     \/ posts' = [posts EXCEPT ![r].is[p] = "rejected"] /\ Trouble
  /\ UNCHANGED <<table, send, checks, medias, late, asked, slips, asks>>

(* The app stops. Between two rows of one send, as recorded or as adopted,   *)
(* some rows then say what the post became, and some that it is being sent.  *)
TornOn ==
  LET w == send["watcher"] IN
  (IF w.at = "recording" /\ w.left # w.to THEN w.to ELSE {})
  \cup LET t == fresh["publisher"] IN
       IF t.at = "writing" /\ t.media # 0 /\ t.req # 0 /\ ~(On(t.req) \subseteq t.left)
       THEN On(t.req) ELSE {}

FanOutStops ==
  /\ send' = [a \in Senders |-> NoSend]
  /\ fresh' = [c \in Checkers |-> NoFresh] /\ doubted' = [c \in Checkers |-> {}]
  /\ slips' = slips \cup TornOn
  /\ UNCHANGED <<table, woop, asked>>
=============================================================================
