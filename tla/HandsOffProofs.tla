--------------------------- MODULE HandsOffProofs ---------------------------
(***************************************************************************)
(* HandsOff keeps its types. As long as no post was lost sight of, it never  *)
(* forgets a post of the watch that lives, and posts a clip at most once for *)
(* the watch and once for each ask, for all platforms, posts, retries,      *)
(* checks, restarts and failures.                                           *)
(***************************************************************************)
EXTENDS HandsOff, FiniteSetTheorems, TLAPS

LEMMA Bounds == /\ MaxStarts \in Nat /\ MaxRedo \in Nat
                /\ 0 \in 0 .. MaxStarts /\ 0 \in 0 .. MaxRedo
BY HandsOffAssumption

-----------------------------------------------------------------------------
(* Types. What is left to write in a thread's hand is a state of a row.     *)
Requests   == {0} \cup Made
Fates      == {"no", "going", "published", "rejected"}
SendPlaces == {"idle", "marking", "uploading", "tagging", "creating", "recording", "failing", "ended"}
RowType    == [state : States, req : Requests, media : Nat]
SendType   == [at : SendPlaces, to : SUBSET Platforms, left : SUBSET Platforms, media : Nat, req : Requests]
CheckType  == [at : {"idle", "asking", "finding", "writing"}, req : Requests, media : Nat,
               known : [Platforms -> States \cup {"no"}], left : SUBSET Platforms]
PostType   == [media : Nat, by : {"none"} \cup Senders, is : [Platforms -> Fates]]
ItemType   == [is : {"publishing", "done", "ask"}, tries : 0 .. MaxStarts, redo : 0 .. MaxRedo,
               retry : {"", "set", "past"}]

RowsOK  == rows \in [Platforms -> RowType] /\ old \subseteq Platforms
SendsOK == send \in [Senders -> SendType] /\ \A a \in Senders : send[a].media \in 0 .. medias
KnownOK(t) == t.at \in {"finding", "writing"} => \A p \in t.left : t.known[p] \in States
FreshOK == /\ fresh \in [Checkers -> CheckType] /\ \A c \in Checkers : KnownOK(fresh[c])
           /\ doubted \in [Checkers -> SUBSET Platforms]
PostsOK == posts \in [Made -> PostType] /\ medias \in Nat /\ asked \in [Platforms -> Nat]
SlipsOK == slips \subseteq Platforms /\ late \subseteq Made
ItemOK  == item \in ItemType
Types   == RowsOK /\ SendsOK /\ FreshOK /\ PostsOK /\ ItemOK /\ SlipsOK

W == send["watcher"]
P == send["person"]
F == fresh["publisher"]

LEMMA NoneTypes ==
  /\ NoRow \in RowType /\ NoSend \in SendType /\ NoFresh \in CheckType /\ NoPost \in PostType
  /\ NoSend.at = "idle" /\ NoSend.to = {} /\ NoSend.left = {} /\ NoSend.media = 0 /\ NoSend.req = 0
  /\ NoFresh.at = "idle" /\ NoFresh.req = 0 /\ NoFresh.media = 0 /\ NoFresh.left = {}
  /\ NoPost.media = 0 /\ NoPost.by = "none" /\ \A p \in Platforms : NoPost.is[p] = "no"
BY DEF NoRow, NoSend, NoFresh, NoPost, RowType, SendType, CheckType, PostType, Requests, States,
       SendPlaces, Fates

(* What the fields of the state hold.                                       *)
LEMMA Fields ==
  ASSUME Types
  PROVE  /\ \A p \in Platforms : /\ rows[p] \in RowType /\ rows[p].state \in States
                                 /\ rows[p].req \in Requests /\ rows[p].media \in Nat
         /\ old \subseteq Platforms
         /\ \A a \in Senders : /\ send[a] \in SendType /\ send[a].at \in SendPlaces
                               /\ send[a].to \in SUBSET Platforms /\ send[a].left \in SUBSET Platforms
                               /\ send[a].media \in 0 .. medias /\ send[a].media \in Nat
                               /\ send[a].req \in Requests
         /\ \A c \in Checkers : /\ fresh[c] \in CheckType /\ fresh[c].req \in Requests
                                /\ fresh[c].media \in Nat /\ fresh[c].left \in SUBSET Platforms
                                /\ fresh[c].known \in [Platforms -> States \cup {"no"}]
                                /\ fresh[c].at \in {"idle", "asking", "finding", "writing"}
                                /\ doubted[c] \in SUBSET Platforms
         /\ \A r \in Made : /\ posts[r] \in PostType /\ posts[r].media \in Nat
                            /\ posts[r].by \in {"none"} \cup Senders
                            /\ posts[r].is \in [Platforms -> Fates]
                            /\ \A p \in Platforms : posts[r].is[p] \in Fates
         /\ medias \in Nat /\ asked \in [Platforms -> Nat]
BY DEF Types, RowsOK, SendsOK, FreshOK, PostsOK, RowType, SendType, CheckType, PostType

(* A thread's record, field by field.                                       *)
Has(t, at, to, left, media, req) ==
  t.at = at /\ t.to = to /\ t.left = left /\ t.media = media /\ t.req = req

(* One row is written and its age with it.                                  *)
Wrote(p, state, req, media) ==
  /\ rows'[p].state = state /\ rows'[p].req = req /\ rows'[p].media = media
  /\ \A q \in Platforms \ {p} : rows'[q] = rows[q]
  /\ old' = old \ {p}

LEMMA Writing1 ==
  ASSUME Types, NEW p \in Platforms, NEW row \in RowType, rows' = [rows EXCEPT ![p] = row],
         old' = old \ {p}
  PROVE  RowsOK' /\ Wrote(p, row.state, row.req, row.media)
BY DEF Types, RowsOK, Wrote

LEMMA Sending1 ==
  ASSUME Types, NEW a \in Senders, NEW new \in SendType, Step(a, new), new.media \in 0 .. medias',
         medias' \in {medias, medias + 1}
  PROVE  SendsOK' /\ send'[a] = new /\ \A b \in Senders \ {a} : send'[b] = send[b]
<1>1. \A b \in Senders : send[b].media \in 0 .. medias => send[b].media \in 0 .. medias'
  BY DEF Types, PostsOK
<1> QED
  BY <1>1 DEF Types, SendsOK, Step

-----------------------------------------------------------------------------
(* What each action of a send does, field by field, and that it keeps types. *)
SameRows  == rows' = rows /\ old' = old
SameChecks == fresh' = fresh /\ doubted' = doubted
SameWoop  == posts' = posts /\ medias' = medias
Others(a) == \A b \in Senders \ {a} : send'[b] = send[b]

LEMMA SameTypes ==
  ASSUME Types
  PROVE  /\ SameRows => RowsOK'
         /\ send' = send /\ SameWoop => SendsOK'
         /\ SameChecks => FreshOK'
         /\ SameWoop /\ asked' = asked => PostsOK'
         /\ item' = item => ItemOK'
BY DEF Types, RowsOK, SendsOK, FreshOK, PostsOK, ItemOK, SameRows, SameWoop, SameChecks

LEMMA BeginOnceIs ==
  ASSUME Types, BeginOnce
  PROVE  /\ SendsOK' /\ RowsOK' /\ FreshOK' /\ PostsOK'
         /\ W.at = "idle" /\ P' = P /\ SameRows /\ SameWoop /\ SameChecks /\ asked' = asked
         /\ Has(W', "marking", Platforms \ AlreadySent, Platforms \ AlreadySent, 0, 0)
<1> DEFINE to == Platforms \ AlreadySent
           new == [NoSend EXCEPT !.at = "marking", !.to = to, !.left = to]
<1>1. new \in SendType /\ Has(new, "marking", to, to, 0, 0)
  BY DEF NoSend, SendType, SendPlaces, Requests, Has
<1>2. Step("watcher", new) /\ W.at = "idle" /\ SameRows /\ SameWoop /\ SameChecks /\ asked' = asked
  BY DEF BeginOnce, table, checks, woop, SameRows, SameWoop, SameChecks, W
<1> HIDE DEF new
<1>3. new.media \in 0 .. medias' /\ medias' \in {medias, medias + 1} /\ "watcher" \in Senders
  BY <1>1, <1>2, Fields DEF Has, SameWoop, Senders
<1>4. SendsOK' /\ send'["watcher"] = new /\ Others("watcher")
  BY <1>1, <1>2, <1>3, Sending1 DEF Others
<1> QED
  BY <1>1, <1>2, <1>4, SameTypes DEF W, P, Others, Senders

LEMMA BeginAskedIs ==
  ASSUME Types, BeginAsked
  PROVE  /\ SendsOK' /\ RowsOK' /\ FreshOK' /\ PostsOK'
         /\ P.at = "idle" /\ W' = W /\ SameRows /\ SameWoop /\ SameChecks
         /\ \E to \in SUBSET Platforms :
              /\ Has(P', "uploading", to, {}, 0, 0)
              /\ \A p \in Platforms : asked'[p] = IF p \in to THEN asked[p] + 1 ELSE asked[p]
<1>1. PICK to \in SUBSET Platforms :
        /\ Step("person", [NoSend EXCEPT !.at = "uploading", !.to = to])
        /\ asked' = [p \in Platforms |-> asked[p] + IF p \in to THEN 1 ELSE 0]
  BY DEF BeginAsked
<1> DEFINE new == [NoSend EXCEPT !.at = "uploading", !.to = to]
<1>2. new \in SendType /\ Has(new, "uploading", to, {}, 0, 0)
  BY DEF NoSend, SendType, SendPlaces, Requests, Has
<1>3. Step("person", new) /\ P.at = "idle" /\ SameRows /\ SameWoop /\ SameChecks
  BY <1>1 DEF BeginAsked, table, checks, woop, SameRows, SameWoop, SameChecks, P
<1> HIDE DEF new
<1>4. new.media \in 0 .. medias' /\ medias' \in {medias, medias + 1} /\ "person" \in Senders
  BY <1>2, <1>3, Fields DEF Has, SameWoop, Senders
<1>5. SendsOK' /\ send'["person"] = new /\ Others("person")
  BY <1>2, <1>3, <1>4, Sending1 DEF Others
<1>6. \A p \in Platforms : asked'[p] = IF p \in to THEN asked[p] + 1 ELSE asked[p]
  BY <1>1, Fields
<1>7. asked' \in [Platforms -> Nat] /\ PostsOK'
  <2>1. \A p \in Platforms : asked[p] \in Nat
    BY Fields
  <2>2. asked' \in [Platforms -> Nat]
    BY <1>1, <2>1
  <2> QED
    BY <1>3, <2>2 DEF Types, PostsOK, SameWoop
<1> QED
  BY <1>2, <1>3, <1>5, <1>6, <1>7, SameTypes DEF W, P, Others, Senders

LEMMA UploadIs ==
  ASSUME Types, NEW a \in Senders, Upload(a)
  PROVE  /\ SendsOK' /\ RowsOK' /\ FreshOK' /\ PostsOK'
         /\ send[a].at = "uploading" /\ Others(a) /\ SameRows /\ posts' = posts
         /\ SameChecks /\ asked' = asked
         /\ \/ /\ a = "watcher" /\ medias' = medias + 1
               /\ Has(send'[a], "tagging", send[a].to, send[a].to, medias + 1, send[a].req)
            \/ /\ a = "person" /\ medias' = medias
               /\ Has(send'[a], "creating", send[a].to, send[a].left, send[a].media, send[a].req)
<1> DEFINE t == send[a]
           media == medias + 1
<1>1. t \in SendType /\ medias \in Nat /\ media \in Nat /\ t.media \in 0 .. medias
  BY Fields
<1>2. t.at = "uploading" /\ SameRows /\ posts' = posts /\ SameChecks /\ asked' = asked
  BY DEF Upload, table, checks, SameRows, SameChecks
<1>3. CASE a = "watcher" /\ medias' = medias + 1
  <2> DEFINE new == [t EXCEPT !.at = "tagging", !.left = t.to, !.media = media]
  <2>1. Step(a, new)
    BY <1>3 DEF Upload
  <2> HIDE DEF media
  <2>2. new \in SendType /\ Has(new, "tagging", t.to, t.to, media, t.req)
    BY <1>1 DEF SendType, SendPlaces, Has
  <2> HIDE DEF new
  <2> USE DEF media
  <2>3. new.media \in 0 .. medias' /\ medias' \in {medias, medias + 1}
    BY <1>1, <1>3, <2>2 DEF Has
  <2>4. SendsOK' /\ send'[a] = new /\ Others(a)
    BY <2>1, <2>2, <2>3, Sending1 DEF Others
  <2>5. PostsOK'
    BY <1>1, <1>2, <1>3 DEF Types, PostsOK
  <2> QED
    BY <1>2, <1>3, <2>2, <2>4, <2>5, SameTypes
<1>4. CASE a = "person" /\ medias' = medias
  <2> DEFINE new == [t EXCEPT !.at = "creating"]
  <2>1. Step(a, new)
    BY <1>4 DEF Upload
  <2>2. new \in SendType /\ Has(new, "creating", t.to, t.left, t.media, t.req)
    BY <1>1 DEF SendType, SendPlaces, Has
  <2> HIDE DEF new
  <2>3. new.media \in 0 .. medias' /\ medias' \in {medias, medias + 1}
    BY <1>1, <1>4, <2>2 DEF Has
  <2>4. SendsOK' /\ send'[a] = new /\ Others(a)
    BY <2>1, <2>2, <2>3, Sending1 DEF Others
  <2> QED
    BY <1>2, <1>4, <2>2, <2>4, SameTypes DEF SameWoop
<1> QED
  BY <1>3, <1>4 DEF Upload

(* A send that leaves the thread, and one that gives a row up.              *)
LEMMA OverType ==
  ASSUME NEW a \in Senders
  PROVE  Over(a) \in SendType /\ Has(Over(a), IF a = "watcher" THEN "ended" ELSE "idle", {}, {}, 0, 0)
BY DEF Over, NoSend, SendType, SendPlaces, Requests, Has, Senders

Placed(a, r) ==
  /\ r \in Made /\ posts[r] = NoPost
  /\ posts'[r].media = send[a].media /\ posts'[r].by = a
  /\ \A p \in Platforms : posts'[r].is[p] = IF p \in send[a].to THEN "going" ELSE "no"
  /\ \A s \in Made \ {r} : posts'[s] = posts[s]

LEMMA MakesIs ==
  ASSUME Types, NEW a \in Senders, NEW r \in Made, Makes(a, r), medias' = medias, asked' = asked
  PROVE  Placed(a, r) /\ PostsOK'
<1> DEFINE is == [p \in Platforms |-> IF p \in send[a].to THEN "going" ELSE "no"]
           post == [media |-> send[a].media, by |-> a, is |-> is]
<1>1. post \in PostType
  BY Fields DEF PostType, Fates
<1>2. posts' = [posts EXCEPT ![r] = post] /\ posts[r] = NoPost
  BY DEF Makes
<1>3. post.media = send[a].media /\ post.by = a /\ post.is = is
  OBVIOUS
<1> HIDE DEF post
<1>4. posts' \in [Made -> PostType] /\ posts'[r] = post /\ \A s \in Made \ {r} : posts'[s] = posts[s]
  BY <1>1, <1>2 DEF Types, PostsOK
<1>5. \A p \in Platforms : posts'[r].is[p] = IF p \in send[a].to THEN "going" ELSE "no"
  BY <1>3, <1>4
<1> HIDE DEF is
<1> QED
  BY <1>2, <1>3, <1>4, <1>5 DEF Placed, Types, PostsOK

LEMMA CreateIs ==
  ASSUME Types, NEW a \in Senders, Create(a)
  PROVE  /\ SendsOK' /\ RowsOK' /\ FreshOK' /\ PostsOK'
         /\ send[a].at = "creating" /\ Others(a) /\ SameRows /\ medias' = medias
         /\ SameChecks /\ asked' = asked
         /\ \E r \in Made : /\ Placed(a, r)
                           /\ Has(send'[a], "recording", send[a].to, send[a].to, send[a].media, r)
<1>1. PICK r \in Made :
        /\ Makes(a, r)
        /\ Step(a, [send[a] EXCEPT !.at = "recording", !.left = send[a].to, !.req = r])
  BY DEF Create
<1> DEFINE t == send[a]
           new == [t EXCEPT !.at = "recording", !.left = t.to, !.req = r]
<1>2. t \in SendType /\ t.media \in 0 .. medias /\ r \in Requests
  BY Fields DEF Requests
<1>3. new \in SendType /\ Has(new, "recording", t.to, t.to, t.media, r)
  BY <1>2 DEF SendType, SendPlaces, Has
<1>4. /\ Step(a, new) /\ t.at = "creating" /\ SameRows /\ medias' = medias
      /\ SameChecks /\ asked' = asked
  BY <1>1 DEF Create, table, checks, SameRows, SameChecks
<1> HIDE DEF new
<1>5. new.media \in 0 .. medias' /\ medias' \in {medias, medias + 1}
  BY <1>2, <1>3, <1>4 DEF Has
<1>6. SendsOK' /\ send'[a] = new /\ Others(a)
  BY <1>3, <1>4, <1>5, Sending1 DEF Others
<1>7. Placed(a, r) /\ PostsOK'
  BY <1>1, <1>4, MakesIs
<1> QED
  BY <1>3, <1>4, <1>6, <1>7, SameTypes

LEMMA UnansweredIs ==
  ASSUME Types, NEW a \in Senders, CreateUnanswered(a)
  PROVE  /\ SendsOK' /\ RowsOK' /\ FreshOK' /\ PostsOK'
         /\ send[a].at = "creating" /\ Others(a) /\ SameRows /\ medias' = medias
         /\ SameChecks /\ asked' = asked
         /\ Has(send'[a], IF a = "watcher" THEN "ended" ELSE "idle", {}, {}, 0, 0)
         /\ posts' = posts \/ \E r \in Made : Placed(a, r)
<1>1. /\ Step(a, Over(a)) /\ send[a].at = "creating" /\ SameRows /\ medias' = medias
      /\ SameChecks /\ asked' = asked
      /\ posts' = posts \/ \E r \in Made : Makes(a, r)
  BY DEF CreateUnanswered, NoAnswer, table, checks, SameRows, SameChecks
<1>2. Over(a).media \in 0 .. medias' /\ medias' \in {medias, medias + 1}
  BY <1>1, OverType, Fields DEF Has
<1>3. SendsOK' /\ send'[a] = Over(a) /\ Others(a)
  BY <1>1, <1>2, OverType, Sending1 DEF Others
<1>4. CASE posts' = posts
  BY <1>1, <1>3, <1>4, OverType, SameTypes DEF SameWoop
<1>5. ASSUME NEW r \in Made, Makes(a, r) PROVE Placed(a, r) /\ PostsOK'
  BY <1>1, <1>5, MakesIs
<1> QED
  BY <1>1, <1>3, <1>4, <1>5, OverType, SameTypes

LEMMA RefuseIs ==
  ASSUME Types, NEW a \in Senders, Refuse(a), medias' = medias
  PROVE  /\ SendsOK' /\ Others(a)
         /\ IF a = "watcher"
            THEN Has(send'[a], "failing", send[a].to, send[a].to, send[a].media, send[a].req)
            ELSE Has(send'[a], "idle", {}, {}, 0, 0)
<1> DEFINE t == send[a]
           failing == [t EXCEPT !.at = "failing", !.left = t.to]
           new == IF a = "watcher" THEN failing ELSE NoSend
<1>1. t \in SendType /\ t.media \in 0 .. medias /\ medias \in Nat
  BY Fields
<1>2. failing \in SendType /\ Has(failing, "failing", t.to, t.to, t.media, t.req)
  BY <1>1 DEF SendType, SendPlaces, Has
<1>3. Step(a, new)
  BY DEF Refuse
<1> HIDE DEF failing
<1>4. new \in SendType /\ new.media \in 0 .. medias
  BY <1>1, <1>2, NoneTypes DEF Has
<1>5. /\ a = "watcher" => Has(new, "failing", t.to, t.to, t.media, t.req)
      /\ a # "watcher" => Has(new, "idle", {}, {}, 0, 0)
  BY <1>2, NoneTypes DEF Has
<1> HIDE DEF new
<1>6. new.media \in 0 .. medias' /\ medias' \in {medias, medias + 1}
  BY <1>1, <1>4
<1>7. SendsOK' /\ send'[a] = new /\ Others(a)
  BY <1>3, <1>4, <1>6, Sending1 DEF Others
<1> QED
  BY <1>5, <1>7

LEMMA RefusedIs ==
  ASSUME Types, NEW a \in Senders, Refused(a)
  PROVE  /\ SendsOK' /\ RowsOK' /\ FreshOK' /\ PostsOK'
         /\ send[a].at \in {"uploading", "creating"} /\ Others(a) /\ SameRows /\ SameWoop
         /\ SameChecks /\ asked' = asked
         /\ IF a = "watcher"
            THEN Has(send'[a], "failing", send[a].to, send[a].to, send[a].media, send[a].req)
            ELSE Has(send'[a], "idle", {}, {}, 0, 0)
<1>1. /\ send[a].at \in {"uploading", "creating"} /\ SameRows /\ SameWoop /\ SameChecks
      /\ asked' = asked /\ Refuse(a)
  BY DEF Refused, table, checks, woop, SameRows, SameWoop, SameChecks
<1> QED
  BY <1>1, RefuseIs, SameTypes DEF SameWoop

LEMMA UnreadableIs ==
  ASSUME Types, NEW a \in Senders, Unreadable(a)
  PROVE  /\ SendsOK' /\ RowsOK' /\ FreshOK' /\ PostsOK'
         /\ send[a].at = "creating" /\ Others(a) /\ SameRows /\ medias' = medias
         /\ SameChecks /\ asked' = asked
         /\ a = "watcher" => slips' = slips \cup send[a].to
         /\ a # "watcher" => Has(send'[a], "idle", {}, {}, 0, 0)
         /\ \E r \in Made : Placed(a, r)
<1>1. /\ send[a].at = "creating" /\ SameRows /\ SameChecks /\ asked' = asked /\ medias' = medias
      /\ Refuse(a)
      /\ a = "watcher" => slips' = slips \cup send[a].to
  BY DEF Unreadable, table, checks, SameRows, SameChecks
<1>2. PICK r \in Made : Makes(a, r)
  BY DEF Unreadable
<1>3. Placed(a, r) /\ PostsOK'
  BY <1>1, <1>2, MakesIs
<1> QED
  BY <1>1, <1>3, RefuseIs, SameTypes

(* The three steps that write one row of the send and go on.                *)
Goes(t, u, p, at, next, end) ==
  \/ t.left # {p} /\ Has(u, at, t.to, t.left \ {p}, t.media, t.req)
  \/ t.left = {p} /\ next = "over" /\ Has(u, end, {}, {}, 0, 0)
  \/ t.left = {p} /\ next # "over" /\ Has(u, next, t.to, {}, t.media, t.req)

LEMMA MarkIs ==
  ASSUME Types, NEW p \in Platforms, Mark(p)
  PROVE  /\ SendsOK' /\ RowsOK' /\ FreshOK' /\ PostsOK'
         /\ W.at = "marking" /\ p \in W.left /\ P' = P /\ SameWoop /\ SameChecks /\ asked' = asked
         /\ Wrote(p, "sending", 0, 0) /\ Goes(W, W', p, "marking", "uploading", "ended")
<1> DEFINE at == IF W.left = {p} THEN "uploading" ELSE "marking"
           new == [W EXCEPT !.left = @ \ {p}, !.at = at]
           row == [NoRow EXCEPT !.state = "sending"]
<1>1. /\ Step("watcher", [W EXCEPT !.left = @ \ {p}, !.at = IF W.left = {p} THEN "uploading" ELSE @])
      /\ rows' = [rows EXCEPT ![p] = row] /\ old' = old \ {p}
      /\ W.at = "marking" /\ p \in W.left /\ SameWoop /\ SameChecks /\ asked' = asked
  BY DEF Mark, W, checks, woop, SameWoop, SameChecks
<1>2. W \in SendType /\ W.media \in 0 .. medias /\ at \in SendPlaces /\ "watcher" \in Senders
  BY Fields DEF W, Senders, SendPlaces
<1>3. Step("watcher", new)
  BY <1>1
<1>4. row \in RowType /\ row.state = "sending" /\ row.req = 0 /\ row.media = 0
  BY DEF NoRow, RowType, States, Requests
<1>5. (at = "uploading" /\ W.left = {p}) \/ (at = "marking" /\ W.left # {p})
  OBVIOUS
<1> HIDE DEF at
<1>6. new \in SendType /\ Has(new, at, W.to, W.left \ {p}, W.media, W.req)
  BY <1>2 DEF SendType, Has
<1> HIDE DEF new, row
<1>7. RowsOK' /\ Wrote(p, "sending", 0, 0)
  BY <1>1, <1>4, Writing1
<1>8. new.media \in 0 .. medias' /\ medias' \in {medias, medias + 1}
  BY <1>1, <1>2, <1>6 DEF Has, SameWoop
<1>9. SendsOK' /\ send'["watcher"] = new /\ Others("watcher")
  BY <1>2, <1>3, <1>6, <1>8, Sending1 DEF Others
<1>10. Goes(W, new, p, "marking", "uploading", "ended")
  BY <1>5, <1>6 DEF Goes, Has
<1> QED
  BY <1>1, <1>7, <1>9, <1>10, SameTypes DEF W, P, Others, Senders

LEMMA TagIs ==
  ASSUME Types, NEW p \in Platforms, Tag(p)
  PROVE  /\ SendsOK' /\ RowsOK' /\ FreshOK' /\ PostsOK'
         /\ W.at = "tagging" /\ p \in W.left /\ P' = P /\ SameWoop /\ SameChecks /\ asked' = asked
         /\ Wrote(p, rows[p].state, rows[p].req, W.media)
         /\ Goes(W, W', p, "tagging", "creating", "ended")
<1> DEFINE at == IF W.left = {p} THEN "creating" ELSE "tagging"
           new == [W EXCEPT !.left = @ \ {p}, !.at = at]
           row == [rows[p] EXCEPT !.media = W.media]
<1>1. /\ Step("watcher", [W EXCEPT !.left = @ \ {p}, !.at = IF W.left = {p} THEN "creating" ELSE @])
      /\ rows' = [rows EXCEPT ![p].media = W.media] /\ old' = old \ {p}
      /\ W.at = "tagging" /\ p \in W.left /\ SameWoop /\ SameChecks /\ asked' = asked
  BY DEF Tag, W, checks, woop, SameWoop, SameChecks
<1>2. /\ W \in SendType /\ W.media \in 0 .. medias /\ at \in SendPlaces /\ "watcher" \in Senders
      /\ W.media \in Nat /\ rows[p] \in RowType
  BY Fields DEF W, Senders, SendPlaces
<1>3. Step("watcher", new) /\ rows' = [rows EXCEPT ![p] = row]
  BY <1>1
<1>4. row \in RowType /\ row.state = rows[p].state /\ row.req = rows[p].req /\ row.media = W.media
  BY <1>2 DEF RowType
<1>5. (at = "creating" /\ W.left = {p}) \/ (at = "tagging" /\ W.left # {p})
  OBVIOUS
<1> HIDE DEF at
<1>6. new \in SendType /\ Has(new, at, W.to, W.left \ {p}, W.media, W.req)
  BY <1>2 DEF SendType, Has
<1> HIDE DEF new, row
<1>7. RowsOK' /\ Wrote(p, rows[p].state, rows[p].req, W.media)
  BY <1>1, <1>3, <1>4, Writing1
<1>8. new.media \in 0 .. medias' /\ medias' \in {medias, medias + 1}
  BY <1>1, <1>2, <1>6 DEF Has, SameWoop
<1>9. SendsOK' /\ send'["watcher"] = new /\ Others("watcher")
  BY <1>2, <1>3, <1>6, <1>8, Sending1 DEF Others
<1>10. Goes(W, new, p, "tagging", "creating", "ended")
  BY <1>5, <1>6 DEF Goes, Has
<1> QED
  BY <1>1, <1>7, <1>9, <1>10, SameTypes DEF W, P, Others, Senders

LEMMA FailIs ==
  ASSUME Types, NEW p \in Platforms, Fail(p)
  PROVE  /\ SendsOK' /\ RowsOK' /\ FreshOK' /\ PostsOK'
         /\ W.at = "failing" /\ p \in W.left /\ P' = P /\ SameWoop /\ SameChecks /\ asked' = asked
         /\ Wrote(p, "failed", rows[p].req, rows[p].media)
         /\ Goes(W, W', p, "failing", "over", "ended")
<1> DEFINE go == [W EXCEPT !.left = @ \ {p}]
           new == IF W.left = {p} THEN Over("watcher") ELSE go
           row == [rows[p] EXCEPT !.state = "failed"]
<1>1. /\ Step("watcher", new)
      /\ rows' = [rows EXCEPT ![p].state = "failed"] /\ old' = old \ {p}
      /\ W.at = "failing" /\ p \in W.left /\ SameWoop /\ SameChecks /\ asked' = asked
  BY DEF Fail, W, checks, woop, SameWoop, SameChecks
<1>2. /\ W \in SendType /\ W.media \in 0 .. medias /\ medias \in Nat /\ "watcher" \in Senders
      /\ rows[p] \in RowType
  BY Fields DEF W, Senders
<1>3. rows' = [rows EXCEPT ![p] = row]
  BY <1>1
<1>4. row \in RowType /\ row.state = "failed" /\ row.req = rows[p].req /\ row.media = rows[p].media
  BY <1>2 DEF RowType, States
<1>5. go \in SendType /\ Has(go, W.at, W.to, W.left \ {p}, W.media, W.req)
  BY <1>2 DEF SendType, Has
<1> HIDE DEF go, row
<1>6. new \in SendType /\ new.media \in 0 .. medias
  BY <1>2, <1>5, OverType DEF Has
<1>7. Goes(W, new, p, "failing", "over", "ended")
  BY <1>1, <1>2, <1>5, OverType DEF Goes, Has
<1> HIDE DEF new
<1>8. RowsOK' /\ Wrote(p, "failed", rows[p].req, rows[p].media)
  BY <1>1, <1>3, <1>4, Writing1
<1>9. new.media \in 0 .. medias' /\ medias' \in {medias, medias + 1}
  BY <1>1, <1>2, <1>6 DEF SameWoop
<1>10. SendsOK' /\ send'["watcher"] = new /\ Others("watcher")
  BY <1>1, <1>2, <1>6, <1>9, Sending1 DEF Others
<1> QED
  BY <1>1, <1>7, <1>8, <1>10, SameTypes DEF W, P, Others, Senders

LEMMA OutcomeIs ==
  ASSUME NEW r, NEW p
  PROVE  /\ Outcome(r, p) \in {"published", "failed", "processing"}
         /\ Outcome(r, p) = "failed" <=> posts[r].is[p] = "rejected"
BY DEF Outcome

LEMMA RecordIs ==
  ASSUME Types, NEW a \in Senders, NEW p \in Platforms, Record(a, p)
  PROVE  /\ SendsOK' /\ RowsOK' /\ FreshOK' /\ PostsOK'
         /\ send[a].at = "recording" /\ p \in send[a].left /\ Others(a)
         /\ SameWoop /\ SameChecks /\ asked' = asked
         /\ \E state \in {"processing", Outcome(send[a].req, p)} :
              Wrote(p, state, send[a].req, rows[p].media)
         /\ Goes(send[a], send'[a], p, "recording", "over", IF a = "watcher" THEN "ended" ELSE "idle")
<1>0. PICK state \in {"processing", Outcome(send[a].req, p)} :
        rows' = [rows EXCEPT ![p].state = state, ![p].req = send[a].req]
  BY DEF Record
<1> DEFINE t == send[a]
           go == [t EXCEPT !.left = @ \ {p}]
           new == IF t.left = {p} THEN Over(a) ELSE go
           row == [rows[p] EXCEPT !.state = state, !.req = t.req]
<1>1. /\ Step(a, new)
      /\ rows' = [rows EXCEPT ![p].state = state, ![p].req = t.req] /\ old' = old \ {p}
      /\ t.at = "recording" /\ p \in t.left /\ SameWoop /\ SameChecks /\ asked' = asked
  BY <1>0 DEF Record, checks, woop, SameWoop, SameChecks
<1>2. /\ t \in SendType /\ t.media \in 0 .. medias /\ medias \in Nat /\ t.req \in Requests
      /\ rows[p] \in RowType /\ state \in States
  BY Fields, OutcomeIs DEF States
<1>3. rows' = [rows EXCEPT ![p] = row]
  BY <1>1, <1>2 DEF Types, RowsOK
<1>4. /\ row \in RowType /\ row.state = state /\ row.req = t.req
      /\ row.media = rows[p].media
  BY <1>2 DEF RowType
<1>5. go \in SendType /\ Has(go, t.at, t.to, t.left \ {p}, t.media, t.req)
  BY <1>2 DEF SendType, Has
<1> HIDE DEF go, row
<1>6. new \in SendType /\ new.media \in 0 .. medias
  BY <1>2, <1>5, OverType DEF Has
<1>7. Goes(t, new, p, "recording", "over", IF a = "watcher" THEN "ended" ELSE "idle")
  BY <1>1, <1>2, <1>5, OverType DEF Goes, Has
<1> HIDE DEF new
<1>8. RowsOK' /\ Wrote(p, state, t.req, rows[p].media)
  BY <1>1, <1>3, <1>4, Writing1
<1>9. new.media \in 0 .. medias' /\ medias' \in {medias, medias + 1}
  BY <1>1, <1>2, <1>6 DEF SameWoop
<1>10. SendsOK' /\ send'[a] = new /\ Others(a)
  BY <1>1, <1>2, <1>6, <1>9, Sending1 DEF Others
<1> QED
  BY <1>1, <1>7, <1>8, <1>10, SameTypes

-----------------------------------------------------------------------------
(* The same for the checks, WoopSocial, time and a stop.                    *)
Holds(c, at, req, media, left) ==
  fresh'[c].at = at /\ fresh'[c].req = req /\ fresh'[c].media = media /\ fresh'[c].left = left
Apart1(c)   == \A d \in Checkers \ {c} : fresh'[d] = fresh[d]
StillPosted == SameWoop /\ asked' = asked
StillSends  == send' = send /\ StillPosted
NewDoubts(c) == doubted'[c] = {} /\ \A d \in Checkers \ {c} : doubted'[d] = doubted[d]

LEMMA Checking1 ==
  ASSUME Types, NEW c \in Checkers, NEW new \in CheckType, KnownOK(new),
         fresh' = [fresh EXCEPT ![c] = new], doubted' \in [Checkers -> SUBSET Platforms]
  PROVE  FreshOK' /\ fresh'[c] = new /\ Apart1(c)
BY DEF Types, FreshOK, KnownOK, Apart1

LEMMA Reading1 ==
  ASSUME Types, NEW c \in Checkers, NEW new \in CheckType, KnownOK(new), Reads(c, new)
  PROVE  FreshOK' /\ fresh'[c] = new /\ Apart1(c) /\ NewDoubts(c)
<1>1. doubted' \in [Checkers -> SUBSET Platforms] /\ NewDoubts(c)
  BY DEF Types, FreshOK, Reads, NewDoubts
<1> QED
  BY <1>1, Checking1 DEF Reads

(* What a check has left to write, or nothing.                              *)
LEMMA Writing2 ==
  ASSUME Types, NEW c \in Checkers, NEW t \in CheckType, KnownOK(t), Writes(c, t),
         doubted' \in [Checkers -> SUBSET Platforms]
  PROVE  /\ FreshOK' /\ Apart1(c)
         /\ \/ t.left = {} /\ Holds(c, "idle", 0, 0, {})
            \/ t.left # {} /\ fresh'[c] = t
<1>1. CASE t.left = {}
  <2>1. NoFresh \in CheckType /\ KnownOK(NoFresh)
    BY NoneTypes DEF KnownOK
  <2>2. fresh' = [fresh EXCEPT ![c] = NoFresh]
    BY <1>1 DEF Writes
  <2> QED
    BY <1>1, <2>1, <2>2, Checking1, NoneTypes DEF Holds
<1>2. CASE t.left # {}
  <2>1. fresh' = [fresh EXCEPT ![c] = t]
    BY <1>2 DEF Writes
  <2> QED
    BY <1>2, <2>1, Checking1
<1> QED
  BY <1>1, <1>2

LEMMA AgeIs ==
  ASSUME Types, NEW p \in Platforms, Age(p)
  PROVE  /\ SendsOK' /\ RowsOK' /\ FreshOK' /\ PostsOK'
         /\ rows[p].state = "sending" /\ ~Busy(p)
         /\ rows' = rows /\ old' = old \cup {p} /\ SameChecks /\ StillSends
<1>1. RowsOK'
  BY DEF Age, Types, RowsOK
<1> QED
  BY <1>1, SameTypes DEF Age, checks, woop, SameWoop, SameChecks, StillSends, StillPosted

LEMMA LapseIs ==
  ASSUME Types, NEW r \in Made, Lapse(r)
  PROVE  SameRows /\ StillSends /\ SameChecks
BY DEF Lapse, table, checks, SameRows, SameChecks, SameWoop, StillSends, StillPosted

LEMMA AskIs ==
  ASSUME Types, NEW r \in Made, NEW c \in Checkers, ReadRows(c, r)
  PROVE  /\ SendsOK' /\ RowsOK' /\ FreshOK' /\ PostsOK'
         /\ fresh[c].at = "idle" /\ SameRows /\ StillSends
         /\ Holds(c, "asking", r, 0, {}) /\ Apart1(c) /\ NewDoubts(c)
         /\ \A p \in Platforms : fresh'[c].known[p] = IF rows[p].req = r THEN rows[p].state ELSE "no"
<1> DEFINE known == [p \in Platforms |-> IF rows[p].req = r THEN rows[p].state ELSE "no"]
           new == [NoFresh EXCEPT !.at = "asking", !.req = r, !.known = known]
<1>1. fresh[c].at = "idle" /\ Reads(c, new) /\ SameRows /\ StillSends
  BY DEF ReadRows, table, woop, SameRows, SameWoop, StillSends, StillPosted
<1>2. /\ known \in [Platforms -> States \cup {"no"}]
      /\ \A p \in Platforms : known[p] = IF rows[p].req = r THEN rows[p].state ELSE "no"
  BY Fields
<1> HIDE DEF known
<1>3. /\ new \in CheckType /\ new.at = "asking" /\ new.req = r /\ new.media = 0 /\ new.left = {}
      /\ new.known = known
  BY <1>2 DEF NoFresh, CheckType, Requests
<1> HIDE DEF new
<1>4. KnownOK(new)
  BY <1>3 DEF KnownOK
<1> QED
  BY <1>1, <1>2, <1>3, <1>4, Reading1, SameTypes DEF Holds, StillSends, StillPosted

(* The rows a request has in hand are asked about by a check of either kind. *)
LEMMA AsksIs ==
  ASSUME NEW r \in Made, AskDue(r) \/ AskPressed(r)
  PROVE  \E c \in Checkers : ReadRows(c, r) /\ \E p \in Platforms : rows[p].req = r
BY DEF AskDue, AskPressed, InFlight, Checkers

LEMMA HearIs ==
  ASSUME Types, NEW c \in Checkers, Hear(c)
  PROVE  /\ SendsOK' /\ RowsOK' /\ FreshOK' /\ PostsOK'
         /\ fresh[c].at = "asking" /\ SameRows /\ StillSends /\ Apart1(c) /\ doubted' = doubted
         /\ \/ Holds(c, "idle", 0, 0, {})
            \/ /\ Holds(c, "writing", fresh[c].req, fresh[c].media, News(fresh[c].req, fresh[c].known))
               /\ \A p \in News(fresh[c].req, fresh[c].known) : fresh'[c].known[p] = Outcome(fresh[c].req, p)
<1> DEFINE r == fresh[c].req
           left == News(r, fresh[c].known)
           known == [p \in Platforms |-> IF p \in left THEN Outcome(r, p) ELSE "no"]
           new == [fresh[c] EXCEPT !.at = "writing", !.left = left, !.known = known]
<1>1. Writes(c, new) /\ fresh[c].at = "asking" /\ SameRows /\ StillSends /\ doubted' = doubted
  BY DEF Hear, table, woop, SameRows, SameWoop, StillSends, StillPosted
<1>2. left \subseteq Platforms
  BY DEF News
<1>3. /\ known \in [Platforms -> States \cup {"no"}]
      /\ \A p \in left : known[p] = Outcome(r, p) /\ known[p] \in States
  <2>1. \A p \in Platforms : Outcome(r, p) \in States
    BY OutcomeIs DEF States
  <2> QED
    BY <1>2, <2>1
<1> HIDE DEF known, left
<1>4. /\ new \in CheckType /\ new.at = "writing" /\ new.req = r /\ new.media = fresh[c].media
      /\ new.left = left /\ new.known = known
  BY <1>2, <1>3, Fields DEF CheckType
<1> HIDE DEF new
<1>5. KnownOK(new) /\ doubted' \in [Checkers -> SUBSET Platforms]
  BY <1>1, <1>3, <1>4 DEF KnownOK, Types, FreshOK
<1>6. /\ FreshOK' /\ Apart1(c)
      /\ Holds(c, "idle", 0, 0, {}) \/ fresh'[c] = new
  BY <1>1, <1>4, <1>5, Writing2
<1> QED
  BY <1>1, <1>3, <1>4, <1>6, SameTypes DEF Holds, StillSends, StillPosted, left

LEMMA AskMediaIs ==
  ASSUME Types, NEW m \in 0 .. medias, AskMedia(m)
  PROVE  /\ SendsOK' /\ RowsOK' /\ FreshOK' /\ PostsOK'
         /\ F.at = "idle" /\ SameRows /\ StillSends /\ Apart1("publisher") /\ NewDoubts("publisher")
         /\ Holds("publisher", IF m = 0 THEN "writing" ELSE "finding", 0, m,
                  {p \in old : rows[p].state = "sending" /\ rows[p].media = m})
         /\ \E p \in old : rows[p].state = "sending" /\ rows[p].media = m
         /\ \A p \in Platforms : F'.known[p] =
              IF p \in old /\ rows[p].state = "sending" /\ rows[p].media = m THEN "failed" ELSE "no"
<1> DEFINE group == {p \in old : rows[p].state = "sending" /\ rows[p].media = m}
           known == [p \in Platforms |-> IF p \in group THEN "failed" ELSE "no"]
           at == IF m = 0 THEN "writing" ELSE "finding"
           new == [NoFresh EXCEPT !.at = at, !.media = m, !.left = group, !.known = known]
<1>1. F.at = "idle" /\ Reads("publisher", new) /\ SameRows /\ StillSends /\ group # {}
  BY DEF AskMedia, table, woop, SameRows, SameWoop, StillSends, StillPosted, F
<1>2. /\ known \in [Platforms -> {"failed", "no"}]
      /\ \A p \in Platforms : known[p] = IF p \in group THEN "failed" ELSE "no"
  OBVIOUS
<1>3. group \subseteq Platforms /\ at \in {"finding", "writing"} /\ m \in Nat
  BY Fields
<1> HIDE DEF known, group, at
<1>4. /\ new \in CheckType /\ new.at = at /\ new.req = 0 /\ new.media = m /\ new.left = group
      /\ new.known = known
  BY <1>2, <1>3 DEF NoFresh, CheckType, Requests, States
<1> HIDE DEF new
<1>5. KnownOK(new) /\ "publisher" \in Checkers
  BY <1>2, <1>3, <1>4 DEF KnownOK, States, Checkers
<1>6. FreshOK' /\ F' = new /\ Apart1("publisher") /\ NewDoubts("publisher")
  BY <1>1, <1>4, <1>5, Reading1 DEF F
<1> QED
  BY <1>1, <1>2, <1>4, <1>6, SameTypes DEF Holds, StillSends, StillPosted, group, at, F

LEMMA FindIs ==
  ASSUME Types, Find
  PROVE  /\ SendsOK' /\ RowsOK' /\ FreshOK' /\ PostsOK'
         /\ F.at = "finding" /\ SameRows /\ StillSends /\ Apart1("publisher") /\ doubted' = doubted
         /\ \/ Holds("publisher", "idle", 0, 0, {}) /\ F.left = {}
            \/ /\ Found(F.media) = {} /\ F'.known = F.known
               /\ Holds("publisher", "writing", F.req, F.media, F.left)
            \/ slips' = slips \cup F.left
            \/ \E r \in Found(F.media) :
                 /\ Holds("publisher", "writing", r, F.media, F.left \cup On(r))
                 /\ \A p \in Platforms : F'.known[p] = IF p \in On(r) THEN Outcome(r, p) ELSE F.known[p]
<1>1. /\ F.at = "finding" /\ SameRows /\ StillSends /\ doubted' = doubted
      /\ F \in CheckType /\ KnownOK(F) /\ F.left \subseteq Platforms /\ "publisher" \in Checkers
      /\ doubted' \in [Checkers -> SUBSET Platforms]
  BY Fields DEF Find, table, woop, SameRows, SameWoop, StillSends, StillPosted, Types, FreshOK, F, Checkers
<1>2. CASE /\ Writes("publisher", [F EXCEPT !.at = "writing"])
           /\ Found(F.media) = {} \/ slips' = slips \cup F.left
  <2> DEFINE new == [F EXCEPT !.at = "writing"]
  <2>1. /\ new \in CheckType /\ new.at = "writing" /\ new.req = F.req /\ new.media = F.media
        /\ new.left = F.left /\ new.known = F.known
    BY <1>1 DEF CheckType
  <2>2. Writes("publisher", new)
    BY <1>2
  <2> HIDE DEF new
  <2>3. KnownOK(new)
    BY <1>1, <2>1 DEF KnownOK
  <2>4. /\ FreshOK' /\ Apart1("publisher")
        /\ (new.left = {} /\ Holds("publisher", "idle", 0, 0, {})) \/ F' = new
    BY <1>1, <2>1, <2>2, <2>3, Writing2 DEF F
  <2> QED
    BY <1>1, <1>2, <2>1, <2>4, SameTypes DEF Holds, StillSends, StillPosted, F
<1>3. ASSUME NEW r \in Found(F.media),
             Writes("publisher", [F EXCEPT !.at = "writing", !.req = r, !.left = @ \cup On(r),
                                    !.known = [p \in Platforms |-> IF p \in On(r) THEN Outcome(r, p)
                                                                   ELSE F.known[p]]])
      PROVE  /\ SendsOK' /\ RowsOK' /\ FreshOK' /\ PostsOK' /\ Apart1("publisher")
             /\ \/ Holds("publisher", "idle", 0, 0, {}) /\ F.left = {}
                \/ /\ Holds("publisher", "writing", r, F.media, F.left \cup On(r))
                   /\ \A p \in Platforms : F'.known[p] = IF p \in On(r) THEN Outcome(r, p) ELSE F.known[p]
  <2> DEFINE left == F.left \cup On(r)
             known == [p \in Platforms |-> IF p \in On(r) THEN Outcome(r, p) ELSE F.known[p]]
             new == [F EXCEPT !.at = "writing", !.req = r, !.left = left, !.known = known]
  <2>1. Writes("publisher", new)
    BY <1>3
  <2>2. r \in Requests /\ left \subseteq Platforms
    BY <1>1 DEF Found, Requests, On
  <2>3. /\ known \in [Platforms -> States \cup {"no"}]
        /\ \A p \in left : known[p] \in States
        /\ \A p \in Platforms : known[p] = IF p \in On(r) THEN Outcome(r, p) ELSE F.known[p]
    <3>1. \A p \in Platforms : Outcome(r, p) \in States
      BY OutcomeIs DEF States
    <3>2. \A p \in F.left : F.known[p] \in States
      BY <1>1 DEF KnownOK
    <3>3. \A p \in Platforms : F.known[p] \in States \cup {"no"}
      BY <1>1 DEF CheckType
    <3> QED
      BY <3>1, <3>2, <3>3, <2>2
  <2>4. F.left \subseteq left
    OBVIOUS
  <2> HIDE DEF left, known
  <2>5. /\ new \in CheckType /\ new.at = "writing" /\ new.req = r /\ new.media = F.media
        /\ new.left = left /\ new.known = known
    BY <1>1, <2>2, <2>3 DEF CheckType
  <2> HIDE DEF new
  <2>6. KnownOK(new)
    BY <2>3, <2>5 DEF KnownOK
  <2>7. /\ FreshOK' /\ Apart1("publisher")
        /\ (new.left = {} /\ Holds("publisher", "idle", 0, 0, {})) \/ F' = new
    BY <1>1, <2>1, <2>5, <2>6, Writing2 DEF F
  <2> QED
    BY <1>1, <2>3, <2>4, <2>5, <2>7, SameTypes DEF Holds, StillSends, StillPosted, F, left
<1> QED
  BY <1>1, <1>2, <1>3 DEF Find, F

LEMMA UnreachableIs ==
  ASSUME Types, NEW c \in Checkers, Unreachable(c)
  PROVE  /\ SendsOK' /\ RowsOK' /\ FreshOK' /\ PostsOK'
         /\ SameRows /\ StillSends /\ Apart1(c) /\ NewDoubts(c) /\ Holds(c, "idle", 0, 0, {})
<1>1. SameRows /\ StillSends /\ Reads(c, NoFresh)
  BY DEF Unreachable, table, woop, SameRows, SameWoop, StillSends, StillPosted
<1>2. NoFresh \in CheckType /\ KnownOK(NoFresh)
  BY NoneTypes DEF KnownOK
<1> QED
  BY <1>1, <1>2, Reading1, NoneTypes, SameTypes DEF Holds, StillSends, StillPosted

Names(r, p) == r # 0 /\ p \in On(r)

(* The row written is in doubt for the other check, and, if it was so for     *)
(* this one, the write may undo what it says.                               *)
LEMMA WriteIs ==
  ASSUME Types, NEW c \in Checkers, NEW p \in Platforms, Write(c, p)
  PROVE  /\ SendsOK' /\ RowsOK' /\ FreshOK' /\ PostsOK'
         /\ fresh[c].at = "writing" /\ p \in fresh[c].left /\ StillSends /\ Apart1(c)
         /\ Wrote(p, fresh[c].known[p], IF Names(fresh[c].req, p) THEN fresh[c].req ELSE rows[p].req,
                  rows[p].media)
         /\ doubted'[c] = doubted[c]
         /\ \A d \in Checkers \ {c} :
              doubted'[d] = IF fresh[d].at # "idle" THEN doubted[d] \cup {p} ELSE doubted[d]
         /\ p \in doubted[c] /\ Undoes(fresh[c], p) => p \in slips'
         /\ \/ fresh[c].left = {p} /\ Holds(c, "idle", 0, 0, {})
            \/ /\ fresh[c].left # {p} /\ fresh'[c].known = fresh[c].known
               /\ Holds(c, "writing", fresh[c].req, fresh[c].media, fresh[c].left \ {p})
<1> DEFINE t == fresh[c]
           req == IF Names(t.req, p) THEN t.req ELSE rows[p].req
           row == [rows[p] EXCEPT !.state = t.known[p], !.req = req]
           new == [t EXCEPT !.left = @ \ {p}]
<1>1. /\ t.at = "writing" /\ p \in t.left /\ StillSends /\ old' = old \ {p}
      /\ rows' = [rows EXCEPT ![p].state = t.known[p],
                              ![p].req = IF Names(t.req, p) THEN t.req ELSE @]
      /\ Writes(c, new)
      /\ p \in doubted[c] /\ Undoes(t, p) => p \in slips'
  BY DEF Write, woop, SameWoop, StillSends, StillPosted, Names
<1>2. /\ doubted'[c] = doubted[c]
      /\ \A d \in Checkers \ {c} :
              doubted'[d] = IF fresh[d].at # "idle" THEN doubted[d] \cup {p} ELSE doubted[d]
      /\ doubted' \in [Checkers -> SUBSET Platforms]
  <2>1. doubted' = [d \in Checkers |-> IF d # c /\ fresh[d].at # "idle" THEN doubted[d] \cup {p} ELSE doubted[d]]
    BY DEF Write
  <2> QED
    BY <2>1 DEF Types, FreshOK
<1>3. t \in CheckType /\ KnownOK(t) /\ t.left \subseteq Platforms
  BY Fields DEF Types, FreshOK
<1>4. rows[p] \in RowType /\ req \in Requests /\ t.known[p] \in States
  BY <1>1, <1>3, Fields DEF KnownOK
<1>5. rows' = [rows EXCEPT ![p] = row]
  BY <1>1, <1>4 DEF Types, RowsOK
<1> HIDE DEF req
<1>6. row \in RowType /\ row.state = t.known[p] /\ row.req = req /\ row.media = rows[p].media
  BY <1>4 DEF RowType
<1>7. /\ new \in CheckType /\ new.at = "writing" /\ new.req = t.req /\ new.media = t.media
      /\ new.left = t.left \ {p} /\ new.known = t.known
  BY <1>1, <1>3 DEF CheckType
<1> HIDE DEF row, new
<1>8. RowsOK' /\ Wrote(p, t.known[p], req, rows[p].media)
  BY <1>1, <1>5, <1>6, Writing1
<1>9. KnownOK(new)
  BY <1>3, <1>1, <1>7 DEF KnownOK
<1>10. /\ FreshOK' /\ Apart1(c)
       /\ (new.left = {} /\ Holds(c, "idle", 0, 0, {})) \/ (new.left # {} /\ fresh'[c] = new)
  BY <1>1, <1>2, <1>7, <1>9, Writing2
<1>11. /\ new.left = {} => t.left = {p}
       /\ new.left # {} => t.left # {p}
  BY <1>1, <1>7
<1>12. SendsOK' /\ PostsOK'
  BY <1>1, SameTypes DEF StillSends, StillPosted
<1> QED
  BY <1>1, <1>2, <1>7, <1>8, <1>10, <1>11, <1>12 DEF Holds, req

LEMMA DeliverIs ==
  ASSUME Types, NEW r \in Made, NEW p \in Platforms, Deliver(r, p)
  PROVE  /\ SendsOK' /\ RowsOK' /\ FreshOK' /\ PostsOK'
         /\ send' = send /\ SameRows /\ SameChecks /\ asked' = asked /\ medias' = medias
         /\ posts[r].is[p] = "going" /\ posts'[r].is[p] \in {"published", "rejected"}
         /\ \A s \in Made : /\ posts'[s].media = posts[s].media /\ posts'[s].by = posts[s].by
                            /\ \A q \in Platforms : s # r \/ q # p => posts'[s].is[q] = posts[s].is[q]
<1>1. PICK fate \in {"published", "rejected"} : posts' = [posts EXCEPT ![r].is[p] = fate]
  BY DEF Deliver
<1> DEFINE is == [posts[r].is EXCEPT ![p] = fate]
           post == [posts[r] EXCEPT !.is = is]
<1>2. /\ send' = send /\ SameRows /\ SameChecks /\ asked' = asked /\ medias' = medias
      /\ posts[r].is[p] = "going" /\ posts' = [posts EXCEPT ![r] = post]
  BY <1>1 DEF Deliver, table, checks, SameRows, SameChecks
<1>3. /\ is \in [Platforms -> Fates] /\ is[p] = fate
      /\ \A q \in Platforms \ {p} : is[q] = posts[r].is[q]
  BY Fields DEF Fates
<1> HIDE DEF is
<1>4. /\ post \in PostType /\ post.media = posts[r].media /\ post.by = posts[r].by /\ post.is = is
  BY <1>3, Fields DEF PostType
<1> HIDE DEF post
<1>5. /\ posts' \in [Made -> PostType] /\ posts'[r] = post
      /\ \A s \in Made \ {r} : posts'[s] = posts[s]
  BY <1>2, <1>4 DEF Types, PostsOK
<1>6. PostsOK' /\ SendsOK'
  BY <1>2, <1>5 DEF Types, PostsOK, SendsOK
<1> QED
  BY <1>2, <1>3, <1>4, <1>5, <1>6, SameTypes

LEMMA StopIs ==
  ASSUME Types, Restart
  PROVE  /\ SendsOK' /\ RowsOK' /\ FreshOK' /\ PostsOK'
         /\ SameRows /\ StillPosted /\ slips' = slips \cup TornOn
         /\ \A c \in Checkers : Holds(c, "idle", 0, 0, {}) /\ doubted'[c] = {}
         /\ Has(W', "idle", {}, {}, 0, 0) /\ Has(P', "idle", {}, {}, 0, 0)
<1>1. /\ SameRows /\ StillPosted /\ slips' = slips \cup TornOn
      /\ fresh' = [c \in Checkers |-> NoFresh] /\ doubted' = [c \in Checkers |-> {}]
      /\ send' = [a \in Senders |-> NoSend]
  BY DEF Restart, FanOutStops, table, woop, SameRows, SameWoop, StillPosted
<1>2. NoFresh \in CheckType /\ KnownOK(NoFresh)
  BY NoneTypes DEF KnownOK
<1>3. FreshOK' /\ \A c \in Checkers : Holds(c, "idle", 0, 0, {}) /\ doubted'[c] = {}
  BY <1>1, <1>2, NoneTypes DEF FreshOK, Holds, KnownOK
<1>4. SendsOK'
  BY <1>1, NoneTypes, Fields DEF SendsOK, StillPosted, SameWoop
<1>5. W' = NoSend /\ P' = NoSend
  BY <1>1 DEF W, P, Senders
<1> QED
  BY <1>1, <1>3, <1>4, <1>5, NoneTypes, SameTypes DEF Has, StillPosted

-----------------------------------------------------------------------------
(* The item, and the watcher's own steps.                                   *)
WatcherIs(at) == /\ P' = P /\ SameRows /\ StillPosted /\ SameChecks
                 /\ W'.at = at /\ W'.media \in {0, W.media}
                 /\ W'.to \in {W.to, {}}
                 /\ SendsOK' /\ RowsOK' /\ FreshOK' /\ PostsOK'

LEMMA ItemIs ==
  ASSUME Types
  PROVE  /\ item.is \in {"publishing", "done", "ask"} /\ item.retry \in {"", "set", "past"}
         /\ item.tries \in 0 .. MaxStarts /\ item.redo \in 0 .. MaxRedo
BY DEF Types, ItemOK, ItemType

LEMMA PublishIs ==
  ASSUME Types, Publish
  PROVE  ItemOK' /\ W.at = "idle" /\ (BeginOnce \/ WatcherIs("ended"))
<1>1. ItemOK'
  BY DEF Publish, Types, ItemOK, ItemType
<1>2. CASE BeginOnce
  BY <1>1, <1>2, BeginOnceIs
<1>3. CASE /\ send["watcher"].at = "idle" /\ send' = [send EXCEPT !["watcher"].at = "ended"]
           /\ Outside
  <2> DEFINE new == [W EXCEPT !.at = "ended"]
  <2>1. W \in SendType /\ W.media \in 0 .. medias /\ medias \in Nat /\ "watcher" \in Senders
    BY Fields DEF W, Senders
  <2>2. new \in SendType /\ Has(new, "ended", W.to, W.left, W.media, W.req)
    BY <2>1 DEF SendType, SendPlaces, Has
  <2>3. Step("watcher", new) /\ SameRows /\ StillPosted /\ SameChecks
    BY <1>3 DEF W, Step, Outside, table, checks, woop, SameRows, SameChecks, StillPosted, SameWoop
  <2> HIDE DEF new
  <2>4. new.media \in 0 .. medias' /\ medias' \in {medias, medias + 1}
    BY <2>1, <2>2, <2>3 DEF Has, StillPosted, SameWoop
  <2>5. SendsOK' /\ send'["watcher"] = new /\ Others("watcher")
    BY <2>1, <2>2, <2>3, <2>4, Sending1 DEF Others
  <2> QED
    BY <1>1, <1>3, <2>2, <2>3, <2>5, SameTypes DEF WatcherIs, W, P, Has, Others, Senders, StillPosted
<1> QED
  BY <1>2, <1>3 DEF Publish

LEMMA PublishedIs ==
  ASSUME Types, Published
  PROVE  ItemOK' /\ W.at = "ended" /\ WatcherIs("idle")
<1>1. ItemOK'
  <2>1. item' = [item EXCEPT !.is = "done", !.tries = 0, !.retry = ""] /\ 0 \in 0 .. MaxStarts
    BY Bounds DEF Published
  <2> QED
    BY <2>1 DEF Types, ItemOK, ItemType
<1>2. /\ Step("watcher", NoSend) /\ W.at = "ended" /\ SameRows /\ StillPosted /\ SameChecks
  BY DEF Published, Step, W, Outside, table, checks, woop, SameRows, SameChecks, StillPosted, SameWoop
<1>3. NoSend.media \in 0 .. medias' /\ medias' \in {medias, medias + 1} /\ "watcher" \in Senders
  BY <1>2, Fields, NoneTypes DEF StillPosted, SameWoop, Senders
<1>4. SendsOK' /\ send'["watcher"] = NoSend /\ Others("watcher")
  BY <1>2, <1>3, NoneTypes, Sending1 DEF Others
<1> QED
  BY <1>1, <1>2, <1>4, NoneTypes, SameTypes DEF WatcherIs, W, P, Others, Senders, StillPosted

(* What only touches the item.                                              *)
Aside == SameRows /\ StillSends /\ SameChecks

LEMMA AsideIs ==
  ASSUME Types, StartFails \/ RetryRejected \/ TimePasses \/ Approve
  PROVE  ItemOK' /\ Aside
<1>1. Aside
  BY DEF StartFails, RetryRejected, TimePasses, Approve, Outside, table, checks, woop, Aside, SameRows,
         SameChecks, StillSends, StillPosted, SameWoop
<1>2. ItemOK'
  <2>1. CASE StartFails
    <3>1. CASE item.tries < MaxStarts /\ item' = [item EXCEPT !.tries = @ + 1, !.retry = "set"]
      <4>0. item.tries \in 0 .. MaxStarts /\ item.tries < MaxStarts
        BY <3>1, ItemIs
      <4>1. item.tries + 1 \in 0 .. MaxStarts
        BY <4>0, Bounds
      <4> DEFINE more == item.tries + 1
      <4> HIDE DEF more
      <4>2. item' = [item EXCEPT !.tries = more, !.retry = "set"] /\ more \in 0 .. MaxStarts
        BY <3>1, <4>1 DEF more
      <4> QED
        BY <4>2 DEF Types, ItemOK, ItemType
    <3>2. CASE item' = [item EXCEPT !.is = "ask", !.retry = ""]
      BY <3>2 DEF Types, ItemOK, ItemType
    <3> QED
      BY <2>1, <3>1, <3>2 DEF StartFails
  <2>2. CASE RetryRejected
    <3>1. CASE item' = [item EXCEPT !.retry = "set"]
      BY <3>1 DEF Types, ItemOK, ItemType
    <3>2. CASE item' = [item EXCEPT !.is = "publishing", !.retry = "", !.tries = 0, !.redo = @ + 1]
      <4>0. item.redo \in 0 .. MaxRedo /\ item.redo < MaxRedo
        BY <2>2, ItemIs DEF RetryRejected
      <4>1. item.redo + 1 \in 0 .. MaxRedo /\ 0 \in 0 .. MaxStarts
        BY <4>0, Bounds
      <4> DEFINE more == item.redo + 1
      <4> HIDE DEF more
      <4>2. /\ item' = [item EXCEPT !.is = "publishing", !.retry = "", !.tries = 0, !.redo = more]
            /\ more \in 0 .. MaxRedo /\ 0 \in 0 .. MaxStarts
        BY <3>2, <4>1 DEF more
      <4> QED
        BY <4>2 DEF Types, ItemOK, ItemType
    <3> QED
      BY <2>2, <3>1, <3>2 DEF RetryRejected
  <2>3. CASE TimePasses
    BY <2>3 DEF TimePasses, Types, ItemOK, ItemType
  <2>4. CASE Approve
    <3>1. item' = [item EXCEPT !.is = "publishing", !.tries = 0, !.retry = ""]
      BY <2>4 DEF Approve
    <3> QED
      BY <3>1, Bounds DEF Types, ItemOK, ItemType
  <2> QED
    BY <2>1, <2>2, <2>3, <2>4
<1> QED
  BY <1>1, <1>2

(* Every step is one of these.                                              *)
OfSend(a) == \/ Upload(a) \/ Create(a) \/ CreateUnanswered(a) \/ Refused(a) \/ Unreadable(a)
            \/ \E p \in Platforms : Record(a, p)

LEMMA StepKinds ==
  ASSUME [Next]_vars
  PROVE  \/ Publish \/ Published \/ StartFails \/ RetryRejected \/ TimePasses \/ Approve \/ Restart
         \/ /\ item' = item
            /\ \/ \E a \in Senders : OfSend(a)
               \/ \E p \in Platforms : Mark(p) \/ Tag(p) \/ Fail(p)
               \/ \E r \in Made, c \in Checkers : ReadRows(c, r) /\ \E p \in Platforms : rows[p].req = r
               \/ \E m \in 0 .. medias : AskMedia(m)
               \/ \E c \in Checkers : Hear(c) \/ Unreachable(c) \/ \E p \in Platforms : Write(c, p)
               \/ Find
               \/ \E p \in Platforms : Age(p)
               \/ \E r \in Made, p \in Platforms : Deliver(r, p)
               \/ BeginAsked
         \/ Aside /\ item' = item
<1>1. CASE UNCHANGED vars
  BY <1>1 DEF vars, table, checks, woop, Aside, SameRows, SameChecks, StillSends, StillPosted, SameWoop
<1>2. CASE Watcher \/ TimePasses \/ Approve \/ Restart
  BY <1>2 DEF Watcher
<1>3. CASE Sends
  BY <1>3 DEF Sends, SendStep, OfSend
<1>4. CASE Refreshes \/ Pressed
  <2>1. CASE \E r \in Made : AskDue(r)
    BY <1>4, <2>1, AsksIs DEF Refreshes, Pressed
  <2>2. CASE Check("publisher") \/ Check("person")
    BY <1>4, <2>2 DEF Refreshes, Pressed, Check, Checkers
  <2> QED
    BY <1>4, <2>1, <2>2 DEF Refreshes, Pressed, Background
<1>5. CASE Presses /\ UNCHANGED item
  BY <1>5, AsksIs DEF Presses
<1>6. CASE Lapses /\ UNCHANGED item
  BY <1>6 DEF Lapses, Lapse, table, checks, Aside, SameRows, SameChecks, SameWoop, StillSends, StillPosted
<1>7. CASE (World \/ Ages \/ BeginAsked) /\ UNCHANGED item
  BY <1>7 DEF World, Ages
<1> QED
  BY <1>1, <1>2, <1>3, <1>4, <1>5, <1>6, <1>7 DEF Next

(* What was lost sight of stays so.                                         *)
LEMMA SlipsGrow ==
  ASSUME Types, [Next]_vars
  PROVE  slips \subseteq slips' /\ SlipsOK'
<1>1. /\ slips \subseteq Platforms /\ late \subseteq Made
      /\ \A a \in Senders : send[a].to \subseteq Platforms
      /\ \A c \in Checkers : fresh[c].left \subseteq Platforms
      /\ \A r \in Made : On(r) \subseteq Platforms
  BY Fields DEF Types, SlipsOK, On
<1>2. CASE slips' = slips /\ late' = late
  BY <1>1, <1>2 DEF SlipsOK
<1>3. CASE Watcher \/ TimePasses \/ Approve \/ UNCHANGED vars
  BY <1>2, <1>3 DEF Watcher, Publish, StartFails, Published, RetryRejected, TimePasses, Approve, Outside, woop,
                    BeginOnce, vars
<1>4. CASE SendStep
  <2>1. ASSUME NEW a \in Senders, Unreadable(a) PROVE slips \subseteq slips' /\ SlipsOK'
    BY <1>1, <2>1 DEF Unreadable, SlipsOK
  <2>2. CASE \E a \in Senders : Upload(a) \/ Create(a) \/ CreateUnanswered(a) \/ Refused(a)
                               \/ \E p \in Platforms : Record(a, p)
    BY <1>2, <2>2 DEF Upload, Create, CreateUnanswered, Refused, Record, woop
  <2>3. CASE \E p \in Platforms : Mark(p) \/ Tag(p) \/ Fail(p)
    BY <1>2, <2>3 DEF Mark, Tag, Fail, woop
  <2> QED
    BY <1>4, <2>1, <2>2, <2>3 DEF SendStep
<1>5. ASSUME NEW c \in Checkers, NEW p \in Platforms, Write(c, p) PROVE slips \subseteq slips' /\ SlipsOK'
  BY <1>1, <1>5 DEF Write, SlipsOK, woop
<1>6. ASSUME NEW c \in Checkers, Hear(c) \/ Unreachable(c) PROVE slips \subseteq slips' /\ SlipsOK'
  BY <1>2, <1>6 DEF Hear, Unreachable, woop
<1>7. CASE Find
  BY <1>1, <1>7 DEF Find, SlipsOK, woop, Checkers
<1>8. CASE \/ \E r \in Made, c \in Checkers : ReadRows(c, r)
           \/ \E m \in 0 .. medias : AskMedia(m)
           \/ \E p \in Platforms : Age(p)
           \/ \E r \in Made, p \in Platforms : Deliver(r, p)
           \/ BeginAsked
  BY <1>2, <1>8 DEF ReadRows, AskMedia, Age, Deliver, BeginAsked, woop
<1>9. CASE Lapses
  BY <1>1, <1>9 DEF Lapses, Lapse, SlipsOK
<1>10. CASE Restart
  <2>1. TornOn \subseteq Platforms
    <3>1. W.to \subseteq Platforms
      BY <1>1 DEF W, Senders
    <3>2. F.req \in Requests /\ (F.req # 0 => On(F.req) \subseteq Platforms)
      BY <1>1, Fields DEF F, Checkers, Requests
    <3> QED
      BY <3>1, <3>2 DEF TornOn, W, F
  <2> QED
    BY <1>1, <1>10, <2>1 DEF Restart, FanOutStops, SlipsOK, woop
<1> QED
  <2>1. CASE Refreshes \/ Pressed \/ Presses
    BY <2>1, <1>5, <1>6, <1>7, <1>8 DEF Refreshes, Pressed, Presses, Background, Check, AskDue, AskPressed,
                                        Checkers
  <2> QED
    BY <1>3, <1>4, <1>8, <1>9, <1>10, <2>1 DEF Next, Sends, World, Ages

LEMMA InitTypes == Init => Types
<1> SUFFICES ASSUME Init PROVE Types
  OBVIOUS
<1>1. RowsOK
  BY NoneTypes DEF Init, FanOutInit, RowsOK
<1>2. PostsOK
  BY NoneTypes DEF Init, FanOutInit, PostsOK
<1>3. SendsOK /\ FreshOK
  <2>1. /\ send = [a \in Senders |-> NoSend] /\ fresh = [c \in Checkers |-> NoFresh] /\ medias = 0
        /\ doubted = [c \in Checkers |-> {}]
    BY DEF Init, FanOutInit
  <2>2. \A a \in Senders : send[a] = NoSend
    BY <2>1
  <2>3. \A c \in Checkers : fresh[c] = NoFresh
    BY <2>1
  <2> QED
    BY <2>1, <2>2, <2>3, NoneTypes DEF SendsOK, FreshOK, KnownOK
<1>4. ItemOK
  <2>1. item = [is |-> "publishing", tries |-> 0, redo |-> 0, retry |-> ""]
    BY DEF Init
  <2> QED
    BY <2>1, Bounds DEF ItemOK, ItemType
<1>5. SlipsOK
  BY DEF Init, FanOutInit, SlipsOK
<1> QED
  BY <1>1, <1>2, <1>3, <1>4, <1>5 DEF Types

LEMMA NextTypes == Types /\ [Next]_vars => Types'
<1> SUFFICES ASSUME Types, [Next]_vars PROVE Types'
  OBVIOUS
<1>0. SlipsOK'
  BY SlipsGrow
<1>1. CASE Publish
  BY <1>0, <1>1, PublishIs, BeginOnceIs DEF WatcherIs, Types
<1>2. CASE Published
  BY <1>0, <1>2, PublishedIs DEF WatcherIs, Types
<1>3. CASE StartFails \/ RetryRejected \/ TimePasses \/ Approve
  BY <1>0, <1>3, AsideIs, SameTypes DEF Aside, StillSends, StillPosted, Types
<1>4. CASE Aside /\ item' = item
  BY <1>0, <1>4, SameTypes DEF Aside, StillSends, StillPosted, Types
<1>5. CASE Restart
  BY <1>0, <1>5, StopIs, SameTypes DEF Restart, Types
<1>6. ASSUME item' = item, NEW a \in Senders, OfSend(a)
      PROVE  Types'
  BY <1>0, <1>6, UploadIs, CreateIs, UnansweredIs, RefusedIs, UnreadableIs, RecordIs, SameTypes DEF Types, OfSend
<1>7. ASSUME item' = item, NEW p \in Platforms, Mark(p) \/ Tag(p) \/ Fail(p) \/ Age(p)
      PROVE  Types'
  BY <1>0, <1>7, MarkIs, TagIs, FailIs, AgeIs, SameTypes DEF Types
<1>8. ASSUME item' = item, NEW r \in Made, \E p \in Platforms : Deliver(r, p)
      PROVE  Types'
  BY <1>0, <1>8, DeliverIs, SameTypes DEF Types
<1>9. ASSUME item' = item, NEW m \in 0 .. medias, AskMedia(m) PROVE Types'
  BY <1>0, <1>9, AskMediaIs, SameTypes DEF Types
<1>10. CASE item' = item /\ (Find \/ BeginAsked)
  BY <1>0, <1>10, FindIs, BeginAskedIs, SameTypes DEF Types
<1>11. ASSUME item' = item, NEW c \in Checkers,
              \/ \E r \in Made : ReadRows(c, r)
              \/ Hear(c) \/ Unreachable(c) \/ \E p \in Platforms : Write(c, p)
       PROVE  Types'
  BY <1>0, <1>11, AskIs, HearIs, UnreachableIs, WriteIs, SameTypes DEF Types
<1> QED
  BY <1>1, <1>2, <1>3, <1>4, <1>5, <1>6, <1>7, <1>8, <1>9, <1>10, <1>11, StepKinds

(* Types: every variable holds what the program can put there, with what a   *)
(* thread still has in its hand.                                             *)
THEOREM TypesHold == Spec => []Types
<1>1. Types /\ [Next]_vars => Types'
  BY NextTypes
<1> QED
  BY <1>1, InitTypes, PTL DEF Spec

(* The types hands_off checks follow.                                       *)
THEOREM TypeCorrect == Spec => []TypeOK
<1>1. Types => TypeOK
  <2> SUFFICES ASSUME Types PROVE TypeOK
    OBVIOUS
  <2>1. \A c \in Checkers, p \in Platforms : fresh[c].known[p] \in States \cup {"no"}
    BY Fields
  <2> QED
    BY <2>1, Fields, ItemIs DEF TypeOK, Types, RowsOK, RowType, Requests, SendPlaces, SlipsOK
<1> QED
  BY <1>1, TypesHold, PTL

-----------------------------------------------------------------------------
(* What has to hold so that a live post of the watch is never forgotten, as  *)
(* long as none was lost sight of.                                          *)
Unasked(p)  == asked[p] = 0
Is(p, m)    == rows[p].state = "sending" /\ rows[p].media = m
Sent(r, p)  == posts[r].is[p] # "no"
Exists(r)   == posts[r].by # "none"
Shown       == {"processing", "published"}
Before      == {"marking", "uploading", "tagging", "creating", "failing"}
Sending     == W.at \notin {"idle", "ended"}

(* Posts: those of the watch have an upload each; the others a person asked  *)
(* for.                                                                     *)
PostShape == \A r \in Made : /\ posts[r].media <= medias
                             /\ ~Exists(r) => posts[r].media = 0 /\ \A p \in Platforms : ~Sent(r, p)
                             /\ posts[r].media = 0 => \A p \in Platforms : Sent(r, p) => ~Unasked(p)
MediaOne  == \A r, s \in Made : posts[r].media # 0 /\ posts[r].media = posts[s].media => r = s

(* The upload in the watcher's hand is no post's before the post is made of  *)
(* it, and a row that names an upload is of its send, or of a post.         *)
MediaUnused == /\ W.at \in {"tagging", "creating"} => W.media # 0
               /\ W.at \in {"tagging", "creating", "failing"} /\ W.media # 0 =>
                    \A r \in Made : posts[r].media # W.media
MediaApart == P.media = 0 /\ \A p \in Platforms : rows[p].media <= medias
MediaOwner == \A p \in Platforms : rows[p].media # 0 /\ rows[p].media = W.media => p \in W.to
MediaNamed == \A p \in Platforms, r \in Made :
                rows[p].media # 0 /\ rows[p].media = posts[r].media => Sent(r, p)

(* A row knows a request only once it says so, and one that was made.       *)
Requested == \A p \in Platforms : /\ rows[p].req # 0 => Exists(rows[p].req)
                                  /\ rows[p].state \in {"none", "sending"} => rows[p].req = 0

(* No row that is old is in a send.                                         *)
OldFree == \A p \in old : rows[p].state = "sending" /\ ~Busy(p)

PersonAsked == /\ \A p \in P.to : ~Unasked(p)
               /\ P.left \subseteq P.to
               /\ P.at = "recording" => P.req \in Made /\ Exists(P.req)

(* Where the rows of the watch's send are.                                  *)
RowInSend ==
  \A p \in W.to : Unasked(p) =>
    /\ W.at = "marking" /\ p \in W.left => rows[p].state \notin Alive
    /\ W.at = "marking" /\ p \notin W.left => Is(p, 0)
    /\ W.at = "uploading" => Is(p, 0)
    /\ W.at = "tagging" /\ p \in W.left => Is(p, 0)
    /\ W.at = "tagging" /\ p \notin W.left => Is(p, W.media)
    /\ W.at = "creating" => Is(p, W.media)
    /\ W.at = "failing" /\ p \in W.left => Is(p, W.media)
    /\ W.at = "failing" /\ p \notin W.left => rows[p].state = "failed"
    /\ W.at = "recording" /\ p \in W.left => Is(p, W.media)
Recording ==
  /\ Sending => W.left \subseteq W.to /\ W.to # {}
  /\ W.at \in {"idle", "ended", "marking", "uploading"} => W.media = 0
  /\ W.at = "recording" =>
       /\ W.req \in Made /\ posts[W.req].media = W.media /\ W.media # 0
       /\ \A p \in Platforms : Sent(W.req, p) <=> p \in W.to
       /\ \A p \in W.to \ W.left : rows[p].state # "sending"

(* A live post the person had no hand in is backed by its row, and there is  *)
(* none where the watch still has to send.                                  *)
LiveIsBacked == \A p \in Platforms, r \in Made :
  Unasked(p) /\ Live(r, p) => Is(p, posts[r].media) \/ (rows[p].state \in Shown /\ rows[p].req = r)
NoneYet == W.at \in Before => \A p \in W.to, r \in Made : Unasked(p) => ~Live(r, p)

(* What a check read is still so, unless the other wrote the row since.      *)
Asking(c) ==
  fresh[c].at = "asking" =>
    /\ fresh[c].req \in Made /\ fresh[c].media = 0 /\ Exists(fresh[c].req)
    /\ \A p \in Platforms : Unasked(p) /\ fresh[c].known[p] # "no" =>
         \/ p \in doubted[c]
         \/ fresh[c].known[p] \in Shown /\ rows[p].state = fresh[c].known[p] /\ rows[p].req = fresh[c].req
         \/ fresh[c].known[p] = "failed" /\ ~Live(fresh[c].req, p)
NoWatch == /\ F.media <= medias
           /\ F.media # 0 => W.media # F.media
Finding ==
  F.at = "finding" =>
    /\ F.req = 0 /\ F.media # 0 /\ F.left # {}
    /\ \A p \in F.left : F.known[p] = "failed" /\ (Unasked(p) => Is(p, F.media))
    /\ \A r \in Made, p \in Platforms :
         posts[r].media = F.media /\ Sent(r, p) /\ Unasked(p) => Is(p, F.media)
Writing(c) ==
  fresh[c].at = "writing" =>
    /\ fresh[c].req # 0 => Exists(fresh[c].req)
    /\ fresh[c].req = 0 /\ fresh[c].media # 0 => \A r \in Made : posts[r].media # fresh[c].media
    /\ fresh[c].req # 0 /\ fresh[c].media # 0 => posts[fresh[c].req].media = fresh[c].media
    /\ \A p \in fresh[c].left :
         /\ fresh[c].known[p] \in Shown \cup {"failed"}
         /\ fresh[c].known[p] \in Shown => fresh[c].req # 0 /\ Sent(fresh[c].req, p)
         /\ fresh[c].known[p] = "failed" /\ fresh[c].req # 0 => ~Live(fresh[c].req, p)
         /\ Unasked(p) =>
              /\ fresh[c].media = 0 /\ fresh[c].req # 0 =>
                   p \in doubted[c] \/ (rows[p].state \in Shown /\ rows[p].req = fresh[c].req)
              /\ fresh[c].media = 0 /\ fresh[c].req = 0 => Is(p, 0) /\ p \in old
              /\ fresh[c].media # 0 => Is(p, fresh[c].media)
PersonChecks == LET C == fresh["person"] IN
                C.at # "finding" /\ C.media = 0 /\ (C.at = "writing" => C.req # 0)
Adopting(r) == F.at = "writing" /\ F.media # 0 /\ F.req = r
AdoptDone == \A r \in Made : Adopting(r) =>
  \A p \in Platforms \ F.left : Sent(r, p) => ~Is(p, F.media)

(* A post that is not being recorded or adopted is still to be adopted as a  *)
(* whole, or not at all.                                                    *)
Adoptable(r) == \A p \in Platforms : Sent(r, p) /\ Unasked(p) => Is(p, posts[r].media)
Settled(r)   == \A p \in Platforms : ~Is(p, posts[r].media)
Whole == \A r \in Made : \/ posts[r].media = 0 \/ Adoptable(r) \/ Settled(r) \/ Adopting(r)
                         \/ W.at = "recording" /\ W.req = r

Rest == /\ PostShape /\ MediaOne /\ MediaUnused /\ MediaApart /\ MediaOwner /\ MediaNamed
        /\ Requested /\ OldFree /\ PersonAsked /\ RowInSend /\ Recording /\ LiveIsBacked /\ NoneYet
Told == /\ \A c \in Checkers : Asking(c) /\ Writing(c)
        /\ NoWatch /\ Finding /\ AdoptDone /\ PersonChecks
Kept == Rest /\ Told /\ Whole

LEMMA Halves ==
  ASSUME Types, NEW a \in Senders, Others(a)
  PROVE  \/ a = "watcher" /\ send[a] = W /\ send'[a] = W' /\ P' = P
         \/ a = "person" /\ send[a] = P /\ send'[a] = P' /\ W' = W
BY DEF Others, Senders, W, P

LEMMA WPTypes ==
  ASSUME Types
  PROVE  /\ W.media \in 0 .. medias /\ P.media \in 0 .. medias /\ medias \in Nat
         /\ W.at \in SendPlaces /\ P.at \in SendPlaces
         /\ W.to \subseteq Platforms /\ W.left \subseteq Platforms
         /\ P.to \subseteq Platforms /\ P.left \subseteq Platforms
         /\ F.media \in Nat /\ F.req \in Requests /\ F.left \subseteq Platforms
         /\ F.at \in {"idle", "asking", "finding", "writing"}
         /\ "publisher" \in Checkers /\ "person" \in Checkers
BY Fields DEF W, P, F, Senders, Checkers

LEMMA SentIs == \A r : \A p \in Platforms : p \in On(r) <=> Sent(r, p)
BY DEF On, Sent

(* While the posts and the rows stay, what is said of them stays.           *)
LateAsks == \A p \in Platforms : Unasked(p)' => Unasked(p)

LEMMA QuietRest ==
  ASSUME Types, Types', Rest, SameRows, posts' = posts, medias <= medias', LateAsks
  PROVE  PostShape' /\ MediaOne' /\ MediaNamed' /\ Requested' /\ LiveIsBacked'
<1>1. PostShape'
  <2>1. \A r \in Made : posts[r].media <= medias => posts[r].media <= medias'
    BY Fields DEF Types, PostsOK
  <2> QED
    BY <2>1 DEF Rest, PostShape, Sent, Exists, LateAsks
<1>2. MediaOne' /\ MediaNamed' /\ Requested'
  BY DEF Rest, MediaOne, MediaNamed, Requested, Sent, Exists, SameRows
<1>3. LiveIsBacked'
  BY DEF Rest, LiveIsBacked, LateAsks, Unasked, Is, Live, SameRows
<1> QED
  BY <1>1, <1>2, <1>3

(* A check that stays has read what is still so, as long as the rows stay.   *)
LEMMA QuietCheck ==
  ASSUME Types, NEW c \in Checkers, Asking(c), Writing(c), SameRows, posts' = posts, LateAsks,
         fresh'[c] = fresh[c], doubted[c] \subseteq doubted'[c]
  PROVE  Asking(c)' /\ Writing(c)'
<1>1. Asking(c)'
  BY DEF Asking, LateAsks, Unasked, Live, Exists, SameRows
<1>2. Writing(c)'
  BY Fields DEF Writing, LateAsks, Unasked, Is, Sent, Exists, Live, SameRows
<1> QED
  BY <1>1, <1>2

LEMMA QuietTold ==
  ASSUME Types, Told, SameRows, posts' = posts, SameChecks, LateAsks
  PROVE  (\A c \in Checkers : Asking(c)' /\ Writing(c)') /\ Finding' /\ AdoptDone' /\ PersonChecks'
<1>1. \A c \in Checkers : Asking(c)' /\ Writing(c)'
  BY QuietCheck DEF Told, SameChecks
<1>2. Finding'
  BY Fields DEF Told, Finding, LateAsks, Unasked, Is, Sent, SameRows, SameChecks, F, Checkers
<1>3. AdoptDone' /\ PersonChecks'
  BY DEF Told, AdoptDone, Adopting, PersonChecks, Is, Sent, SameRows, SameChecks, F
<1> QED
  BY <1>1, <1>2, <1>3

LEMMA QuietWhole ==
  ASSUME Types, Whole, SameRows, posts' = posts, SameChecks, LateAsks,
         W.at = "recording" => W' = W
  PROVE  Whole'
BY DEF Whole, Adoptable, Settled, Adopting, LateAsks, Unasked, Is, Sent, SameRows, SameChecks, W, F

LEMMA BeginOnceKeeps ==
  ASSUME Types, Types', Kept, BeginOnce
  PROVE  Kept'
<1> DEFINE to == Platforms \ AlreadySent
<1>1. /\ W.at = "idle" /\ P' = P /\ SameRows /\ SameWoop /\ SameChecks /\ asked' = asked
      /\ W'.at = "marking" /\ W'.to = to /\ W'.left = to /\ W'.media = 0 /\ to # {}
  BY BeginOnceIs DEF Has, BeginOnce
<1>2. LateAsks /\ posts' = posts /\ medias <= medias' /\ medias' = medias /\ F' = F
  BY <1>1, WPTypes DEF LateAsks, Unasked, SameWoop, SameChecks, F
<1>3. \A p \in to : p \in Platforms /\ rows[p].state \notin Alive
  BY DEF AlreadySent
<1> HIDE DEF to
<1>4. MediaUnused' /\ MediaApart' /\ MediaOwner'
  BY <1>1, <1>2 DEF Kept, Rest, MediaUnused, MediaApart, MediaOwner, SameRows
<1>5. OldFree'
  BY <1>1, <1>3 DEF Kept, Rest, OldFree, Busy, Alive, SameRows, W
<1>6. PersonAsked' /\ RowInSend' /\ Recording'
  BY <1>1, <1>2, <1>3 DEF Kept, Rest, PersonAsked, RowInSend, Recording, Sending, Unasked, Exists, Is, SameRows
<1>7. NoneYet'
  <2>1. \A p \in to, r \in Made : Unasked(p) => ~Live(r, p)
    BY <1>3 DEF Kept, Rest, LiveIsBacked, Is, Alive, Shown
  <2> QED
    BY <1>1, <1>2, <2>1 DEF NoneYet, Unasked, Live
<1>8. NoWatch'
  BY <1>1, <1>2 DEF Kept, Told, NoWatch
<1> QED
  BY <1>1, <1>2, <1>4, <1>5, <1>6, <1>7, <1>8, QuietRest, QuietTold, QuietWhole DEF Kept, Rest, Told

LEMMA BeginAskedKeeps ==
  ASSUME Types, Types', Kept, BeginAsked
  PROVE  Kept'
<1>1. PICK to \in SUBSET Platforms :
        /\ P.at = "idle" /\ W' = W /\ SameRows /\ SameWoop /\ SameChecks
        /\ P'.at = "uploading" /\ P'.to = to /\ P'.left = {} /\ P'.media = 0
        /\ \A p \in Platforms : asked'[p] = IF p \in to THEN asked[p] + 1 ELSE asked[p]
  BY BeginAskedIs DEF Has
<1>2. \A p \in Platforms : (Unasked(p)' => Unasked(p)) /\ (p \in to => ~Unasked(p)')
  BY <1>1, Fields DEF Unasked
<1>3. LateAsks /\ posts' = posts /\ medias <= medias' /\ medias' = medias /\ F' = F
  BY <1>1, <1>2, WPTypes DEF LateAsks, SameWoop, SameChecks, F
<1>4. MediaUnused' /\ MediaApart' /\ MediaOwner'
  BY <1>1, <1>3 DEF Kept, Rest, MediaUnused, MediaApart, MediaOwner, SameRows
<1>5. OldFree'
  BY <1>1 DEF Kept, Rest, OldFree, Busy, SameRows, W
<1>6. PersonAsked'
  BY <1>1, <1>2 DEF PersonAsked
<1>7. RowInSend' /\ Recording' /\ NoneYet'
  BY <1>1, <1>2, <1>3, WPTypes DEF Kept, Rest, RowInSend, Recording, NoneYet, Sending, Is, Sent, Live, SameRows
<1>8. NoWatch'
  BY <1>1, <1>3 DEF Kept, Told, NoWatch
<1> QED
  BY <1>1, <1>3, <1>4, <1>5, <1>6, <1>7, <1>8, QuietRest, QuietTold, QuietWhole DEF Kept, Rest, Told

LEMMA UploadKeeps ==
  ASSUME Types, Types', Kept, NEW a \in Senders, Upload(a)
  PROVE  Kept'
<1>1. /\ send[a].at = "uploading" /\ Others(a) /\ SameRows /\ posts' = posts /\ medias' \in {medias, medias + 1}
      /\ SameChecks /\ asked' = asked
      /\ \/ /\ a = "watcher" /\ medias' = medias + 1
            /\ send'[a].at = "tagging" /\ send'[a].to = send[a].to /\ send'[a].left = send[a].to
            /\ send'[a].media = medias + 1
         \/ /\ a = "person" /\ medias' = medias
            /\ send'[a].at = "creating" /\ send'[a].to = send[a].to /\ send'[a].left = send[a].left
            /\ send'[a].media = send[a].media
  BY UploadIs DEF Has
<1>2. LateAsks /\ medias <= medias' /\ F' = F
  BY <1>1, WPTypes DEF LateAsks, Unasked, SameChecks, F
<1>3. CASE a = "watcher" /\ send[a] = W /\ send'[a] = W' /\ P' = P
  <2>1. /\ W.at = "uploading" /\ W'.at = "tagging" /\ W'.to = W.to /\ W'.left = W.to
        /\ W'.media = medias + 1 /\ medias' = medias + 1
    BY <1>1, <1>3
  <2>2. /\ \A r \in Made : posts[r].media # medias + 1
        /\ \A p \in Platforms : rows[p].media # medias + 1 /\ rows[p].media <= medias'
        /\ F.media # medias + 1 /\ medias + 1 # 0 /\ F.media <= medias'
    <3>1. \A r \in Made : posts[r].media <= medias /\ posts[r].media \in Nat
      BY Fields DEF Kept, Rest, PostShape
    <3>2. \A p \in Platforms : rows[p].media <= medias /\ rows[p].media \in Nat
      BY Fields DEF Kept, Rest, MediaApart
    <3>3. F.media <= medias /\ F.media \in Nat
      BY WPTypes DEF Kept, Told, NoWatch
    <3> QED
      BY <2>1, <3>1, <3>2, <3>3, WPTypes
  <2>3. MediaUnused' /\ MediaApart' /\ MediaOwner'
    BY <1>1, <1>3, <2>1, <2>2 DEF Kept, Rest, MediaUnused, MediaApart, MediaOwner, SameRows
  <2>4. OldFree'
    BY <1>1, <2>1 DEF Kept, Rest, OldFree, Busy, SameRows, W
  <2>5. PersonAsked'
    BY <1>1, <1>3 DEF Kept, Rest, PersonAsked, Unasked, Exists
  <2>6. RowInSend' /\ NoneYet'
    BY <1>1, <2>1 DEF Kept, Rest, RowInSend, NoneYet, Before, Unasked, Is, Live, SameRows
  <2>7. Recording'
    BY <2>1 DEF Kept, Rest, Recording, Sending
  <2>8. NoWatch'
    BY <1>2, <1>3, <2>1, <2>2 DEF Kept, Told, NoWatch
  <2> QED
    BY <1>1, <1>2, <2>1, <2>3, <2>4, <2>5, <2>6, <2>7, <2>8, QuietRest, QuietTold, QuietWhole
       DEF Kept, Rest, Told
<1>4. CASE a = "person" /\ send[a] = P /\ send'[a] = P' /\ W' = W
  <2>1. /\ P.at = "uploading" /\ P'.at = "creating" /\ P'.to = P.to /\ P'.left = P.left
        /\ P'.media = P.media /\ medias' = medias
    BY <1>1, <1>4
  <2>2. MediaUnused' /\ MediaApart' /\ MediaOwner'
    BY <1>1, <1>4, <2>1 DEF Kept, Rest, MediaUnused, MediaApart, MediaOwner, SameRows
  <2>3. OldFree'
    BY <1>1, <1>4 DEF Kept, Rest, OldFree, Busy, SameRows, W
  <2>4. PersonAsked'
    BY <1>1, <2>1 DEF Kept, Rest, PersonAsked, Unasked
  <2>5. RowInSend' /\ NoneYet' /\ Recording'
    BY <1>1, <1>4 DEF Kept, Rest, RowInSend, NoneYet, Recording, Sending, Unasked, Is, Sent, Live, SameRows
  <2>6. NoWatch'
    BY <1>2, <1>4, <2>1 DEF Kept, Told, NoWatch
  <2> QED
    BY <1>1, <1>2, <1>4, <2>2, <2>3, <2>4, <2>5, <2>6, QuietRest, QuietTold, QuietWhole
       DEF Kept, Rest, Told
<1> QED
  BY <1>1, <1>3, <1>4, Halves

LEMMA RefusedKeeps ==
  ASSUME Types, Types', Kept, NEW a \in Senders, Refused(a)
  PROVE  Kept'
<1>1. /\ send[a].at \in {"uploading", "creating"} /\ Others(a) /\ SameRows /\ SameWoop
      /\ SameChecks /\ asked' = asked
      /\ a = "watcher" => Has(send'[a], "failing", send[a].to, send[a].to, send[a].media, send[a].req)
      /\ a # "watcher" => Has(send'[a], "idle", {}, {}, 0, 0)
  BY RefusedIs
<1>2. LateAsks /\ posts' = posts /\ medias' = medias /\ medias <= medias' /\ F' = F
  BY <1>1, WPTypes DEF LateAsks, Unasked, SameWoop, SameChecks, F
<1>3. CASE a = "watcher" /\ send[a] = W /\ send'[a] = W' /\ P' = P
  <2>1. /\ W.at \in {"uploading", "creating"} /\ W'.at = "failing" /\ W'.to = W.to /\ W'.left = W.to
        /\ W'.media = W.media
    BY <1>1, <1>3 DEF Has
  <2>2. MediaUnused' /\ MediaApart' /\ MediaOwner'
    BY <1>1, <1>2, <1>3, <2>1 DEF Kept, Rest, MediaUnused, MediaApart, MediaOwner, Recording, SameRows
  <2>3. OldFree'
    BY <1>1, <2>1 DEF Kept, Rest, OldFree, Busy, SameRows, W
  <2>4. PersonAsked'
    BY <1>1, <1>2, <1>3 DEF Kept, Rest, PersonAsked, Unasked, Exists
  <2>5. RowInSend' /\ NoneYet'
    BY <1>1, <1>2, <2>1 DEF Kept, Rest, RowInSend, NoneYet, Recording, Before, Unasked, Is, Live, SameRows
  <2>6. Recording'
    BY <2>1 DEF Kept, Rest, Recording, Sending
  <2>7. NoWatch'
    BY <1>1, <1>2, <1>3, <2>1 DEF Kept, Told, NoWatch
  <2> QED
    BY <1>1, <1>2, <2>1, <2>2, <2>3, <2>4, <2>5, <2>6, <2>7, QuietRest, QuietTold, QuietWhole
       DEF Kept, Rest, Told
<1>4. CASE a = "person" /\ send[a] = P /\ send'[a] = P' /\ W' = W
  <2>1. P'.at = "idle" /\ P'.to = {} /\ P'.left = {} /\ P'.media = 0
    BY <1>1, <1>4 DEF Has
  <2>2. MediaUnused' /\ MediaApart' /\ MediaOwner'
    BY <1>1, <1>2, <1>4, <2>1 DEF Kept, Rest, MediaUnused, MediaApart, MediaOwner, SameRows
  <2>3. OldFree'
    BY <1>1, <1>4 DEF Kept, Rest, OldFree, Busy, SameRows, W
  <2>4. PersonAsked'
    BY <2>1 DEF PersonAsked
  <2>5. RowInSend' /\ NoneYet' /\ Recording'
    BY <1>1, <1>2, <1>4 DEF Kept, Rest, RowInSend, NoneYet, Recording, Sending, Unasked, Is, Sent, Live, SameRows
  <2>6. NoWatch'
    BY <1>1, <1>2, <1>4, <2>1 DEF Kept, Told, NoWatch
  <2> QED
    BY <1>1, <1>2, <1>4, <2>2, <2>3, <2>4, <2>5, <2>6, QuietRest, QuietTold, QuietWhole
       DEF Kept, Rest, Told
<1> QED
  BY <1>1, <1>3, <1>4, Halves

(* The watcher's send is over, or was not to be.                            *)
LEMMA WatcherKeeps ==
  ASSUME Types, Types', Kept, W.at \in {"idle", "ended"}, WatcherIs("idle") \/ WatcherIs("ended")
  PROVE  Kept'
<1>1. /\ P' = P /\ SameRows /\ SameWoop /\ SameChecks /\ asked' = asked
      /\ W'.at \in {"idle", "ended"} /\ W'.media = 0 /\ W.media = 0
  BY DEF WatcherIs, StillPosted, Kept, Rest, Recording
<1>2. LateAsks /\ posts' = posts /\ medias' = medias /\ medias <= medias' /\ F' = F
  BY <1>1, WPTypes DEF LateAsks, Unasked, SameWoop, SameChecks, F
<1>3. MediaUnused' /\ MediaApart' /\ MediaOwner'
  BY <1>1, <1>2 DEF Kept, Rest, MediaUnused, MediaApart, MediaOwner, SameRows
<1>4. OldFree'
  BY <1>1 DEF Kept, Rest, OldFree, Busy, SameRows, W
<1>5. PersonAsked'
  BY <1>1, <1>2 DEF Kept, Rest, PersonAsked, Unasked, Exists
<1>6. RowInSend' /\ NoneYet' /\ Recording'
  BY <1>1 DEF RowInSend, NoneYet, Recording, Before, Sending
<1>7. NoWatch'
  BY <1>1, <1>2 DEF Kept, Told, NoWatch
<1> QED
  BY <1>1, <1>2, <1>3, <1>4, <1>5, <1>6, <1>7, QuietRest, QuietTold, QuietWhole DEF Kept, Rest, Told

LEMMA AsideKeeps ==
  ASSUME Types, Types', Kept, Aside
  PROVE  Kept'
<1>1. /\ W' = W /\ P' = P /\ SameRows /\ SameWoop /\ SameChecks /\ asked' = asked /\ send' = send
  BY DEF Aside, StillSends, StillPosted, W, P
<1>2. LateAsks /\ posts' = posts /\ medias' = medias /\ medias <= medias' /\ F' = F
  BY <1>1, WPTypes DEF LateAsks, Unasked, SameWoop, SameChecks, F
<1>3. MediaUnused' /\ MediaApart' /\ MediaOwner' /\ PersonAsked'
  BY <1>1, <1>2 DEF Kept, Rest, MediaUnused, MediaApart, MediaOwner, PersonAsked, Unasked, Exists, SameRows
<1>4. OldFree'
  BY <1>1 DEF Kept, Rest, OldFree, Busy, SameRows
<1>5. RowInSend' /\ NoneYet' /\ Recording'
  BY <1>1, <1>2 DEF Kept, Rest, RowInSend, NoneYet, Recording, Sending, Unasked, Is, Sent, Live, SameRows
<1>6. NoWatch'
  BY <1>1, <1>2 DEF Kept, Told, NoWatch
<1> QED
  BY <1>1, <1>2, <1>3, <1>4, <1>5, <1>6, QuietRest, QuietTold, QuietWhole DEF Kept, Rest, Told

(* A post of the watch is made of an upload no other post has; one of a       *)
(* person only names what the person asked for.                             *)
LEMMA PlacedIs ==
  ASSUME Types, Types', Kept, NEW a \in Senders, NEW r \in Made, Placed(a, r), send[a].at = "creating",
         medias' = medias
  PROVE  /\ posts[r].media = 0 /\ ~Exists(r) /\ Exists(r)' /\ \A p \in Platforms : ~Sent(r, p) /\ ~Live(r, p)
         /\ posts'[r].media = send[a].media /\ send[a].media <= medias
         /\ send[a].media # 0 => \A s \in Made : posts[s].media # send[a].media
         /\ send[a].media = 0 => \A p \in send[a].to : ~Unasked(p)
         /\ \/ send[a] = W /\ W.at = "creating" /\ send[a].media # 0
            \/ send[a] = P /\ P.at = "creating" /\ send[a].media = 0
         /\ \A p \in Platforms : (Sent(r, p)' <=> p \in send[a].to) /\ (Live(r, p)' <=> p \in send[a].to)
         /\ \A s \in Made \ {r} : posts'[s] = posts[s]
<1>1. /\ \/ send[a] = W /\ W.at = "creating" /\ send[a].media # 0
         \/ send[a] = P /\ P.at = "creating" /\ send[a].media = 0
      /\ send[a].media # 0 => \A s \in Made : posts[s].media # send[a].media
      /\ send[a].media = 0 => \A p \in send[a].to : ~Unasked(p)
  <2>1. CASE send[a] = W
    BY <2>1 DEF Kept, Rest, MediaUnused
  <2>2. CASE send[a] = P
    BY <2>2 DEF Kept, Rest, MediaApart, PersonAsked
  <2> QED
    BY <2>1, <2>2 DEF W, P, Senders
<1>2. posts[r].media = 0 /\ posts[r].by = "none" /\ \A p \in Platforms : posts[r].is[p] = "no"
  BY NoneTypes DEF Placed
<1>3. send[a].media <= medias
  BY Fields
<1>4. \A p \in Platforms : (Sent(r, p)' <=> p \in send[a].to) /\ (Live(r, p)' <=> p \in send[a].to)
  BY DEF Placed, Sent, Live
<1>5. \A p \in Platforms : ~Sent(r, p) /\ ~Live(r, p)
  BY <1>2 DEF Sent, Live
<1>6. ~Exists(r) /\ Exists(r)'
  BY <1>2 DEF Exists, Placed, Senders
<1> QED
  BY <1>1, <1>2, <1>3, <1>4, <1>5, <1>6 DEF Placed

(* What was made before stays as it was.                                    *)
LEMMA Elsewhere ==
  ASSUME NEW r \in Made, \A s \in Made \ {r} : posts'[s] = posts[s]
  PROVE  \A s \in Made \ {r} : /\ Exists(s)' <=> Exists(s)
                               /\ \A p \in Platforms : (Sent(s, p)' <=> Sent(s, p)) /\ (Live(s, p)' <=> Live(s, p))
BY DEF Exists, Sent, Live

LEMMA PlacedRest ==
  ASSUME Types, Types', Kept, NEW a \in Senders, NEW r \in Made, Placed(a, r), send[a].at = "creating",
         SameRows, medias' = medias, asked' = asked
  PROVE  PostShape' /\ MediaOne' /\ MediaNamed' /\ Requested' /\ LiveIsBacked'
<1> DEFINE m == send[a].media
           to == send[a].to
<1>1. /\ Exists(r)' /\ \A p \in Platforms : ~Sent(r, p) /\ ~Live(r, p)
      /\ posts'[r].media = m /\ m <= medias
      /\ m # 0 => \A s \in Made : posts[s].media # m
      /\ m = 0 => \A p \in to : ~Unasked(p)
      /\ \A p \in Platforms : (Sent(r, p)' <=> p \in to) /\ (Live(r, p)' <=> p \in to)
      /\ \A s \in Made \ {r} : posts'[s] = posts[s]
  BY PlacedIs
<1>2. \/ send[a] = W /\ W.at = "creating"
      \/ send[a] = P /\ m = 0
  BY PlacedIs
<1>3. \A s \in Made \ {r} : /\ Exists(s)' <=> Exists(s)
                            /\ \A p \in Platforms : (Sent(s, p)' <=> Sent(s, p)) /\ (Live(s, p)' <=> Live(s, p))
  BY <1>1, Elsewhere
<1>4. \A p \in Platforms : Unasked(p)' <=> Unasked(p)
  BY DEF Unasked
<1>5. \A p \in Platforms : p \in to /\ Unasked(p) => Is(p, m)
  BY <1>1, <1>2 DEF Kept, Rest, RowInSend
<1>6. \A p \in Platforms : rows[p].media # 0 /\ rows[p].media = m => p \in to
  BY <1>2 DEF Kept, Rest, MediaOwner
<1> HIDE DEF m, to
<1>7. PostShape'
  <2>1. posts'[r].media <= medias' /\ (posts'[r].media = 0 => \A p \in Platforms : Sent(r, p)' => ~Unasked(p)')
    BY <1>1, <1>4
  <2>2. \A s \in Made \ {r} :
          /\ posts'[s].media <= medias'
          /\ ~Exists(s)' => posts'[s].media = 0 /\ \A p \in Platforms : ~Sent(s, p)'
          /\ posts'[s].media = 0 => \A p \in Platforms : Sent(s, p)' => ~Unasked(p)'
    BY <1>1, <1>3, <1>4 DEF Kept, Rest, PostShape
  <2> QED
    BY <1>1, <2>1, <2>2 DEF PostShape
<1>8. MediaOne'
  BY <1>1 DEF Kept, Rest, MediaOne
<1>9. MediaNamed'
  BY <1>1, <1>3, <1>6 DEF Kept, Rest, MediaNamed, SameRows
<1>10. Requested'
  <2>1. \A p \in Platforms : rows[p].req \in Requests
    BY Fields
  <2>2. \A s \in Made : Exists(s) => Exists(s)'
    BY <1>1, <1>3
  <2> QED
    BY <2>1, <2>2 DEF Kept, Rest, Requested, Requests, SameRows
<1>11. LiveIsBacked'
  BY <1>1, <1>3, <1>4, <1>5 DEF Kept, Rest, LiveIsBacked, Is, SameRows
<1> QED
  BY <1>7, <1>8, <1>9, <1>10, <1>11

LEMMA PlacedTold ==
  ASSUME Types, Types', Kept, NEW a \in Senders, NEW r \in Made, Placed(a, r), send[a].at = "creating",
         SameRows, medias' = medias, asked' = asked, SameChecks
  PROVE  (\A c \in Checkers : Asking(c)' /\ Writing(c)') /\ Finding' /\ AdoptDone' /\ PersonChecks'
<1>1. /\ ~Exists(r) /\ \A p \in Platforms : ~Sent(r, p) /\ ~Live(r, p)
      /\ \A s \in Made \ {r} : posts'[s] = posts[s]
  BY PlacedIs
<1>2. F.media # 0 => posts'[r].media # F.media
  BY PlacedIs DEF Kept, Told, NoWatch
<1>3. \A s \in Made \ {r} : /\ Exists(s)' <=> Exists(s)
                            /\ \A p \in Platforms : (Sent(s, p)' <=> Sent(s, p)) /\ (Live(s, p)' <=> Live(s, p))
  BY <1>1, Elsewhere
<1>4. \A p \in Platforms : Unasked(p)' <=> Unasked(p)
  BY DEF Unasked
<1>5. F' = F /\ \A c \in Checkers : fresh'[c] = fresh[c] /\ doubted'[c] = doubted[c]
  BY DEF SameChecks, F
<1>6. ASSUME NEW c \in Checkers PROVE Asking(c)' /\ Writing(c)'
  <2>1. /\ Asking(c) /\ Writing(c) /\ fresh[c].req \in Requests /\ fresh[c].left \subseteq Platforms
        /\ fresh[c].media # 0 => posts'[r].media # fresh[c].media
    BY <1>2, Fields DEF Kept, Told, PersonChecks, F, Checkers
  <2>2. ASSUME fresh[c].at \in {"asking", "writing"}, fresh[c].req # 0
        PROVE  /\ fresh[c].req \in Made \ {r} /\ posts'[fresh[c].req] = posts[fresh[c].req]
               /\ Exists(fresh[c].req)'
               /\ \A p \in Platforms : /\ Sent(fresh[c].req, p)' <=> Sent(fresh[c].req, p)
                                       /\ Live(fresh[c].req, p)' <=> Live(fresh[c].req, p)
    <3>1. Exists(fresh[c].req) /\ fresh[c].req \in Made
      BY <2>1, <2>2 DEF Asking, Writing, Requests
    <3> QED
      BY <1>1, <1>3, <1>5, <3>1 DEF Exists, Sent, Live
  <2>3. Asking(c)'
    <3>1. fresh[c].at = "asking" => fresh[c].req # 0
      BY <2>1 DEF Asking, Made
    <3> QED
      BY <1>4, <1>5, <2>1, <2>2, <3>1 DEF Asking, SameRows
  <2>4. Writing(c)'
    <3> SUFFICES ASSUME fresh[c].at = "writing" PROVE Writing(c)'
      BY <1>5 DEF Writing
    <3>1. fresh[c].req = 0 /\ fresh[c].media # 0 => \A s \in Made : posts'[s].media # fresh[c].media
      BY <1>1, <2>1 DEF Writing
    <3> QED
      BY <1>4, <1>5, <2>1, <2>2, <3>1 DEF Writing, Is, SameRows
  <2> QED
    BY <2>3, <2>4
<1>7. Finding'
  <2>1. \A s \in Made, p \in Platforms : F.media # 0 /\ posts'[s].media = F.media /\ Sent(s, p)' =>
          posts[s].media = F.media /\ Sent(s, p)
    BY <1>1, <1>2, <1>3
  <2> QED
    BY <1>4, <1>5, <2>1, WPTypes DEF Kept, Told, Finding, Is, SameRows
<1>8. AdoptDone' /\ PersonChecks'
  <2>1. \A s \in Made : Adopting(s)' => s # r /\ Adopting(s)
    <3>1. \A s \in Made : s # 0
      BY DEF Made
    <3> QED
      BY <1>1, <1>5, <3>1, WPTypes DEF Kept, Told, Writing, Adopting, F
  <2> QED
    BY <1>1, <1>3, <1>5, <2>1 DEF Kept, Told, AdoptDone, PersonChecks, Is, SameRows, Checkers
<1> QED
  BY <1>6, <1>7, <1>8

LEMMA PlacedWhole ==
  ASSUME Types, Types', Kept, NEW a \in Senders, NEW r \in Made, Placed(a, r), send[a].at = "creating",
         SameRows, medias' = medias, asked' = asked, SameChecks, W.at = "recording" => W' = W
  PROVE  Whole'
<1>1. /\ \A s \in Made \ {r} : posts'[s] = posts[s]
      /\ posts'[r].media = send[a].media
      /\ \A p \in Platforms : Sent(r, p)' <=> p \in send[a].to
      /\ \/ send[a] = W /\ W.at = "creating"
         \/ send[a].media = 0
  BY PlacedIs
<1>2. Adoptable(r)' \/ posts'[r].media = 0
  <2>1. send[a] = W /\ W.at = "creating" => \A p \in W.to : Unasked(p) => Is(p, W.media)
    BY DEF Kept, Rest, RowInSend
  <2> QED
    BY <1>1, <2>1 DEF Adoptable, Unasked, Is, SameRows
<1>3. \A s \in Made \ {r} : /\ Adoptable(s) => Adoptable(s)'
                            /\ Settled(s) => Settled(s)'
                            /\ Adopting(s) => Adopting(s)'
  BY <1>1 DEF Adoptable, Settled, Adopting, Sent, Unasked, Is, SameRows, SameChecks, F
<1> QED
  BY <1>1, <1>2, <1>3 DEF Kept, Whole

LEMMA CreateKeeps ==
  ASSUME Types, Types', Kept, NEW a \in Senders, Create(a)
  PROVE  Kept'
<1>1. /\ send[a].at = "creating" /\ Others(a) /\ SameRows /\ medias' = medias
      /\ SameChecks /\ asked' = asked
  BY CreateIs
<1>2. PICK r \in Made : /\ Placed(a, r)
                        /\ Has(send'[a], "recording", send[a].to, send[a].to, send[a].media, r)
  BY CreateIs
<1>3. /\ posts[r].media = 0 /\ ~Exists(r) /\ Exists(r)' /\ posts'[r].media = send[a].media
      /\ \A p \in Platforms : (Sent(r, p)' <=> p \in send[a].to) /\ (Live(r, p)' <=> p \in send[a].to)
      /\ \A s \in Made \ {r} : posts'[s] = posts[s]
  BY <1>1, <1>2, PlacedIs
<1>4. \A s \in Made \ {r} : /\ Exists(s)' <=> Exists(s)
                            /\ \A p \in Platforms : (Sent(s, p)' <=> Sent(s, p)) /\ (Live(s, p)' <=> Live(s, p))
  BY <1>3, Elsewhere
<1>5. /\ PostShape' /\ MediaOne' /\ MediaNamed' /\ Requested' /\ LiveIsBacked'
      /\ (\A c \in Checkers : Asking(c)' /\ Writing(c)') /\ Finding' /\ AdoptDone' /\ PersonChecks'
  BY <1>1, <1>2, PlacedRest, PlacedTold
<1>6. F' = F /\ \A p \in Platforms : Unasked(p)' <=> Unasked(p)
  BY <1>1 DEF SameChecks, F, Unasked
<1>7. CASE a = "watcher" /\ send[a] = W /\ send'[a] = W' /\ P' = P
  <2>1. /\ W.at = "creating" /\ W'.at = "recording" /\ W'.to = W.to /\ W'.left = W.to
        /\ W'.media = W.media /\ W'.req = r /\ W.media # 0
    BY <1>1, <1>2, <1>7 DEF Has, Kept, Rest, MediaUnused
  <2>2. MediaUnused' /\ MediaApart' /\ MediaOwner'
    BY <1>1, <1>7, <2>1 DEF Kept, Rest, MediaUnused, MediaApart, MediaOwner, SameRows
  <2>3. OldFree'
    BY <1>1, <2>1 DEF Kept, Rest, OldFree, Busy, SameRows, W
  <2>4. PersonAsked'
    BY <1>3, <1>4, <1>6, <1>7, WPTypes DEF Kept, Rest, PersonAsked
  <2>5. RowInSend' /\ NoneYet'
    BY <1>1, <1>6, <2>1, WPTypes DEF Kept, Rest, RowInSend, NoneYet, Before, Is, SameRows
  <2>6. Recording'
    BY <1>3, <1>7, <2>1 DEF Kept, Rest, Recording, Sending
  <2>7. NoWatch'
    BY <1>1, <1>6, <1>7, <2>1 DEF Kept, Told, NoWatch
  <2>8. Whole'
    BY <1>1, <1>2, <2>1, PlacedWhole
  <2> QED
    BY <1>5, <2>2, <2>3, <2>4, <2>5, <2>6, <2>7, <2>8 DEF Kept, Rest, Told
<1>8. CASE a = "person" /\ send[a] = P /\ send'[a] = P' /\ W' = W
  <2>1. /\ P.at = "creating" /\ P'.at = "recording" /\ P'.to = P.to /\ P'.left = P.to
        /\ P'.media = P.media /\ P'.req = r
    BY <1>1, <1>2, <1>8 DEF Has
  <2>2. MediaApart' /\ MediaOwner' /\ P.media = 0
    BY <1>1, <1>8, <2>1 DEF Kept, Rest, MediaApart, MediaOwner, SameRows
  <2>3. MediaUnused'
    BY <1>3, <1>8, <2>2 DEF Kept, Rest, MediaUnused
  <2>4. OldFree'
    BY <1>1, <1>8 DEF Kept, Rest, OldFree, Busy, SameRows, W
  <2>5. PersonAsked'
    BY <1>1, <1>3, <1>6, <2>1, WPTypes DEF Kept, Rest, PersonAsked
  <2>6. RowInSend'
    BY <1>1, <1>6, <1>8, WPTypes DEF Kept, Rest, RowInSend, Is, SameRows
  <2>7. NoneYet'
    <3>1. \A p \in Platforms : p \in send[a].to => ~Unasked(p)
      BY <1>8 DEF Kept, Rest, PersonAsked
    <3> QED
      BY <1>3, <1>4, <1>6, <1>8, <3>1, WPTypes DEF Kept, Rest, NoneYet
  <2>8. Recording'
    <3>1. W.at = "recording" => W.req # r
      BY <1>3 DEF Kept, Rest, Recording
    <3> QED
      BY <1>1, <1>3, <1>4, <1>8, <3>1 DEF Kept, Rest, Recording, Sending, SameRows
  <2>9. NoWatch'
    BY <1>1, <1>6, <1>8 DEF Kept, Told, NoWatch
  <2>10. Whole'
    BY <1>1, <1>2, <1>8, PlacedWhole
  <2> QED
    BY <1>5, <2>2, <2>3, <2>4, <2>5, <2>6, <2>7, <2>8, <2>9, <2>10 DEF Kept, Rest, Told
<1> QED
  BY <1>1, <1>7, <1>8, Halves

(* The thread lets go, and a post may have been made. What a person makes is  *)
(* nothing to the watch.                                                    *)
LEMMA LetGoKeeps ==
  ASSUME Types, Types', Kept, NEW a \in Senders, send[a].at = "creating", Others(a), SameRows,
         medias' = medias, SameChecks, asked' = asked,
         send'[a].at \in {"idle", "ended"}, send'[a].to = {}, send'[a].left = {}, send'[a].media = 0,
         posts' = posts \/ \E r \in Made : Placed(a, r)
  PROVE  Kept'
<1>1. LateAsks /\ medias <= medias' /\ F' = F /\ \A p \in Platforms : Unasked(p)' <=> Unasked(p)
  BY WPTypes DEF LateAsks, Unasked, SameChecks, F
<1>2. /\ PostShape' /\ MediaOne' /\ MediaNamed' /\ Requested' /\ LiveIsBacked'
      /\ (\A c \in Checkers : Asking(c)' /\ Writing(c)') /\ Finding' /\ AdoptDone' /\ PersonChecks'
  <2>1. CASE posts' = posts
    BY <1>1, <2>1, QuietRest, QuietTold DEF Kept
  <2>2. ASSUME NEW r \in Made, Placed(a, r)
        PROVE  /\ PostShape' /\ MediaOne' /\ MediaNamed' /\ Requested' /\ LiveIsBacked'
               /\ (\A c \in Checkers : Asking(c)' /\ Writing(c)') /\ Finding' /\ AdoptDone' /\ PersonChecks'
    BY <2>2, PlacedRest, PlacedTold
  <2> QED
    BY <2>1, <2>2
<1>3. Whole'
  <2>1. W.at = "recording" => W' = W
    BY Halves
  <2>2. CASE posts' = posts
    BY <1>1, <2>1, <2>2, QuietWhole DEF Kept
  <2>3. ASSUME NEW r \in Made, Placed(a, r) PROVE Whole'
    BY <2>1, <2>3, PlacedWhole
  <2> QED
    BY <2>2, <2>3
(* What was made stays as it was.                                           *)
<1>4. \A s \in Made : Exists(s) => posts'[s] = posts[s] /\ Exists(s)'
  <2>1. ASSUME NEW r \in Made, Placed(a, r) PROVE \A s \in Made : Exists(s) => posts'[s] = posts[s] /\ Exists(s)'
    BY <2>1, PlacedIs, Elsewhere
  <2> QED
    BY <2>1 DEF Exists
<1>5. CASE a = "watcher" /\ send[a] = W /\ send'[a] = W' /\ P' = P
  <2>1. W'.at \in {"idle", "ended"} /\ W'.media = 0
    BY <1>5
  <2>2. MediaUnused' /\ MediaApart' /\ MediaOwner'
    BY <1>5, <2>1 DEF Kept, Rest, MediaUnused, MediaApart, MediaOwner, SameRows
  <2>3. OldFree'
    BY <2>1 DEF Kept, Rest, OldFree, Busy, SameRows, W
  <2>4. PersonAsked'
    BY <1>1, <1>4, <1>5, WPTypes DEF Kept, Rest, PersonAsked
  <2>5. RowInSend' /\ NoneYet' /\ Recording'
    BY <2>1 DEF RowInSend, NoneYet, Recording, Before, Sending
  <2>6. NoWatch'
    BY <1>1, <2>1 DEF Kept, Told, NoWatch
  <2> QED
    BY <1>2, <1>3, <2>2, <2>3, <2>4, <2>5, <2>6 DEF Kept, Rest, Told
<1>6. CASE a = "person" /\ send[a] = P /\ send'[a] = P' /\ W' = W
  <2>1. P'.at \in {"idle", "ended"} /\ P'.media = 0 /\ P'.to = {} /\ P'.left = {}
    BY <1>6
  <2>2. MediaApart' /\ MediaOwner'
    BY <1>6, <2>1 DEF Kept, Rest, MediaApart, MediaOwner, SameRows
  <2>3. MediaUnused'
    <3>1. CASE posts' = posts
      BY <1>6, <3>1 DEF Kept, Rest, MediaUnused
    <3>2. ASSUME NEW r \in Made, Placed(a, r) PROVE MediaUnused'
      <4>1. posts'[r].media = 0 /\ \A s \in Made \ {r} : posts'[s] = posts[s]
        BY <1>6, <3>2, PlacedIs DEF Kept, Rest, MediaApart
      <4> QED
        BY <1>6, <4>1 DEF Kept, Rest, MediaUnused
    <3> QED
      BY <3>1, <3>2
  <2>4. OldFree'
    BY <1>6 DEF Kept, Rest, OldFree, Busy, SameRows, W
  <2>5. PersonAsked'
    BY <2>1 DEF PersonAsked
  <2>6. RowInSend'
    BY <1>1, <1>6, WPTypes DEF Kept, Rest, RowInSend, Is, SameRows
  <2>7. NoneYet'
    <3>1. ASSUME NEW p \in W.to, NEW s \in Made, Unasked(p), Live(s, p)' PROVE Live(s, p)
      <4>1. p \in Platforms /\ p \notin send[a].to
        BY <1>6, <3>1, WPTypes DEF Kept, Rest, PersonAsked
      <4>2. ASSUME NEW r \in Made, Placed(a, r) PROVE Live(s, p)
        <5>1. s # r
          BY <3>1, <4>1, <4>2, PlacedIs
        <5>2. posts'[s] = posts[s]
          BY <4>2, <5>1 DEF Placed
        <5> QED
          BY <3>1, <5>2 DEF Live
      <4> QED
        BY <3>1, <4>2 DEF Live
    <3> QED
      BY <1>1, <1>6, <3>1, WPTypes DEF Kept, Rest, NoneYet
  <2>8. Recording'
    <3>1. W.at = "recording" => W.req \in Made /\ Exists(W.req)
      BY DEF Kept, Rest, Recording, PostShape
    <3>2. W.at = "recording" => posts'[W.req] = posts[W.req]
      BY <1>4, <3>1
    <3> QED
      BY <1>6, <3>2 DEF Kept, Rest, Recording, Sending, Sent, SameRows
  <2>9. NoWatch'
    BY <1>1, <1>6 DEF Kept, Told, NoWatch
  <2> QED
    BY <1>2, <1>3, <2>2, <2>3, <2>4, <2>5, <2>6, <2>7, <2>8, <2>9 DEF Kept, Rest, Told
<1> QED
  BY <1>5, <1>6, Halves

LEMMA UnansweredKeeps ==
  ASSUME Types, Types', Kept, NEW a \in Senders, CreateUnanswered(a)
  PROVE  Kept'
BY UnansweredIs, LetGoKeeps DEF Has

(* An answer of the watch's that can't be read is a post lost sight of.      *)
LEMMA UnreadableKeeps ==
  ASSUME Types, Types', Kept, NEW a \in Senders, Unreadable(a), slips' = {}
  PROVE  Kept'
<1>1. a # "watcher"
  <2>1. ASSUME a = "watcher" PROVE FALSE
    <3>1. slips' = slips \cup W.to /\ W.at = "creating"
      BY <2>1, UnreadableIs DEF W
    <3>2. W.to # {}
      BY <3>1 DEF Kept, Rest, Recording, Sending
    <3> QED
      BY <3>1, <3>2
  <2> QED
    BY <2>1
<1> QED
  BY <1>1, UnreadableIs, LetGoKeeps DEF Has

(* No check has read a row in the watch's hand that the other has not        *)
(* written since.                                                           *)
Free(p) == Unasked(p) => /\ rows[p].state \notin Shown
                         /\ F.media # 0 => ~Is(p, F.media)
                         /\ ~(Is(p, 0) /\ p \in old)

LEMMA InHandIsFree ==
  ASSUME Types, Kept, NEW p \in W.left, W.at \in {"marking", "tagging", "failing", "recording"}
  PROVE  p \in Platforms /\ p \in W.to /\ Free(p)
<1>1. p \in W.to /\ p \in Platforms
  BY WPTypes DEF Kept, Rest, Recording, Sending
<1>2. p \notin old
  BY <1>1 DEF Kept, Rest, OldFree, Busy, W
<1>3. Unasked(p) => \/ rows[p].state \notin Alive
                    \/ Is(p, 0)
                    \/ Is(p, W.media) /\ (W.media = 0 \/ W.media # F.media)
  BY <1>1 DEF Kept, Rest, RowInSend, Told, NoWatch
<1> QED
  BY <1>1, <1>2, <1>3 DEF Free, Is, Alive, Shown

LEMMA WroteTold ==
  ASSUME Types, Types', Kept, NEW p \in Platforms, NEW s, NEW q, NEW m, Wrote(p, s, q, m), Free(p),
         s = "sending" => m = 0 \/ m # F.media, SameWoop, SameChecks, asked' = asked
  PROVE  (\A c \in Checkers : Asking(c)' /\ Writing(c)') /\ Finding' /\ AdoptDone' /\ PersonChecks'
<1>1. \A r \in Made : /\ Exists(r)' <=> Exists(r)
                      /\ \A o \in Platforms : (Sent(r, o)' <=> Sent(r, o)) /\ (Live(r, o)' <=> Live(r, o))
  BY DEF Exists, Sent, Live, SameWoop
<1>2. \A o \in Platforms : Unasked(o)' <=> Unasked(o)
  BY DEF Unasked
<1>3. F' = F /\ \A c \in Checkers : fresh'[c] = fresh[c] /\ doubted'[c] = doubted[c]
  BY DEF SameChecks, F
<1>4. \A o \in Platforms \ {p} : rows'[o] = rows[o] /\ (o \in old => o \in old')
  BY DEF Wrote
<1>5. ASSUME NEW c \in Checkers PROVE Asking(c)' /\ Writing(c)'
  <2>1. /\ Asking(c) /\ Writing(c) /\ fresh[c].req \in Requests /\ fresh[c].left \subseteq Platforms
        /\ Unasked(p) /\ fresh[c].media # 0 => ~Is(p, fresh[c].media)
    BY Fields DEF Kept, Told, PersonChecks, F, Checkers, Free
  <2>2. Asking(c)'
    BY <1>1, <1>2, <1>3, <1>4, <2>1 DEF Asking, Free, SameWoop
  <2>3. Writing(c)'
    <3> SUFFICES ASSUME fresh[c].at = "writing" PROVE Writing(c)'
      BY <1>3 DEF Writing
    <3>1. p \in fresh[c].left /\ Unasked(p) => fresh[c].media = 0 /\ fresh[c].req # 0 /\ p \in doubted[c]
      BY <2>1 DEF Writing, Free
    <3>2. fresh[c].req # 0 => fresh[c].req \in Made
      BY <2>1 DEF Requests
    <3> QED
      BY <1>1, <1>2, <1>3, <1>4, <2>1, <3>1, <3>2 DEF Writing, Is, SameWoop
  <2> QED
    BY <2>2, <2>3
<1>6. Finding'
  BY <1>1, <1>2, <1>3, <1>4, WPTypes DEF Kept, Told, Finding, Free, Is, SameWoop
<1>7. AdoptDone' /\ PersonChecks'
  BY <1>1, <1>3, <1>4 DEF Kept, Told, AdoptDone, Adopting, PersonChecks, Is, Wrote, Checkers
<1> QED
  BY <1>5, <1>6, <1>7

LEMMA WroteOld ==
  ASSUME Types, Kept, NEW p \in Platforms, NEW s, NEW q, NEW m, Wrote(p, s, q, m),
         \A o \in Platforms : Busy(o)' => Busy(o)
  PROVE  OldFree'
BY Fields DEF Wrote, Kept, Rest, OldFree

(* A row the watch has not posted of is in no post's whole.                  *)
LEMMA WroteWhole ==
  ASSUME Types, Kept, NEW p \in Platforms, NEW s, NEW q, NEW m, Wrote(p, s, q, m),
         SameWoop, SameChecks, asked' = asked, W.at # "recording",
         Unasked(p) => \A r \in Made : posts[r].media # 0 => ~Is(p, posts[r].media),
         s = "sending" => \A r \in Made : posts[r].media # 0 => m # posts[r].media
  PROVE  Whole'
<1> SUFFICES ASSUME NEW r \in Made, posts[r].media # 0
             PROVE  Adoptable(r)' \/ Settled(r)' \/ Adopting(r)'
  BY DEF Whole, SameWoop
<1>1. Adoptable(r) => Adoptable(r)'
  BY DEF Adoptable, Sent, Exists, Unasked, Is, Wrote, SameWoop
<1>2. Settled(r) => Settled(r)'
  BY DEF Settled, Is, Wrote, SameWoop
<1>3. Adopting(r) => Adopting(r)'
  BY DEF Adopting, SameChecks, F
<1> QED
  BY <1>1, <1>2, <1>3 DEF Kept, Whole

LEMMA MarkKeeps ==
  ASSUME Types, Types', Kept, NEW p \in Platforms, Mark(p)
  PROVE  Kept'
<1>1. /\ W.at = "marking" /\ p \in W.left /\ P' = P /\ SameWoop /\ SameChecks /\ asked' = asked
      /\ Wrote(p, "sending", 0, 0) /\ Goes(W, W', p, "marking", "uploading", "ended")
  BY MarkIs
<1>2. /\ p \in W.to /\ Free(p) /\ (Unasked(p) => rows[p].state \notin Alive) /\ W.media = 0
  BY <1>1, InHandIsFree DEF Kept, Rest, RowInSend, Recording
<1>3. /\ W'.at = "marking" \/ (W'.at = "uploading" /\ W.left = {p})
      /\ W'.to = W.to /\ W'.left = W.left \ {p} /\ W'.media = 0
  BY <1>1, <1>2 DEF Goes, Has
<1>4. /\ rows'[p].state = "sending" /\ rows'[p].req = 0 /\ rows'[p].media = 0
      /\ \A o \in Platforms \ {p} : rows'[o] = rows[o]
  BY <1>1 DEF Wrote
<1>5. PostShape' /\ MediaOne' /\ MediaUnused'
  BY <1>1, <1>3 DEF Kept, Rest, PostShape, MediaOne, MediaUnused, Sent, Exists, Unasked, SameWoop
<1>6. MediaApart' /\ MediaOwner' /\ MediaNamed' /\ Requested'
  BY <1>1, <1>3, <1>4, WPTypes DEF Kept, Rest, MediaApart, MediaOwner, MediaNamed, Requested, Sent, Exists, SameWoop
<1>7. OldFree'
  BY <1>1, <1>3, WroteOld DEF Busy, W
<1>8. PersonAsked'
  BY <1>1 DEF Kept, Rest, PersonAsked, Exists, Unasked, SameWoop
<1>9. RowInSend'
  BY <1>1, <1>2, <1>3, <1>4, WPTypes DEF Kept, Rest, RowInSend, Unasked, Is
<1>10. Recording'
  BY <1>1, <1>2, <1>3 DEF Kept, Rest, Recording, Sending
<1>11. NoneYet'
  BY <1>1, <1>3 DEF Kept, Rest, NoneYet, Before, Unasked, Live, SameWoop
<1>12. LiveIsBacked'
  BY <1>1, <1>2, <1>4 DEF Kept, Rest, LiveIsBacked, NoneYet, Before, Unasked, Is, Live, SameWoop
<1>13. NoWatch'
  BY <1>1, <1>3 DEF Kept, Told, NoWatch, SameChecks, F, SameWoop
<1>14. (\A c \in Checkers : Asking(c)' /\ Writing(c)') /\ Finding' /\ AdoptDone' /\ PersonChecks'
  BY <1>1, <1>2, WroteTold
<1>15. Whole'
  BY <1>1, <1>2, WroteWhole DEF Is, Alive
<1> QED
  BY <1>5, <1>6, <1>7, <1>8, <1>9, <1>10, <1>11, <1>12, <1>13, <1>14, <1>15 DEF Kept, Rest, Told

LEMMA TagKeeps ==
  ASSUME Types, Types', Kept, NEW p \in Platforms, Tag(p)
  PROVE  Kept'
<1>1. /\ W.at = "tagging" /\ p \in W.left /\ P' = P /\ SameWoop /\ SameChecks /\ asked' = asked
      /\ Wrote(p, rows[p].state, rows[p].req, W.media)
      /\ Goes(W, W', p, "tagging", "creating", "ended")
  BY TagIs
<1>2. /\ p \in W.to /\ Free(p) /\ (Unasked(p) => Is(p, 0)) /\ W.media # 0
      /\ \A r \in Made : posts[r].media # W.media
  BY <1>1, InHandIsFree DEF Kept, Rest, RowInSend, MediaUnused
<1>3. /\ W'.at = "tagging" \/ (W'.at = "creating" /\ W.left = {p})
      /\ W'.to = W.to /\ W'.left = W.left \ {p} /\ W'.media = W.media
  BY <1>1 DEF Goes, Has
<1>4. /\ rows'[p].state = rows[p].state /\ rows'[p].req = rows[p].req /\ rows'[p].media = W.media
      /\ \A o \in Platforms \ {p} : rows'[o] = rows[o]
  BY <1>1 DEF Wrote
<1>5. PostShape' /\ MediaOne' /\ MediaUnused'
  BY <1>1, <1>2, <1>3 DEF Kept, Rest, PostShape, MediaOne, MediaUnused, Sent, Exists, Unasked, SameWoop
<1>6. MediaApart' /\ MediaOwner' /\ MediaNamed' /\ Requested'
  <2>1. MediaApart'
    <3>1. W.media <= medias' /\ medias' = medias
      BY <1>1, WPTypes DEF Kept, Rest, MediaApart, SameWoop
    <3> QED
      BY <1>1, <1>3, <1>4, <3>1 DEF Kept, Rest, MediaApart
  <2>2. MediaOwner' /\ MediaNamed' /\ Requested'
    BY <1>1, <1>2, <1>3, <1>4 DEF Kept, Rest, MediaOwner, MediaNamed, Requested, Sent, Exists, SameWoop
  <2> QED
    BY <2>1, <2>2
<1>7. OldFree'
  BY <1>1, <1>3, WroteOld DEF Busy, W
<1>8. PersonAsked'
  BY <1>1 DEF Kept, Rest, PersonAsked, Exists, Unasked, SameWoop
<1>9. RowInSend'
  BY <1>1, <1>2, <1>3, <1>4, WPTypes DEF Kept, Rest, RowInSend, Unasked, Is
<1>10. Recording'
  BY <1>1, <1>2, <1>3 DEF Kept, Rest, Recording, Sending
<1>11. NoneYet'
  BY <1>1, <1>3 DEF Kept, Rest, NoneYet, Before, Unasked, Live, SameWoop
<1>12. LiveIsBacked'
  BY <1>1, <1>2, <1>4 DEF Kept, Rest, LiveIsBacked, NoneYet, Before, Unasked, Is, Live, SameWoop
<1>13. NoWatch'
  BY <1>1, <1>3 DEF Kept, Told, NoWatch, SameChecks, F, SameWoop
<1>14. (\A c \in Checkers : Asking(c)' /\ Writing(c)') /\ Finding' /\ AdoptDone' /\ PersonChecks'
  <2>1. W.media # F.media
    BY <1>2 DEF Kept, Told, NoWatch, SameChecks, F
  <2> QED
    BY <1>1, <1>2, <2>1, WroteTold
<1>15. Whole'
  BY <1>1, <1>2, WroteWhole DEF Is
<1> QED
  BY <1>5, <1>6, <1>7, <1>8, <1>9, <1>10, <1>11, <1>12, <1>13, <1>14, <1>15 DEF Kept, Rest, Told

LEMMA FailKeeps ==
  ASSUME Types, Types', Kept, NEW p \in Platforms, Fail(p)
  PROVE  Kept'
<1>1. /\ W.at = "failing" /\ p \in W.left /\ P' = P /\ SameWoop /\ SameChecks /\ asked' = asked
      /\ Wrote(p, "failed", rows[p].req, rows[p].media)
      /\ Goes(W, W', p, "failing", "over", "ended")
  BY FailIs
<1>2. /\ p \in W.to /\ Free(p) /\ (Unasked(p) => Is(p, W.media))
      /\ W.media # 0 => \A r \in Made : posts[r].media # W.media
  BY <1>1, InHandIsFree DEF Kept, Rest, RowInSend, MediaUnused
<1>3. \/ W'.at = "failing" /\ W'.to = W.to /\ W'.left = W.left \ {p} /\ W'.media = W.media
      \/ W'.at = "ended" /\ W'.media = 0
  BY <1>1 DEF Goes, Has
<1>4. /\ rows'[p].state = "failed" /\ rows'[p].req = rows[p].req /\ rows'[p].media = rows[p].media
      /\ \A o \in Platforms \ {p} : rows'[o] = rows[o]
  BY <1>1 DEF Wrote
<1>5. PostShape' /\ MediaOne' /\ MediaUnused'
  BY <1>1, <1>2, <1>3 DEF Kept, Rest, PostShape, MediaOne, MediaUnused, Sent, Exists, Unasked, SameWoop
<1>6. MediaApart' /\ MediaOwner' /\ MediaNamed' /\ Requested'
  BY <1>1, <1>2, <1>3, <1>4 DEF Kept, Rest, MediaApart, MediaOwner, MediaNamed, Requested, Sent, Exists, SameWoop
<1>7. OldFree'
  BY <1>1, <1>3, WroteOld DEF Busy, W
<1>8. PersonAsked'
  BY <1>1 DEF Kept, Rest, PersonAsked, Exists, Unasked, SameWoop
<1>9. RowInSend'
  BY <1>1, <1>2, <1>3, <1>4, WPTypes DEF Kept, Rest, RowInSend, Unasked, Is
<1>10. Recording'
  BY <1>1, <1>2, <1>3 DEF Kept, Rest, Recording, Sending
<1>11. NoneYet'
  BY <1>1, <1>3 DEF Kept, Rest, NoneYet, Before, Unasked, Live, SameWoop
<1>12. LiveIsBacked'
  BY <1>1, <1>2, <1>4 DEF Kept, Rest, LiveIsBacked, NoneYet, Before, Unasked, Is, Live, SameWoop
<1>13. NoWatch'
  BY <1>1, <1>3 DEF Kept, Told, NoWatch, SameChecks, F, SameWoop
<1>14. (\A c \in Checkers : Asking(c)' /\ Writing(c)') /\ Finding' /\ AdoptDone' /\ PersonChecks'
  BY <1>1, <1>2, WroteTold
<1>15. Whole'
  BY <1>1, <1>2, WroteWhole DEF Is
<1> QED
  BY <1>5, <1>6, <1>7, <1>8, <1>9, <1>10, <1>11, <1>12, <1>13, <1>14, <1>15 DEF Kept, Rest, Told

LEMMA RecordKeeps ==
  ASSUME Types, Types', Kept, NEW a \in Senders, NEW p \in Platforms, Record(a, p)
  PROVE  Kept'
<1>1. /\ send[a].at = "recording" /\ p \in send[a].left /\ Others(a)
      /\ SameWoop /\ SameChecks /\ asked' = asked
      /\ Goes(send[a], send'[a], p, "recording", "over", IF a = "watcher" THEN "ended" ELSE "idle")
  BY RecordIs
<1>0. PICK state \in {"processing", Outcome(send[a].req, p)} :
        Wrote(p, state, send[a].req, rows[p].media)
  BY RecordIs
<1>9. state \in Shown \cup {"failed"} /\ (Live(send[a].req, p) => state \in Shown)
  BY OutcomeIs DEF Shown, Live
<1>2. /\ rows'[p].state = state /\ rows'[p].req = send[a].req /\ rows'[p].media = rows[p].media
      /\ \A o \in Platforms \ {p} : rows'[o] = rows[o]
  BY <1>0 DEF Wrote
<1>3. PostShape' /\ MediaOne' /\ MediaNamed'
  BY <1>1, <1>2, <1>9 DEF Kept, Rest, PostShape, MediaOne, MediaNamed, Sent, Exists, Unasked, SameWoop
<1>4. CASE a = "watcher" /\ send[a] = W /\ send'[a] = W' /\ P' = P
  <2>1. /\ W.at = "recording" /\ p \in W.left /\ p \in W.to /\ Free(p)
        /\ Unasked(p) => Is(p, W.media)
        /\ W.req \in Made /\ posts[W.req].media = W.media /\ W.media # 0 /\ Exists(W.req)
        /\ \A o \in Platforms : Sent(W.req, o) <=> o \in W.to
        /\ \A o \in W.to \ W.left : rows[o].state # "sending"
    BY <1>1, <1>4, InHandIsFree DEF Kept, Rest, RowInSend, Recording, PostShape
  <2>2. \/ /\ W'.at = "recording" /\ W'.to = W.to /\ W'.left = W.left \ {p} /\ W'.media = W.media
           /\ W'.req = W.req
        \/ W'.at = "ended" /\ W'.media = 0 /\ W.left = {p}
    BY <1>1, <1>4, <2>1 DEF Goes, Has
  <2>3. MediaUnused'
    BY <1>1, <1>4, <2>2 DEF Kept, Rest, MediaUnused, SameWoop
  <2>4. MediaApart' /\ MediaOwner'
    BY <1>1, <1>2, <1>9, <1>4, <2>2 DEF Kept, Rest, MediaApart, MediaOwner, SameWoop
  <2>5. Requested'
    BY <1>1, <1>2, <1>9, <1>4, <2>1 DEF Kept, Rest, Requested, Exists, Shown, SameWoop
  <2>6. OldFree'
    <3>1. \A o \in Platforms : Busy(o)' => Busy(o)
      BY <2>1, <2>2 DEF Busy, W
    <3> QED
      BY <1>0, <1>1, <3>1, WroteOld
  <2>7. PersonAsked'
    BY <1>1, <1>4 DEF Kept, Rest, PersonAsked, Exists, Unasked, SameWoop
  <2>8. RowInSend'
    <3>1. CASE W'.at = "recording" /\ W'.to = W.to /\ W'.left = W.left \ {p} /\ W'.media = W.media
      BY <1>1, <1>2, <1>9, <2>1, <3>1, WPTypes DEF Kept, Rest, RowInSend, Unasked, Is
    <3>2. CASE W'.at = "ended"
      BY <3>2 DEF RowInSend
    <3> QED
      BY <2>2, <3>1, <3>2
  <2>9. Recording'
    <3>1. CASE W'.at = "recording" /\ W'.to = W.to /\ W'.left = W.left \ {p} /\ W'.media = W.media
               /\ W'.req = W.req
      BY <1>1, <1>2, <1>9, <2>1, <3>1, WPTypes DEF Kept, Rest, Recording, Sending, Sent, Exists, Shown, SameWoop
    <3>2. CASE W'.at = "ended" /\ W'.media = 0
      BY <3>2 DEF Recording, Sending
    <3> QED
      BY <2>2, <3>1, <3>2
  <2>10. NoneYet'
    BY <2>2 DEF NoneYet, Before
  <2>11. LiveIsBacked'
    <3>1. ASSUME NEW r \in Made, Unasked(p), Live(r, p) PROVE r = W.req
      <4>1. Is(p, posts[r].media)
        BY <2>1, <3>1 DEF Kept, Rest, LiveIsBacked, Is, Shown
      <4> QED
        BY <2>1, <3>1, <4>1 DEF Kept, Rest, MediaOne, Is
    <3> QED
      BY <1>1, <1>2, <1>9, <1>4, <3>1 DEF Kept, Rest, LiveIsBacked, Unasked, Is, Live, Shown, SameWoop
  <2>12. NoWatch'
    BY <1>1, <1>4, <2>2 DEF Kept, Told, NoWatch, SameChecks, F, SameWoop
  <2>13. (\A c \in Checkers : Asking(c)' /\ Writing(c)') /\ Finding' /\ AdoptDone' /\ PersonChecks'
    BY <1>0, <1>1, <1>9, <2>1, WroteTold DEF Shown
  <2>14. Whole'
    <3> SUFFICES ASSUME NEW r \in Made, posts[r].media # 0
                 PROVE  Adoptable(r)' \/ Settled(r)' \/ Adopting(r)' \/ (W'.at = "recording" /\ W'.req = r)
      BY <1>1 DEF Whole, SameWoop
    <3>1. CASE r = W.req
      <4>1. CASE W'.at = "ended" /\ W.left = {p}
        <5>1. \A o \in Platforms : rows[o].media = W.media => o = p \/ rows[o].state # "sending"
          BY <2>1, <4>1 DEF Kept, Rest, MediaOwner
        <5>2. Settled(r)'
          BY <1>1, <1>2, <1>9, <2>1, <3>1, <5>1 DEF Settled, Is, Shown, SameWoop
        <5> QED
          BY <5>2
      <4> QED
        BY <2>2, <3>1, <4>1
    <3>2. CASE r # W.req
      <4>1. posts[r].media # W.media
        BY <2>1, <3>2 DEF Kept, Rest, MediaOne
      <4>2. Adoptable(r) => Adoptable(r)'
        BY <1>1, <1>2, <1>9, <2>1, <4>1 DEF Adoptable, Sent, Exists, Unasked, Is, SameWoop
      <4>3. Settled(r) => Settled(r)'
        BY <1>1, <1>2, <1>9 DEF Settled, Is, Shown, SameWoop
      <4>4. Adopting(r) => Adopting(r)'
        BY <1>1 DEF Adopting, SameChecks, F
      <4> QED
        BY <3>2, <4>2, <4>3, <4>4 DEF Kept, Whole
    <3> QED
      BY <3>1, <3>2
  <2> QED
    BY <1>3, <2>3, <2>4, <2>5, <2>6, <2>7, <2>8, <2>9, <2>10, <2>11, <2>12, <2>13, <2>14
       DEF Kept, Rest, Told
<1>5. CASE a = "person" /\ send[a] = P /\ send'[a] = P' /\ W' = W
  <2>1. P.at = "recording" /\ ~Unasked(p) /\ Free(p) /\ P.req \in Made /\ Exists(P.req)
    BY <1>1, <1>5 DEF Kept, Rest, PersonAsked, Exists, Free
  <2>2. \/ /\ P'.at = "recording" /\ P'.to = P.to /\ P'.left = P.left \ {p} /\ P'.media = P.media
           /\ P'.req = P.req
        \/ P'.at = "idle" /\ P'.media = 0 /\ P'.to = {} /\ P'.left = {}
    BY <1>1, <1>5, <2>1 DEF Goes, Has
  <2>3. MediaUnused'
    BY <1>1, <1>5, <2>2 DEF Kept, Rest, MediaUnused, SameWoop
  <2>4. MediaApart' /\ MediaOwner'
    BY <1>1, <1>2, <1>9, <1>5, <2>2 DEF Kept, Rest, MediaApart, MediaOwner, SameWoop
  <2>5. Requested'
    BY <1>1, <1>2, <1>9, <1>5, <2>1 DEF Kept, Rest, Requested, Exists, Shown, SameWoop
  <2>6. OldFree'
    BY <1>0, <1>1, <1>5, WroteOld DEF Busy, W
  <2>7. PersonAsked'
    <3>1. CASE P'.at = "recording" /\ P'.to = P.to /\ P'.left = P.left \ {p} /\ P'.req = P.req
      BY <1>1, <2>1, <3>1 DEF Kept, Rest, PersonAsked, Exists, Unasked, SameWoop
    <3>2. CASE P'.at = "idle" /\ P'.to = {} /\ P'.left = {}
      BY <3>2 DEF PersonAsked, Exists
    <3> QED
      BY <2>2, <3>1, <3>2
  <2>8. RowInSend'
    BY <1>1, <1>2, <1>9, <1>5, <2>1, WPTypes DEF Kept, Rest, RowInSend, Unasked, Is
  <2>9. Recording'
    BY <1>1, <1>2, <1>9, <1>5, WPTypes DEF Kept, Rest, Recording, Sending, Sent, Exists, Shown, SameWoop
  <2>10. NoneYet'
    BY <1>1, <1>5 DEF Kept, Rest, NoneYet, Unasked, Live, SameWoop
  <2>11. LiveIsBacked'
    BY <1>1, <1>2, <1>9, <2>1 DEF Kept, Rest, LiveIsBacked, Unasked, Is, Live, SameWoop
  <2>12. NoWatch'
    BY <1>1, <1>5, <2>2 DEF Kept, Told, NoWatch, SameChecks, F, SameWoop
  <2>13. (\A c \in Checkers : Asking(c)' /\ Writing(c)') /\ Finding' /\ AdoptDone' /\ PersonChecks'
    BY <1>0, <1>1, <1>9, <2>1, WroteTold DEF Shown
  <2>14. Whole'
    <3> SUFFICES ASSUME NEW r \in Made, posts[r].media # 0
                 PROVE  Adoptable(r)' \/ Settled(r)' \/ Adopting(r)' \/ (W'.at = "recording" /\ W'.req = r)
      BY <1>1 DEF Whole, SameWoop
    <3>1. Adoptable(r) => Adoptable(r)'
      BY <1>1, <1>2, <1>9, <2>1 DEF Adoptable, Sent, Exists, Unasked, Is, SameWoop
    <3>2. Settled(r) => Settled(r)'
      BY <1>1, <1>2, <1>9 DEF Settled, Is, Shown, SameWoop
    <3>3. Adopting(r) => Adopting(r)'
      BY <1>1 DEF Adopting, SameChecks, F
    <3> QED
      BY <1>5, <3>1, <3>2, <3>3 DEF Kept, Whole
  <2> QED
    BY <1>3, <2>3, <2>4, <2>5, <2>6, <2>7, <2>8, <2>9, <2>10, <2>11, <2>12, <2>13, <2>14
       DEF Kept, Rest, Told
<1> QED
  BY <1>1, <1>4, <1>5, Halves

-----------------------------------------------------------------------------
(* The steps of the publisher's thread leave the sends and the posts alone.  *)
LEMMA ThreadRest ==
  ASSUME Types, Types', Rest, SameRows, StillSends
  PROVE  Rest' /\ W' = W /\ P' = P
<1>1. W' = W /\ P' = P /\ SameWoop /\ asked' = asked /\ send' = send
  BY DEF StillSends, StillPosted, W, P
<1>2. LateAsks /\ posts' = posts /\ medias' = medias /\ medias <= medias'
  BY <1>1, WPTypes DEF LateAsks, Unasked, SameWoop
<1>3. MediaUnused' /\ MediaApart' /\ MediaOwner' /\ PersonAsked'
  BY <1>1, <1>2 DEF Rest, MediaUnused, MediaApart, MediaOwner, PersonAsked, Exists, Unasked, SameRows
<1>4. OldFree'
  BY <1>1 DEF Rest, OldFree, Busy, SameRows
<1>5. RowInSend' /\ NoneYet' /\ Recording'
  BY <1>1, <1>2 DEF Rest, RowInSend, NoneYet, Recording, Sending, Unasked, Is, Sent, Exists, Live, SameRows
<1> QED
  BY <1>1, <1>2, <1>3, <1>4, <1>5, QuietRest DEF Rest

LEMMA ThreadWhole ==
  ASSUME Types, Whole, SameRows, StillSends, \A r \in Made : Adopting(r) => Adopting(r)'
  PROVE  Whole'
<1>1. W' = W /\ posts' = posts /\ asked' = asked
  BY DEF StillSends, StillPosted, SameWoop, W
<1>2. \A r \in Made : (Adoptable(r) => Adoptable(r)') /\ (Settled(r) => Settled(r)')
  BY <1>1 DEF Adoptable, Settled, Sent, Exists, Unasked, Is, SameRows
<1> QED
  BY <1>1, <1>2 DEF Whole

LEMMA AgeKeeps ==
  ASSUME Types, Types', Kept, NEW p \in Platforms, Age(p)
  PROVE  Kept'
<1>1. /\ rows[p].state = "sending" /\ ~Busy(p) /\ rows' = rows /\ old' = old \cup {p}
      /\ SameChecks /\ W' = W /\ P' = P /\ send' = send /\ SameWoop /\ asked' = asked
  BY AgeIs DEF StillSends, StillPosted, W, P
<1>2. PostShape' /\ MediaOne' /\ MediaNamed' /\ Requested' /\ LiveIsBacked'
  BY <1>1 DEF Kept, Rest, PostShape, MediaOne, MediaNamed, Requested, LiveIsBacked, Unasked, Is, Sent, Exists, Live,
              SameWoop
<1>3. MediaUnused' /\ MediaApart' /\ MediaOwner' /\ PersonAsked'
  BY <1>1 DEF Kept, Rest, MediaUnused, MediaApart, MediaOwner, PersonAsked, Exists, Unasked, SameWoop
<1>4. OldFree'
  BY <1>1 DEF Kept, Rest, OldFree, Busy
<1>5. RowInSend' /\ NoneYet' /\ Recording'
  BY <1>1 DEF Kept, Rest, RowInSend, NoneYet, Recording, Sending, Unasked, Is, Sent, Exists, Live, SameWoop
<1>6. NoWatch' /\ Finding' /\ AdoptDone' /\ PersonChecks'
  BY <1>1, WPTypes DEF Kept, Told, NoWatch, SameChecks, F, Finding, AdoptDone, Adopting, PersonChecks, Unasked,
                       Is, Sent, SameWoop, Checkers
<1>7. \A c \in Checkers : Asking(c)' /\ Writing(c)'
  <2> SUFFICES ASSUME NEW c \in Checkers PROVE Asking(c)' /\ Writing(c)'
    OBVIOUS
  <2>1. Asking(c) /\ Writing(c) /\ fresh'[c] = fresh[c] /\ doubted'[c] = doubted[c]
    BY <1>1 DEF Kept, Told, SameChecks
  <2>2. Asking(c)'
    BY <1>1, <2>1 DEF Asking, Unasked, Exists, Live, SameWoop
  <2>3. Writing(c)'
    BY <1>1, <2>1 DEF Writing, Unasked, Is, Sent, Exists, Live, SameWoop
  <2> QED
    BY <2>2, <2>3
<1>8. Whole'
  BY <1>1 DEF Kept, Whole, Adoptable, Settled, Adopting, SameChecks, F, Unasked, Is, Sent, Exists, SameWoop
<1> QED
  BY <1>2, <1>3, <1>4, <1>5, <1>6, <1>7, <1>8 DEF Kept, Rest, Told

-----------------------------------------------------------------------------
(* What one check reads leaves the sends, the posts and the other check       *)
(* alone.                                                                   *)
LEMMA ThreadKeeps ==
  ASSUME Types, Types', Kept, NEW c \in Checkers, SameRows, StillSends, Apart1(c),
         \A d \in Checkers \ {c} : doubted[d] \subseteq doubted'[d],
         Asking(c)', Writing(c)',
         c = "publisher" => /\ NoWatch' /\ Finding' /\ AdoptDone'
                            /\ \A r \in Made : Adopting(r) => Adopting(r)',
         c = "person" => PersonChecks'
  PROVE  Kept'
<1>1. Rest' /\ W' = W /\ P' = P
  BY ThreadRest DEF Kept
<1>2. LateAsks /\ posts' = posts /\ medias' = medias
  BY DEF LateAsks, Unasked, StillSends, StillPosted, SameWoop
<1>3. \A d \in Checkers \ {c} : fresh'[d] = fresh[d] /\ Asking(d)' /\ Writing(d)'
  <2> SUFFICES ASSUME NEW d \in Checkers \ {c} PROVE fresh'[d] = fresh[d] /\ Asking(d)' /\ Writing(d)'
    OBVIOUS
  <2>1. fresh'[d] = fresh[d] /\ Asking(d) /\ Writing(d) /\ doubted[d] \subseteq doubted'[d]
    BY DEF Apart1, Kept, Told
  <2> QED
    BY <1>2, <2>1, QuietCheck
<1>4. CASE c = "publisher"
  <2>1. PersonChecks'
    BY <1>3, <1>4 DEF PersonChecks, Kept, Told, Checkers
  <2>2. Whole'
    BY <1>4, ThreadWhole DEF Kept
  <2> QED
    BY <1>1, <1>3, <1>4, <2>1, <2>2 DEF Kept, Told
<1>5. CASE c = "person"
  <2>1. F' = F
    BY <1>3, <1>5 DEF F, Checkers
  <2>2. NoWatch' /\ Finding' /\ AdoptDone'
    BY <1>1, <1>2, <2>1, WPTypes DEF Kept, Told, NoWatch, Finding, AdoptDone, Adopting, LateAsks, Unasked, Is,
                                     Sent, SameRows
  <2>3. Whole'
    BY <2>1, ThreadWhole DEF Kept, Adopting
  <2> QED
    BY <1>1, <1>3, <1>5, <2>2, <2>3 DEF Kept, Told
<1> QED
  BY <1>4, <1>5 DEF Checkers

LEMMA AskKeeps ==
  ASSUME Types, Types', Kept, NEW r \in Made, NEW c \in Checkers, ReadRows(c, r),
         \E p \in Platforms : rows[p].req = r
  PROVE  Kept'
<1>1. /\ fresh[c].at = "idle" /\ SameRows /\ StillSends /\ Apart1(c) /\ NewDoubts(c)
      /\ fresh'[c].at = "asking" /\ fresh'[c].req = r /\ fresh'[c].media = 0
      /\ \A p \in Platforms : fresh'[c].known[p] = IF rows[p].req = r THEN rows[p].state ELSE "no"
  BY AskIs DEF Holds
<1>2. /\ r # 0 /\ Exists(r) /\ rows' = rows /\ posts' = posts
      /\ \A p \in Platforms : Unasked(p)' <=> Unasked(p)
  BY <1>1 DEF Kept, Rest, Requested, Made, SameRows, StillSends, StillPosted, SameWoop, Unasked
<1>3. ASSUME NEW p \in Platforms, Unasked(p), fresh'[c].known[p] # "no"
      PROVE  \/ fresh'[c].known[p] \in Shown /\ rows[p].state = fresh'[c].known[p] /\ rows[p].req = r
             \/ fresh'[c].known[p] = "failed" /\ ~Live(r, p)
  <2>1. rows[p].req = r /\ fresh'[c].known[p] = rows[p].state
    BY <1>1, <1>3
  <2>2. rows[p].state \in Shown \cup {"failed"}
    BY <1>2, <2>1, Fields DEF Kept, Rest, Requested, States, Shown
  <2>3. rows[p].state = "failed" => ~Live(r, p)
    BY <1>3 DEF Kept, Rest, LiveIsBacked, Is, Shown
  <2> QED
    BY <2>1, <2>2, <2>3
<1>4. Asking(c)' /\ Writing(c)'
  BY <1>1, <1>2, <1>3 DEF Asking, Writing, Exists, Live
<1>5. c = "publisher" => /\ NoWatch' /\ Finding' /\ AdoptDone'
                         /\ \A s \in Made : Adopting(s) => Adopting(s)'
  BY <1>1, WPTypes DEF NoWatch, Finding, AdoptDone, Adopting, F, StillSends, StillPosted, SameWoop
<1>6. c = "person" => PersonChecks'
  BY <1>1 DEF PersonChecks
<1>7. \A d \in Checkers \ {c} : doubted[d] \subseteq doubted'[d]
  BY <1>1 DEF NewDoubts
<1> QED
  BY <1>1, <1>4, <1>5, <1>6, <1>7, ThreadKeeps

LEMMA IdleKeeps ==
  ASSUME Types, Types', Kept, NEW c \in Checkers, fresh[c].at # "writing", SameRows, StillSends, Apart1(c),
         \A d \in Checkers \ {c} : doubted[d] \subseteq doubted'[d], Holds(c, "idle", 0, 0, {})
  PROVE  Kept'
<1>1. fresh'[c].at = "idle" /\ fresh'[c].media = 0
  BY DEF Holds
<1>2. Asking(c)' /\ Writing(c)'
  BY <1>1 DEF Asking, Writing
<1>3. c = "publisher" => /\ NoWatch' /\ Finding' /\ AdoptDone'
                         /\ \A s \in Made : Adopting(s) => Adopting(s)'
  BY <1>1, WPTypes DEF NoWatch, Finding, AdoptDone, Adopting, F, StillSends, StillPosted, SameWoop
<1>4. c = "person" => PersonChecks'
  BY <1>1 DEF PersonChecks
<1> QED
  BY <1>2, <1>3, <1>4, ThreadKeeps

LEMMA UnreachableKeeps ==
  ASSUME Types, Types', Kept, NEW c \in Checkers, Unreachable(c)
  PROVE  Kept'
<1>1. fresh[c].at # "writing"
  BY DEF Unreachable
<1> QED
  BY <1>1, UnreachableIs, IdleKeeps DEF NewDoubts

LEMMA HearKeeps ==
  ASSUME Types, Types', Kept, NEW c \in Checkers, Hear(c)
  PROVE  Kept'
<1> DEFINE r == fresh[c].req
           left == News(r, fresh[c].known)
<1>1. /\ fresh[c].at = "asking" /\ SameRows /\ StillSends /\ Apart1(c) /\ doubted' = doubted
      /\ \/ Holds(c, "idle", 0, 0, {})
         \/ /\ Holds(c, "writing", r, fresh[c].media, left)
            /\ \A p \in left : fresh'[c].known[p] = Outcome(r, p)
  BY HearIs
<1>2. CASE Holds(c, "idle", 0, 0, {})
  BY <1>1, <1>2, IdleKeeps
<1>3. CASE /\ Holds(c, "writing", r, fresh[c].media, left)
           /\ \A p \in left : fresh'[c].known[p] = Outcome(r, p)
  <2>1. /\ posts' = posts /\ rows' = rows /\ medias' = medias
        /\ \A p \in Platforms : Unasked(p)' <=> Unasked(p)
    BY <1>1 DEF StillSends, StillPosted, SameWoop, SameRows, Unasked
  <2>2. r \in Made /\ r # 0 /\ fresh[c].media = 0 /\ Exists(r) /\ Asking(c)
    BY <1>1 DEF Kept, Told, Asking, Made
  <2>3. ASSUME NEW p \in left
        PROVE  /\ p \in Platforms /\ fresh'[c].known[p] \in Shown \cup {"failed"} /\ Sent(r, p)
               /\ fresh'[c].known[p] = "failed" => ~Live(r, p)
               /\ Unasked(p) => p \in doubted'[c] \/ (rows[p].state \in Shown /\ rows[p].req = r)
    <3>1. /\ p \in Platforms /\ fresh[c].known[p] # "no" /\ Sent(r, p) /\ fresh[c].known[p] # Outcome(r, p)
          /\ fresh'[c].known[p] = Outcome(r, p)
      BY <1>3, <2>3 DEF News, Sent
    <3>2. /\ Outcome(r, p) \in Shown \cup {"failed"}
          /\ Outcome(r, p) = "failed" <=> posts[r].is[p] = "rejected"
      BY OutcomeIs DEF Shown
    <3>3. Outcome(r, p) = "failed" => ~Live(r, p)
      BY <3>2 DEF Live
    <3>4. ~Live(r, p) => Outcome(r, p) = "failed"
      BY <2>2, <3>1, <3>2, Fields DEF Live, Sent, Fates
    <3> QED
      BY <1>1, <2>2, <3>1, <3>2, <3>3, <3>4 DEF Asking
  <2>4. /\ fresh'[c].at = "writing" /\ fresh'[c].req = r /\ fresh'[c].media = 0 /\ fresh'[c].left = left
    BY <1>3, <2>2 DEF Holds
  <2>5. Asking(c)' /\ Writing(c)'
    <3> HIDE DEF left, r
    <3> QED
      BY <2>1, <2>2, <2>3, <2>4 DEF Asking, Writing, Sent, Live, Exists
  <2>6. c = "publisher" => /\ NoWatch' /\ Finding' /\ AdoptDone'
                           /\ \A s \in Made : Adopting(s) => Adopting(s)'
    BY <1>1, <2>1, <2>4, WPTypes DEF NoWatch, Finding, AdoptDone, Adopting, F
  <2>7. c = "person" => PersonChecks'
    BY <2>2, <2>4 DEF PersonChecks
  <2> QED
    BY <1>1, <2>5, <2>6, <2>7, ThreadKeeps
<1> QED
  BY <1>1, <1>2, <1>3

LEMMA AskMediaKeeps ==
  ASSUME Types, Types', Kept, NEW m \in 0 .. medias, AskMedia(m)
  PROVE  Kept'
<1> DEFINE group == {p \in old : rows[p].state = "sending" /\ rows[p].media = m}
<1>1. /\ F.at = "idle" /\ SameRows /\ StillSends /\ group # {} /\ Apart1("publisher") /\ NewDoubts("publisher")
      /\ Holds("publisher", IF m = 0 THEN "writing" ELSE "finding", 0, m, group)
      /\ \A p \in group : p \in Platforms /\ F'.known[p] = "failed" /\ p \in old /\ Is(p, m)
  <2>1. /\ F.at = "idle" /\ SameRows /\ StillSends /\ Apart1("publisher") /\ NewDoubts("publisher")
        /\ Holds("publisher", IF m = 0 THEN "writing" ELSE "finding", 0, m, group)
        /\ \E p \in old : rows[p].state = "sending" /\ rows[p].media = m
    BY AskMediaIs
  <2>2. \A p \in Platforms : F'.known[p] =
          IF p \in old /\ rows[p].state = "sending" /\ rows[p].media = m THEN "failed" ELSE "no"
    BY AskMediaIs
  <2>3. \A p \in group : p \in Platforms /\ p \in old /\ rows[p].state = "sending" /\ rows[p].media = m
    BY Fields
  <2>4. group # {}
    BY <2>1
  <2> HIDE DEF group
  <2> QED
    BY <2>1, <2>2, <2>3, <2>4 DEF Is
<1> HIDE DEF group
<1>2. /\ posts' = posts /\ rows' = rows /\ old' = old /\ medias' = medias /\ W' = W
      /\ \A p \in Platforms : Unasked(p)' <=> Unasked(p)
  BY <1>1 DEF StillSends, StillPosted, SameWoop, SameRows, Unasked, W
<1>3. PICK q \in group : q \in Platforms /\ q \in old /\ Is(q, m)
  BY <1>1
<1>4. m # 0 => W.media # m
  <2>1. m # 0 /\ W.media = m => q \in W.to /\ W.at \notin {"idle", "ended"}
    BY <1>3 DEF Kept, Rest, MediaOwner, Recording, Is
  <2>2. ~Busy(q)
    BY <1>3 DEF Kept, Rest, OldFree
  <2> QED
    BY <1>3, <2>1, <2>2 DEF Busy, W
<1>5. /\ F'.at = (IF m = 0 THEN "writing" ELSE "finding") /\ F'.req = 0 /\ F'.media = m /\ F'.left = group
  BY <1>1 DEF Holds, F
<1>6. NoWatch'
  BY <1>2, <1>4, <1>5 DEF NoWatch
<1>7. ASSUME m # 0, NEW r \in Made, NEW p \in Platforms, posts[r].media = m, Sent(r, p), Unasked(p)
      PROVE  Is(p, m)
  <2>1. ~Settled(r) /\ ~Adopting(r)
    BY <1>1, <1>3, <1>7 DEF Settled, Adopting
  <2>2. ~(W.at = "recording" /\ W.req = r)
    BY <1>4, <1>7 DEF Kept, Rest, Recording
  <2> QED
    BY <1>7, <2>1, <2>2 DEF Kept, Whole, Adoptable
<1>8. Finding'
  BY <1>1, <1>2, <1>5, <1>7 DEF Finding, Is, Sent
<1>9. Asking("publisher")' /\ Writing("publisher")'
  BY <1>1, <1>2, <1>5 DEF Asking, Writing, F, Is, Shown
<1>10. AdoptDone' /\ \A s \in Made : Adopting(s) => Adopting(s)'
  BY <1>1, <1>5 DEF AdoptDone, Adopting, Made
<1>11. "publisher" \in Checkers /\ \A d \in Checkers \ {"publisher"} : doubted[d] \subseteq doubted'[d]
  BY <1>1 DEF NewDoubts, Checkers
<1> QED
  BY <1>1, <1>6, <1>8, <1>9, <1>10, <1>11, ThreadKeeps

LEMMA FindKeeps ==
  ASSUME Types, Types', Kept, Find, slips' = {}
  PROVE  Kept'
<1> DEFINE m == F.media
<1>0. F.at = "finding" /\ F.left # {}
  BY FindIs DEF Kept, Told, Finding
<1>1. /\ SameRows /\ StillSends /\ Apart1("publisher") /\ doubted' = doubted
      /\ \/ /\ Found(m) = {} /\ F'.known = F.known
            /\ Holds("publisher", "writing", F.req, m, F.left)
         \/ \E r \in Found(m) :
              /\ Holds("publisher", "writing", r, m, F.left \cup On(r))
              /\ \A p \in Platforms : F'.known[p] = IF p \in On(r) THEN Outcome(r, p) ELSE F.known[p]
  BY <1>0, FindIs
<1>2. /\ posts' = posts /\ rows' = rows /\ medias' = medias /\ W' = W /\ F.left \subseteq Platforms
      /\ \A p \in Platforms : Unasked(p)' <=> Unasked(p)
  BY <1>1, WPTypes DEF StillSends, StillPosted, SameWoop, SameRows, Unasked, W
<1>3. /\ F.req = 0 /\ m # 0
      /\ \A p \in F.left : F.known[p] = "failed" /\ (Unasked(p) => Is(p, m))
      /\ \A r \in Made, p \in Platforms : posts[r].media = m /\ Sent(r, p) /\ Unasked(p) => Is(p, m)
  BY <1>0 DEF Kept, Told, Finding
<1>4. F'.media = m /\ F'.at = "writing"
  BY <1>1 DEF Holds, F
<1>5. NoWatch'
  BY <1>2, <1>4 DEF Kept, Told, NoWatch
<1>6. Asking("publisher")' /\ Finding' /\ \A s \in Made : Adopting(s) => Adopting(s)'
  BY <1>0, <1>4 DEF Asking, Finding, Adopting, F
<1>7. "publisher" \in Checkers /\ \A d \in Checkers \ {"publisher"} : doubted[d] \subseteq doubted'[d]
  BY <1>1 DEF Checkers
<1>8. CASE /\ Found(m) = {} /\ F'.known = F.known
           /\ Holds("publisher", "writing", F.req, m, F.left)
  <2>1. \A r \in Made : posts[r].media # m
    BY <1>3, <1>8, NoneTypes DEF Found
  <2>2. F'.req = 0 /\ F'.left = F.left
    BY <1>3, <1>8 DEF Holds, F
  <2>3. Writing("publisher")'
    <3> HIDE DEF m
    <3> QED
      BY <1>2, <1>3, <1>4, <1>8, <2>1, <2>2 DEF Writing, Is, Shown, F
  <2>4. AdoptDone'
    BY <2>2 DEF AdoptDone, Adopting, Made
  <2> QED
    BY <1>1, <1>5, <1>6, <1>7, <2>3, <2>4, ThreadKeeps
<1>9. ASSUME NEW r \in Found(m),
             /\ Holds("publisher", "writing", r, m, F.left \cup On(r))
             /\ \A p \in Platforms : F'.known[p] = IF p \in On(r) THEN Outcome(r, p) ELSE F.known[p]
      PROVE  Kept'
  <2>1. r \in Made /\ r # 0 /\ posts[r].media = m /\ Exists(r)
    BY <1>3 DEF Found, Made, Kept, Rest, PostShape
  <2>2. /\ F'.req = r /\ F'.left \subseteq Platforms
        /\ \A p \in Platforms : p \in F'.left <=> p \in F.left \/ Sent(r, p)
    BY <1>2, <1>9 DEF Holds, On, Sent, F
  <2>3. ASSUME NEW p \in F'.left
        PROVE  /\ p \in Platforms /\ F'.known[p] \in Shown \cup {"failed"}
               /\ F'.known[p] \in Shown => Sent(r, p)
               /\ F'.known[p] = "failed" => ~Live(r, p)
               /\ Unasked(p) => Is(p, m)
    <3>1. CASE Sent(r, p)
      <4>1. F'.known[p] = Outcome(r, p) /\ p \in Platforms
        BY <1>9, <2>2, <3>1 DEF On, Sent
      <4>2. /\ Outcome(r, p) \in Shown \cup {"failed"}
            /\ Outcome(r, p) = "failed" => ~Live(r, p)
        BY OutcomeIs DEF Shown, Live
      <4> QED
        BY <1>3, <2>1, <3>1, <4>1, <4>2
    <3>2. CASE ~Sent(r, p)
      <4>1. p \in F.left /\ p \in Platforms /\ F'.known[p] = F.known[p] /\ ~Live(r, p)
        BY <1>9, <2>2, <3>2 DEF On, Sent, Live
      <4> QED
        BY <1>3, <4>1 DEF Shown
    <3> QED
      BY <3>1, <3>2
  <2>4. Writing("publisher")'
    <3> HIDE DEF m
    <3> QED
      BY <1>2, <1>3, <1>4, <2>1, <2>2, <2>3 DEF Writing, Is, Sent, Live, Exists, F
  <2>5. AdoptDone'
    BY <1>2, <2>2 DEF AdoptDone, Adopting, Sent
  <2> QED
    BY <1>1, <1>5, <1>6, <1>7, <2>4, <2>5, ThreadKeeps
<1> QED
  BY <1>1, <1>8, <1>9

-----------------------------------------------------------------------------
(* The row a check is about to write: it says so of the post the check asked *)
(* about, or it is one of those it set out to settle.                       *)
Held(t, p) ==
  \/ /\ t.req # 0 /\ rows[p].req = t.req /\ rows[p].state \in Shown \cup {"failed"}
     /\ rows[p].state = "failed" => t.known[p] = "failed"
  \/ t.media = 0 /\ t.req = 0 /\ Is(p, 0) /\ p \in old
  \/ t.media # 0 /\ Is(p, t.media)

LEMMA WrittenRow ==
  ASSUME Types, Kept, NEW c \in Checkers, NEW p \in Platforms, Write(c, p), slips' = {}
  PROVE  LET t == fresh[c] IN
         /\ t.known[p] \in Shown \cup {"failed"}
         /\ t.known[p] \in Shown => t.req # 0 /\ Sent(t.req, p)
         /\ t.known[p] = "failed" /\ t.req # 0 => ~Live(t.req, p)
         /\ t.req # 0 => t.req \in Made /\ Exists(t.req)
         /\ t.req = 0 /\ t.media # 0 => \A r \in Made : posts[r].media # t.media
         /\ t.req # 0 /\ t.media # 0 => posts[t.req].media = t.media
         /\ Unasked(p) => Held(t, p)
         /\ c = "person" => t.media = 0 /\ t.req # 0
<1> DEFINE t == fresh[c]
<1>1. t.at = "writing" /\ p \in t.left /\ Writing(c) /\ PersonChecks /\ t.req \in Requests
  BY Fields, WriteIs DEF Kept, Told
<1>2. /\ t.known[p] \in Shown \cup {"failed"}
      /\ t.known[p] \in Shown => t.req # 0 /\ Sent(t.req, p)
      /\ t.known[p] = "failed" /\ t.req # 0 => ~Live(t.req, p)
      /\ t.req # 0 => t.req \in Made /\ Exists(t.req)
      /\ t.req = 0 /\ t.media # 0 => \A r \in Made : posts[r].media # t.media
      /\ t.req # 0 /\ t.media # 0 => posts[t.req].media = t.media
  BY <1>1 DEF Writing, Requests
<1>3. ASSUME Unasked(p), t.media = 0, t.req # 0 PROVE Held(t, p)
  <2>1. CASE p \in doubted[c]
    <3>1. ~Undoes(t, p)
      BY <2>1, WriteIs
    <3>2. rows[p].req = t.req /\ (rows[p].state = "failed" => t.known[p] = "failed")
      BY <3>1 DEF Undoes
    <3>3. rows[p].state \notin {"none", "sending"} /\ rows[p].state \in States
      BY <1>3, <3>2, Fields DEF Kept, Rest, Requested
    <3> QED
      BY <1>3, <3>2, <3>3 DEF Held, States, Shown
  <2>2. CASE rows[p].state \in Shown /\ rows[p].req = t.req
    BY <1>3, <2>2 DEF Held, Shown
  <2> QED
    BY <1>1, <1>3, <2>1, <2>2 DEF Writing
<1>4. Unasked(p) => Held(t, p)
  BY <1>1, <1>3 DEF Writing, Held
<1>5. c = "person" => t.media = 0 /\ t.req # 0
  BY <1>1 DEF PersonChecks
<1> QED
  BY <1>2, <1>4, <1>5

LEMMA WriteRest ==
  ASSUME Types, Types', Kept, NEW c \in Checkers, NEW p \in Platforms, Write(c, p), slips' = {}
  PROVE  Rest' /\ W' = W
<1> DEFINE t == fresh[c]
           req == IF Names(t.req, p) THEN t.req ELSE rows[p].req
           s == t.known[p]
<1>1. StillSends /\ Wrote(p, s, req, rows[p].media)
  BY WriteIs
<1>2. W' = W /\ P' = P /\ SameWoop /\ asked' = asked /\ send' = send
  BY <1>1 DEF StillSends, StillPosted, W, P
<1>3. /\ s \in Shown \cup {"failed"}
      /\ s \in Shown => t.req # 0 /\ Sent(t.req, p)
      /\ s = "failed" /\ t.req # 0 => ~Live(t.req, p)
      /\ t.req # 0 => t.req \in Made /\ Exists(t.req)
      /\ t.req = 0 /\ t.media # 0 => \A r \in Made : posts[r].media # t.media
      /\ t.req # 0 /\ t.media # 0 => posts[t.req].media = t.media
      /\ Unasked(p) => Held(t, p)
      /\ c = "person" => t.media = 0 /\ t.req # 0
  BY WrittenRow
<1>4. s \in Shown => req = t.req
  BY <1>3, SentIs DEF Names
<1>5. /\ rows'[p].state = s /\ rows'[p].req = req /\ rows'[p].media = rows[p].media
      /\ \A o \in Platforms \ {p} : rows'[o] = rows[o]
  BY <1>1 DEF Wrote
<1>6. s # "sending" /\ s # "none"
  BY <1>3 DEF Shown
<1>7. req # 0 => Exists(req)
  BY <1>3 DEF Kept, Rest, Requested
<1>8. t.media # 0 => t.media # W.media
  BY <1>3 DEF Kept, Told, NoWatch, F, Checkers
<1> HIDE DEF req, s, t
<1>9. PostShape' /\ MediaOne' /\ MediaNamed' /\ MediaUnused' /\ MediaApart' /\ MediaOwner'
  BY <1>2, <1>5 DEF Kept, Rest, PostShape, MediaOne, MediaNamed, MediaUnused, MediaApart,
                    MediaOwner, Sent, Exists, Unasked, SameWoop
<1>10. Requested'
  BY <1>2, <1>5, <1>6, <1>7 DEF Kept, Rest, Requested, Exists, SameWoop
<1>11. OldFree'
  BY <1>1, <1>2, WroteOld DEF Busy
<1>12. PersonAsked' /\ NoneYet'
  BY <1>2 DEF Kept, Rest, PersonAsked, Exists, NoneYet, Unasked, Live, SameWoop
<1>13. Recording'
  BY <1>2, <1>5, <1>6, WPTypes DEF Kept, Rest, Recording, Sending, Sent, SameWoop
<1>14. RowInSend'
  <2>1. p \in W.to /\ p \in old => W.at \in {"idle", "ended"}
    BY DEF Kept, Rest, OldFree, Busy, W
  <2>2. ASSUME p \in W.to, Unasked(p)
        PROVE  /\ W.at \notin {"uploading", "tagging", "creating"}
               /\ W.at = "marking" => p \in W.left /\ s = "failed"
               /\ W.at = "failing" => p \notin W.left /\ s = "failed"
               /\ W.at = "recording" => p \notin W.left
    <3>1. CASE rows[p].state = "sending"
      BY <1>3, <1>8, <2>1, <2>2, <3>1 DEF Kept, Rest, RowInSend, Held, Is, Shown, Alive
    <3>2. CASE rows[p].state \in Shown \cup {"failed"} /\ (rows[p].state = "failed" => s = "failed")
      BY <2>2, <3>2 DEF Kept, Rest, RowInSend, Is, Shown, Alive
    <3> QED
      BY <1>3, <2>2, <3>1, <3>2 DEF Held, Is, s
  <2>3. \A o \in Platforms \ {p} : Is(o, 0)' = Is(o, 0) /\ (Is(o, W.media)' <=> Is(o, W.media))
    BY <1>2, <1>5 DEF Is
  <2>4. "failed" \notin Alive
    BY DEF Alive
  <2> QED
    BY <1>2, <1>5, <2>2, <2>3, <2>4, WPTypes DEF Kept, Rest, RowInSend, Unasked
<1>15. LiveIsBacked'
  <2>1. ASSUME NEW r \in Made, Unasked(p), Live(r, p) PROVE s \in Shown /\ req = r
    <3>1. Is(p, posts[r].media) \/ (rows[p].state \in Shown /\ rows[p].req = r)
      BY <2>1 DEF Kept, Rest, LiveIsBacked
    <3>2. posts[r].media # 0
      BY <2>1 DEF Kept, Rest, PostShape, Sent, Live
    <3>3. t.req = r
      <4>1. CASE t.media # 0 /\ Is(p, t.media)
        BY <1>3, <2>1, <3>1, <3>2, <4>1 DEF Kept, Rest, MediaOne, Is, Shown
      <4>2. CASE ~(t.media # 0 /\ Is(p, t.media))
        BY <1>3, <2>1, <3>1, <3>2, <4>2 DEF Held, Is, Shown
      <4> QED
        BY <4>1, <4>2
    <3> QED
      BY <1>3, <1>4, <2>1, <3>3 DEF Made
  <2> QED
    BY <1>2, <1>5, <2>1 DEF Kept, Rest, LiveIsBacked, Unasked, Is, Live, SameWoop
<1> QED
  BY <1>2, <1>9, <1>10, <1>11, <1>12, <1>13, <1>14, <1>15 DEF Rest

(* The other check has the row in doubt from here on.                       *)
LEMMA WriteOther ==
  ASSUME Types, Types', Kept, NEW c \in Checkers, NEW p \in Platforms, Write(c, p), slips' = {},
         NEW d \in Checkers \ {c}
  PROVE  /\ fresh'[d] = fresh[d] /\ Asking(d)' /\ Writing(d)'
         /\ d = "publisher" => Finding' /\ AdoptDone'
<1> DEFINE t == fresh[c]
           u == fresh[d]
<1>1. /\ fresh'[d] = u /\ StillSends
      /\ u.at # "idle" => doubted'[d] = doubted[d] \cup {p}
      /\ old' = old \ {p} /\ \A o \in Platforms \ {p} : rows'[o] = rows[o]
      /\ rows'[p].state = t.known[p]
  <2> DEFINE req == IF Names(t.req, p) THEN t.req ELSE rows[p].req
  <2>1. /\ StillSends /\ Apart1(c) /\ Wrote(p, t.known[p], req, rows[p].media)
        /\ u.at # "idle" => doubted'[d] = doubted[d] \cup {p}
    BY WriteIs
  <2> HIDE DEF req
  <2> QED
    BY <2>1 DEF Apart1, Wrote
<1>2. /\ posts' = posts /\ \A o \in Platforms : Unasked(o)' <=> Unasked(o)
  BY <1>1 DEF StillSends, StillPosted, SameWoop, Unasked
<1>3. d = "publisher" => (Unasked(p) => rows[p].state # "sending")
  <2>1. d = "publisher" => c = "person"
    BY DEF Checkers
  <2>2. c = "person" /\ Unasked(p) => rows[p].state \in Shown \cup {"failed"}
    BY WrittenRow DEF Held
  <2> QED
    BY <2>1, <2>2 DEF Shown
<1>4. d = "person" => u.media = 0 /\ (u.at = "writing" => u.req # 0)
  BY DEF Kept, Told, PersonChecks
<1>5. u.left \subseteq Platforms /\ Asking(d) /\ Writing(d) /\ (d = "publisher" \/ d = "person")
  BY Fields DEF Kept, Told, Checkers
<1>6. Asking(d)'
  BY <1>1, <1>2, <1>5 DEF Asking, Exists, Live
<1>7. Writing(d)'
  <2> SUFFICES ASSUME u.at = "writing", NEW o \in u.left, Unasked(o)
               PROVE  /\ u.media = 0 /\ u.req # 0 =>
                           o \in doubted'[d] \/ (rows'[o].state \in Shown /\ rows'[o].req = u.req)
                      /\ u.media = 0 /\ u.req = 0 => Is(o, 0)' /\ o \in old'
                      /\ u.media # 0 => Is(o, u.media)'
    BY <1>1, <1>2, <1>5 DEF Writing, Exists, Sent, Live, Is
  <2>1. CASE o = p
    BY <1>1, <1>3, <1>4, <1>5, <2>1 DEF Writing, Is
  <2>2. CASE o # p
    BY <1>1, <1>5, <2>2 DEF Writing, Is
  <2> QED
    BY <2>1, <2>2
<1>8. ASSUME d = "publisher" PROVE Finding' /\ AdoptDone'
  <2>1. F' = F /\ (Unasked(p) => ~Is(p, F.media))
    BY <1>1, <1>3, <1>8 DEF F, Is
  <2>2. Finding'
    BY <1>1, <1>2, <2>1, WPTypes DEF Kept, Told, Finding, Is, Sent
  <2>3. t.known[p] # "sending"
    BY WrittenRow DEF Shown
  <2>4. AdoptDone'
    BY <1>1, <1>2, <2>1, <2>3 DEF Kept, Told, AdoptDone, Adopting, Is, Sent
  <2> QED
    BY <2>2, <2>4
<1> QED
  BY <1>1, <1>6, <1>7, <1>8

LEMMA WriteOwn ==
  ASSUME Types, Types', Kept, NEW c \in Checkers, NEW p \in Platforms, Write(c, p), slips' = {}
  PROVE  /\ Asking(c)' /\ Writing(c)'
         /\ c = "publisher" => NoWatch' /\ Finding' /\ AdoptDone'
         /\ c = "person" => PersonChecks'
<1> DEFINE t == fresh[c]
<1>1. /\ t.at = "writing" /\ p \in t.left /\ StillSends /\ doubted'[c] = doubted[c]
      /\ \/ t.left = {p} /\ Holds(c, "idle", 0, 0, {})
         \/ /\ t.left # {p} /\ fresh'[c].known = t.known
            /\ Holds(c, "writing", t.req, t.media, t.left \ {p})
      /\ old' = old \ {p} /\ \A o \in Platforms \ {p} : rows'[o] = rows[o]
      /\ rows'[p].state = t.known[p] /\ rows'[p].media = rows[p].media
  <2> DEFINE req == IF Names(t.req, p) THEN t.req ELSE rows[p].req
  <2>1. /\ t.at = "writing" /\ p \in t.left /\ StillSends /\ doubted'[c] = doubted[c]
        /\ Wrote(p, t.known[p], req, rows[p].media)
    BY WriteIs
  <2>2. \/ t.left = {p} /\ Holds(c, "idle", 0, 0, {})
        \/ /\ t.left # {p} /\ fresh'[c].known = t.known
           /\ Holds(c, "writing", t.req, t.media, t.left \ {p})
    BY WriteIs
  <2> HIDE DEF req, t
  <2> QED
    BY <2>1, <2>2 DEF Wrote
<1>2. /\ posts' = posts /\ medias' = medias /\ W' = W /\ \A o \in Platforms : Unasked(o)' <=> Unasked(o)
  BY <1>1 DEF StillSends, StillPosted, SameWoop, Unasked, W
<1>3. t.left \subseteq Platforms /\ Writing(c) /\ t.known[p] # "sending"
  BY Fields, WrittenRow DEF Kept, Told, Shown
<1>4. CASE Holds(c, "idle", 0, 0, {})
  BY <1>2, <1>4, WPTypes
     DEF Holds, Asking, Writing, NoWatch, Finding, AdoptDone, Adopting, PersonChecks, F
<1>5. CASE fresh'[c].known = t.known /\ Holds(c, "writing", t.req, t.media, t.left \ {p})
  <2>1. /\ fresh'[c].at = "writing" /\ fresh'[c].req = t.req /\ fresh'[c].media = t.media
        /\ fresh'[c].left = t.left \ {p} /\ fresh'[c].known = t.known
    BY <1>5 DEF Holds
  <2>2. Asking(c)'
    BY <2>1 DEF Asking
  <2>3. Writing(c)'
    BY <1>1, <1>2, <1>3, <2>1 DEF Writing, Exists, Sent, Live, Is
  <2>4. ASSUME c = "publisher" PROVE NoWatch' /\ Finding' /\ AdoptDone'
    <3>1. F'.at = "writing" /\ F'.media = F.media /\ F'.req = F.req /\ F'.left = F.left \ {p} /\ F.at = "writing"
      BY <1>1, <2>1, <2>4 DEF F
    <3>2. NoWatch' /\ Finding'
      BY <1>2, <3>1 DEF Kept, Told, NoWatch, Finding
    <3>3. AdoptDone'
      BY <1>1, <1>2, <1>3, <3>1 DEF Kept, Told, AdoptDone, Adopting, Is, Sent
    <3> QED
      BY <3>2, <3>3
  <2>5. c = "person" => PersonChecks'
    BY <1>1, <2>1 DEF Kept, Told, PersonChecks
  <2> QED
    BY <2>2, <2>3, <2>4, <2>5
<1> QED
  BY <1>1, <1>4, <1>5

LEMMA WriteAll ==
  ASSUME Types, Types', Kept, NEW c \in Checkers, NEW p \in Platforms, Write(c, p), slips' = {}
  PROVE  Whole'
<1> DEFINE t == fresh[c]
<1>1. /\ t.at = "writing" /\ StillSends
      /\ \A o \in Platforms \ {p} : rows'[o] = rows[o]
      /\ rows'[p].state = t.known[p] /\ t.known[p] # "sending"
  <2>1. t.at = "writing" /\ StillSends
    BY WriteIs
  <2>2. rows'[p].state = t.known[p] /\ \A o \in Platforms \ {p} : rows'[o] = rows[o]
    <3>1. Wrote(p, t.known[p], IF Names(t.req, p) THEN t.req ELSE rows[p].req, rows[p].media)
      BY WriteIs
    <3> QED
      BY <3>1 DEF Wrote
  <2>3. t.known[p] \in Shown \cup {"failed"}
    BY WrittenRow
  <2> QED
    BY <2>1, <2>2, <2>3 DEF Shown
<1>2. /\ posts' = posts /\ W' = W /\ \A o \in Platforms : Unasked(o)' <=> Unasked(o)
  BY <1>1 DEF StillSends, StillPosted, SameWoop, Unasked, W
<1> SUFFICES ASSUME NEW r \in Made, posts[r].media # 0
             PROVE  Adoptable(r)' \/ Settled(r)' \/ Adopting(r)' \/ (W.at = "recording" /\ W.req = r)
  BY <1>2 DEF Whole
<1>3. Settled(r) => Settled(r)'
  BY <1>1, <1>2 DEF Settled, Is
<1>4. CASE Adopting(r) /\ c = "person"
  <2>1. F' = F
    BY <1>4, WriteIs DEF Apart1, F, Checkers
  <2> QED
    BY <1>4, <2>1 DEF Adopting
<1>5. CASE Adopting(r) /\ c = "publisher"
  <2>1. F = t
    BY <1>5 DEF F
  <2>2. CASE t.left # {p} /\ Holds(c, "writing", t.req, t.media, t.left \ {p})
    BY <1>5, <2>1, <2>2 DEF Adopting, Holds, F
  <2>3. CASE t.left = {p}
    <3>1. r \in Made /\ r # 0 /\ posts[r].media = F.media
      BY <1>1, <1>5, <2>1 DEF Adopting, Made, Kept, Told, Writing
    <3>2. \A o \in Platforms : rows[o].media = posts[r].media => Sent(r, o)
      BY <3>1 DEF Kept, Rest, MediaNamed
    <3>3. \A o \in Platforms \ {p} : ~Is(o, posts[r].media)
      BY <1>5, <2>1, <2>3, <3>1, <3>2 DEF Kept, Told, AdoptDone, Is
    <3> QED
      BY <1>1, <1>2, <3>3 DEF Settled, Is
  <2> QED
    BY <2>2, <2>3, WriteIs
<1>6. CASE ~Adopting(r)
  <2>1. Unasked(p) => ~Is(p, posts[r].media)
    <3>1. c = "person" \/ (c = "publisher" /\ F = t)
      BY DEF F, Checkers
    <3>2. ASSUME Is(p, t.media), t.media # 0, posts[r].media = t.media, F = t PROVE FALSE
      BY <1>1, <1>6, <3>2, WrittenRow DEF Kept, Rest, MediaOne, Adopting
    <3> QED
      BY <3>1, <3>2, WrittenRow DEF Held, Is, Shown
  <2>2. Adoptable(r) => Adoptable(r)'
    BY <1>1, <1>2, <2>1 DEF Adoptable, Sent, Is
  <2> QED
    BY <1>3, <1>6, <2>2 DEF Kept, Whole
<1> QED
  BY <1>4, <1>5, <1>6 DEF Checkers

LEMMA WriteKeeps ==
  ASSUME Types, Types', Kept, NEW c \in Checkers, NEW p \in Platforms, Write(c, p), slips' = {}
  PROVE  Kept'
<1>1. \A d \in Checkers : Asking(d)' /\ Writing(d)'
  BY WriteOther, WriteOwn
<1>2. Rest' /\ Whole' /\ W' = W
  BY WriteRest, WriteAll
<1>3. CASE c = "publisher"
  <2>1. "person" \in Checkers \ {c}
    BY <1>3 DEF Checkers
  <2>2. PersonChecks'
    BY <2>1, WriteOther DEF Kept, Told, PersonChecks
  <2> QED
    BY <1>1, <1>2, <1>3, <2>2, WriteOwn DEF Kept, Told
<1>4. CASE c = "person"
  <2>1. "publisher" \in Checkers \ {c}
    BY <1>4 DEF Checkers
  <2>2. Finding' /\ AdoptDone' /\ F' = F
    BY <2>1, WriteOther DEF F
  <2>3. NoWatch'
    BY <1>2, <2>2, WriteIs, WPTypes DEF Kept, Told, NoWatch, StillSends, StillPosted, SameWoop
  <2> QED
    BY <1>1, <1>2, <1>4, <2>2, <2>3, WriteOwn DEF Kept, Told
<1> QED
  BY <1>3, <1>4 DEF Checkers

LEMMA DeliverKeeps ==
  ASSUME Types, Types', Kept, NEW d \in Made, NEW o \in Platforms, Deliver(d, o)
  PROVE  Kept'
<1>1. /\ send' = send /\ SameRows /\ SameChecks /\ asked' = asked /\ medias' = medias
      /\ W' = W /\ P' = P /\ F' = F
  BY DeliverIs DEF W, P, F, SameChecks
<1>2. \A r \in Made : posts'[r].media = posts[r].media /\ (Exists(r)' <=> Exists(r))
  BY DeliverIs DEF Exists
<1>3. \A r \in Made, p \in Platforms : (Sent(r, p)' <=> Sent(r, p)) /\ (Live(r, p)' => Live(r, p))
  BY DeliverIs DEF Sent, Live
<1>4. \A p \in Platforms : Unasked(p)' <=> Unasked(p)
  BY <1>1 DEF Unasked
<1>5. \A r \in Requests : r # 0 => r \in Made
  BY DEF Requests
<1>6. PostShape' /\ MediaOne' /\ MediaNamed' /\ MediaUnused'
  BY <1>1, <1>2, <1>3, <1>4 DEF Kept, Rest, PostShape, MediaOne, MediaNamed, MediaUnused, SameRows
<1>7. MediaApart' /\ MediaOwner' /\ OldFree'
  BY <1>1 DEF Kept, Rest, MediaApart, MediaOwner, OldFree, Busy, SameRows
<1>8. Requested' /\ PersonAsked'
  <2>1. \A r \in Made : posts'[r].by = posts[r].by
    BY DeliverIs
  <2>2. Requested'
    <3>1. \A p \in Platforms : rows[p].req # 0 => rows[p].req \in Made
      BY <1>5, Fields
    <3> QED
      BY <1>1, <2>1, <3>1 DEF Kept, Rest, Requested, Exists, SameRows
  <2>3. PersonAsked'
    BY <1>1, <1>4, <2>1, WPTypes DEF Kept, Rest, PersonAsked, Exists
  <2> QED
    BY <2>2, <2>3
<1>9. RowInSend' /\ NoneYet'
  BY <1>1, <1>3, <1>4, WPTypes DEF Kept, Rest, RowInSend, NoneYet, Is, SameRows
<1>10. Recording'
  BY <1>1, <1>2, <1>3 DEF Kept, Rest, Recording, Sending, SameRows
<1>11. LiveIsBacked'
  BY <1>1, <1>2, <1>3, <1>4 DEF Kept, Rest, LiveIsBacked, Is, SameRows
<1>12. NoWatch' /\ Finding' /\ PersonChecks'
  BY <1>1, <1>2, <1>3, <1>4, WPTypes DEF Kept, Told, NoWatch, Finding, PersonChecks, Is, SameRows, SameChecks
<1>13. ASSUME NEW c \in Checkers PROVE Asking(c)' /\ Writing(c)'
  <2>1. /\ fresh'[c] = fresh[c] /\ doubted'[c] = doubted[c] /\ fresh[c].left \subseteq Platforms
        /\ fresh[c].req # 0 => fresh[c].req \in Made
    BY <1>1, <1>5, Fields DEF SameChecks
  <2>2. Asking(c)'
    BY <1>1, <1>2, <1>3, <1>4, <2>1 DEF Kept, Told, Asking, SameRows
  <2>3. Writing(c)'
    BY <1>1, <1>2, <1>3, <1>4, <2>1 DEF Kept, Told, Writing, Is, SameRows
  <2> QED
    BY <2>2, <2>3
<1>14. AdoptDone' /\ Whole'
  BY <1>1, <1>2, <1>3, <1>4 DEF Kept, Told, AdoptDone, Whole, Adoptable, Settled, Adopting, Is, SameRows
<1> QED
  BY <1>6, <1>7, <1>8, <1>9, <1>10, <1>11, <1>12, <1>13, <1>14 DEF Kept, Rest, Told

(* A stop that leaves no send half recorded, and none half adopted.          *)
LEMMA StopKeeps ==
  ASSUME Types, Types', Kept, Restart, slips' = {}
  PROVE  Kept'
<1>1. /\ SameRows /\ SameWoop /\ asked' = asked /\ TornOn = {}
      /\ \A c \in Checkers : fresh'[c].at = "idle" /\ fresh'[c].media = 0
      /\ W'.at = "idle" /\ W'.to = {} /\ W'.left = {} /\ W'.media = 0
      /\ P'.at = "idle" /\ P'.to = {} /\ P'.left = {} /\ P'.media = 0
  BY StopIs DEF StillPosted, Holds, Has
<1>2. LateAsks /\ posts' = posts /\ medias' = medias /\ medias <= medias'
  BY <1>1, WPTypes DEF LateAsks, Unasked, SameWoop
<1>3. MediaUnused' /\ MediaApart' /\ MediaOwner'
  BY <1>1, <1>2 DEF Kept, Rest, MediaUnused, MediaApart, MediaOwner, SameRows
<1>4. OldFree'
  BY <1>1 DEF Kept, Rest, OldFree, Busy, SameRows, W
<1>5. PersonAsked' /\ RowInSend' /\ Recording' /\ NoneYet'
  BY <1>1 DEF PersonAsked, RowInSend, Recording, Sending, NoneYet, Before
<1>6. (\A c \in Checkers : Asking(c)' /\ Writing(c)') /\ Finding' /\ AdoptDone' /\ PersonChecks' /\ NoWatch'
  BY <1>1, <1>2, WPTypes DEF Asking, Finding, Writing, AdoptDone, Adopting, PersonChecks, NoWatch, F
<1>7. W.at = "recording" => W.left = W.to
  <2>1. W.at = "recording" /\ W.left # W.to => W.to = {}
    BY <1>1 DEF TornOn, W
  <2> QED
    BY <2>1 DEF Kept, Rest, Recording, Sending
<1>8. F.at = "writing" /\ F.media # 0 /\ F.req # 0 => On(F.req) \subseteq F.left
  BY <1>1 DEF TornOn, F
<1>9. Whole'
  <2> SUFFICES ASSUME NEW r \in Made, posts[r].media # 0 PROVE Adoptable(r) \/ Settled(r)
    BY <1>1, <1>2 DEF Whole, Adoptable, Settled, Sent, Unasked, Is, SameRows
  <2>1. CASE W.at = "recording" /\ W.req = r
    BY <1>7, <2>1 DEF Kept, Rest, RowInSend, Recording, Adoptable
  <2>2. CASE Adopting(r)
    <3>1. F.at = "writing" /\ F.media # 0 /\ F.req = r /\ r # 0
      BY <2>2 DEF Adopting, Made
    <3>2. \A p \in Platforms : Sent(r, p) => p \in F.left
      BY <1>8, <3>1, SentIs
    <3>3. Writing("publisher")
      BY WPTypes DEF Kept, Told
    <3>4. posts[r].media = F.media /\ \A p \in F.left : Unasked(p) => Is(p, F.media)
      BY <3>1, <3>3 DEF Writing, F
    <3> QED
      BY <3>2, <3>4 DEF Adoptable
  <2> QED
    BY <2>1, <2>2 DEF Kept, Whole
<1> QED
  BY <1>1, <1>2, <1>3, <1>4, <1>5, <1>6, <1>9, QuietRest DEF Kept, Rest, Told

LEMMA InitKept == Init => Kept
<1> SUFFICES ASSUME Init PROVE Kept
  OBVIOUS
<1>1. /\ \A p \in Platforms : rows[p] = NoRow /\ asked[p] = 0
      /\ old = {} /\ medias = 0 /\ W = NoSend /\ P = NoSend
      /\ \A c \in Checkers : fresh[c] = NoFresh
      /\ \A r \in Made : posts[r] = NoPost
  BY DEF Init, FanOutInit, W, P, Senders
<1>2. \A p \in Platforms : rows[p].state = "none" /\ rows[p].req = 0 /\ rows[p].media = 0
  BY <1>1 DEF NoRow
<1>3. \A r \in Made : ~Exists(r) /\ posts[r].media = 0 /\ \A p \in Platforms : ~Sent(r, p) /\ ~Live(r, p)
  BY <1>1, NoneTypes DEF Exists, Sent, Live
<1>4. /\ \A c \in Checkers : fresh[c].at = "idle" /\ fresh[c].media = 0
      /\ W.at = "idle" /\ W.to = {} /\ W.media = 0 /\ P.at = "idle" /\ P.to = {} /\ P.left = {} /\ P.media = 0
      /\ F.at = "idle" /\ F.media = 0
  BY <1>1, NoneTypes DEF F, Checkers
<1>5. PostShape /\ MediaOne /\ MediaNamed /\ LiveIsBacked
  BY <1>1, <1>2, <1>3 DEF PostShape, MediaOne, MediaNamed, LiveIsBacked
<1>6. MediaUnused /\ MediaApart /\ MediaOwner /\ Requested
  BY <1>1, <1>2, <1>4 DEF MediaUnused, MediaApart, MediaOwner, Requested
<1>7. OldFree /\ PersonAsked /\ RowInSend /\ Recording /\ NoneYet
  BY <1>1, <1>4 DEF OldFree, PersonAsked, RowInSend, Recording, Sending, NoneYet, Before
<1>8. Told
  BY <1>1, <1>4 DEF Told, Asking, NoWatch, Finding, Writing, AdoptDone, Adopting, PersonChecks, Checkers
<1>9. Whole
  BY <1>3 DEF Whole
<1> QED
  BY <1>5, <1>6, <1>7, <1>8, <1>9 DEF Kept, Rest

(* A step that loses no post of the watch's.                                *)
LEMMA NextKept ==
  ASSUME Types, Types', Kept, [Next]_vars, slips' = {}
  PROVE  Kept'
<1>1. CASE Publish
  BY <1>1, PublishIs, BeginOnceKeeps, WatcherKeeps
<1>2. CASE Published
  BY <1>2, PublishedIs, WatcherKeeps
<1>3. CASE StartFails \/ RetryRejected \/ TimePasses \/ Approve \/ Aside
  BY <1>3, AsideIs, AsideKeeps
<1>4. CASE Restart
  BY <1>4, StopKeeps
<1>5. ASSUME NEW a \in Senders, OfSend(a) PROVE Kept'
  BY <1>5, UploadKeeps, CreateKeeps, UnansweredKeeps, RefusedKeeps, UnreadableKeeps, RecordKeeps DEF OfSend
<1>6. ASSUME NEW p \in Platforms, Mark(p) \/ Tag(p) \/ Fail(p) \/ Age(p) PROVE Kept'
  BY <1>6, MarkKeeps, TagKeeps, FailKeeps, AgeKeeps
<1>7. ASSUME NEW r \in Made, NEW c \in Checkers, ReadRows(c, r), \E p \in Platforms : rows[p].req = r
      PROVE  Kept'
  BY <1>7, AskKeeps
<1>8. ASSUME NEW m \in 0 .. medias, AskMedia(m) PROVE Kept'
  BY <1>8, AskMediaKeeps
<1>9. ASSUME NEW c \in Checkers, Hear(c) \/ Unreachable(c) \/ \E p \in Platforms : Write(c, p) PROVE Kept'
  BY <1>9, HearKeeps, UnreachableKeeps, WriteKeeps
<1>10. ASSUME NEW r \in Made, NEW p \in Platforms, Deliver(r, p) PROVE Kept'
  BY <1>10, DeliverKeeps
<1>11. CASE Find \/ BeginAsked
  BY <1>11, FindKeeps, BeginAskedKeeps
<1> QED
  BY <1>1, <1>2, <1>3, <1>4, <1>5, <1>6, <1>7, <1>8, <1>9, <1>10, <1>11, StepKinds

LEMMA KeptHolds == Spec => [](Types /\ (slips = {} => Kept))
<1>1. Init => Types /\ (slips = {} => Kept)
  BY InitTypes, InitKept
<1>2. Types /\ (slips = {} => Kept) /\ [Next]_vars => (Types /\ (slips = {} => Kept))'
  <2> SUFFICES ASSUME Types, slips = {} => Kept, [Next]_vars PROVE Types' /\ (slips' = {} => Kept')
    OBVIOUS
  <2>1. Types' /\ slips \subseteq slips'
    BY NextTypes, SlipsGrow
  <2>2. slips' = {} => slips = {}
    BY <2>1
  <2> QED
    BY <2>1, <2>2, NextKept
<1> QED
  BY <1>1, <1>2, PTL DEF Spec

(* As long as no post was lost sight of, the watch's row of a clip           *)
(* (woopsocial_service.py publish_clips, record_outcomes, record_refresh,     *)
(* reconcile_sending) says that one is sent or on its way while the watch's   *)
(* own post of it lives, so it will not be sent again, whatever is cut off,   *)
(* unanswered, rejected, checked twice or asked for by a person meanwhile.    *)
THEOREM LivePostIsKnown == Spec => [](slips = {} => PostedIsKnown)
<1>1. Types /\ (slips = {} => Kept) => (slips = {} => PostedIsKnown)
  <2> SUFFICES ASSUME Types, Kept, NEW p \in Platforms, NEW r \in Made, Live(r, p), ~(asked[p] > 0)
               PROVE  rows[p].state \in Alive
    BY DEF PostedIsKnown
  <2>1. Unasked(p)
    <3>1. asked[p] \in Nat
      BY Fields
    <3> QED
      BY <3>1 DEF Unasked
  <2> QED
    BY <2>1 DEF Kept, Rest, LiveIsBacked, Is, Shown, Alive
<1> QED
  BY <1>1, KeptHolds, PTL

=============================================================================
