---------------------------- MODULE RenderProofs ----------------------------
(***************************************************************************)
(* Theorems about RenderDispatch for any number of clips, render PCs,       *)
(* troubles and runs: types, that a completed job stays completed with its  *)
(* result, and that a run neither loses a clip nor hands one over twice.    *)
(***************************************************************************)
EXTENDS RenderDispatch, TLAPS

Completed == In({"completed"})

(* What fail is about to write over by id alone is not a finished job: the   *)
(* lock kept every completion out, and the Settings page completes nothing. *)
GivenBackIsOpen == \A w \in Workers : hand[w].at = "giveback" => hand[w].clip \notin Completed

(* Nobody can add to the part of a completed job: its result is not touched. *)
NothingToVerify == \A j \in Completed : part[j] = NoPart

(* A body that is still awaited goes into no completed job's part, and into   *)
(* no result but those moved while it was.                                  *)
AwaitedKnown ==
  \A w \in Workers : /\ put[w].into = "part" => put[w].clip \notin Completed
                     /\ put[w].into = "result" => put[w].clip \in spoilt

(* Where a run's clips can be at each place of render_all.                  *)
RunPlaces ==
  /\ ~At("sending") => run.todo = {}
  /\ At("sending") => /\ run.here = {} /\ run.todo \cap LocalClips = {}
                      /\ run.pending \cap LocalClips = {}
  /\ At("alone") => run.pending = {}
  /\ At("releasing") => run.clip \in run.pending

RowsInv == TypeOK /\ GivenBackIsOpen
Inv     == RowsInv /\ NothingToVerify /\ AwaitedKnown /\ ResultIsKept /\ RunPlaces /\ HandedOnce


LEMMA Assumptions ==
  /\ Nobody \notin Workers /\ NoClip \notin Clips /\ Able \subseteq Workers
  /\ Targets \subseteq Workers \cup {Nobody} /\ LocalClips \subseteq Clips
  /\ MaxAttempts \in Nat /\ Chunks \in Nat /\ Chunks > 0 /\ MaxTrouble \in Nat /\ MaxRuns \in Nat
  BY QueueAssumption, GatewayAssumption, DispatchAssumption

LEMMA NewRowType == \A t \in Workers \cup {Nobody} : NewRow("absent", t) \in Row /\ NewRow("queued", t) \in Row
  BY DEF NewRow, Row, States, Waiting

LEMMA Initially == Init => Inv
<1> SUFFICES ASSUME Init PROVE Inv
  OBVIOUS
<1> USE Assumptions DEF Init, QueueInit, GatewayInit
<1>1. QueueTypeOK
  BY NewRowType DEF QueueTypeOK
<1>2. GatewayTypeOK /\ AwaitedKnown
  BY DEF GatewayTypeOK, NoHand, NoPart, NoPut, Places, AwaitedKnown
<1>3. TypeOK
  <2>1. NoRun \in Run
    BY DEF NoRun, Run
  <2>2. outcome \in [Clips -> {"none", "remote", "here", "error"}] /\ runs \in 0 .. MaxRuns
    OBVIOUS
  <2> QED
    BY <1>1, <1>2, <2>1, <2>2 DEF TypeOK
<1>4. Completed = {}
  BY DEF Completed, In, NewRow
<1>5. GivenBackIsOpen /\ NothingToVerify /\ ResultIsKept
  BY <1>4 DEF GivenBackIsOpen, NothingToVerify, ResultIsKept, Completed
<1>6. RunPlaces /\ HandedOnce
  BY DEF RunPlaces, HandedOnce, NoRun, At
<1> QED
  BY <1>2, <1>3, <1>5, <1>6 DEF Inv, RowsInv

-----------------------------------------------------------------------------
(* The operations of the table: each keeps the type of the rows, and none    *)
(* but Complete changes which jobs are completed.                           *)

Same == Completed' = Completed
RowsOK == rows \in [Clips -> Row]

LEMMA SubmitKeeps ==
  ASSUME RowsOK, NEW j \in Clips, NEW t \in Workers \cup {Nobody}, Submit(j, t)
  PROVE  RowsOK' /\ Same
  BY NewRowType DEF RowsOK, Same, Completed, In, Submit, NewRow, Row, States, Waiting

LEMMA ClaimKeeps ==
  ASSUME RowsOK, NEW w \in Workers, NEW j \in Clips, Claim(w, j)
  PROVE  RowsOK' /\ Same
  BY DEF RowsOK, Same, Completed, In, Claim, Row, States, Waiting

LEMMA RequeueKeeps ==
  ASSUME RowsOK, NEW S \in SUBSET Workers, Requeue(S)
  PROVE  RowsOK' /\ Same
  BY DEF RowsOK, Same, Completed, In, Requeue, Row, States, Waiting

LEMMA CancelKeeps ==
  ASSUME RowsOK, CancelVideo
  PROVE  RowsOK' /\ Same
  BY DEF RowsOK, Same, Completed, In, CancelVideo, Set, Row, States, Waiting

LEMMA ReleaseKeeps ==
  ASSUME RowsOK, NEW S, ReleaseToLocal(S)
  PROVE  RowsOK' /\ Same
  BY DEF RowsOK, Same, Completed, In, ReleaseToLocal, Set, Row, States, Waiting

LEMMA AgainKeeps ==
  ASSUME RowsOK, NEW j \in Clips, NEW t \in Workers \cup {Nobody}, Again(j, t)
  PROVE  RowsOK' /\ Same
  BY NewRowType DEF RowsOK, Same, Completed, In, Again, NewRow, Row, States, Waiting

LEMMA GiveBackKeeps ==
  ASSUME RowsOK, NEW w \in Workers, NEW j \in Clips \ Completed, GiveBack(w, j)
  PROVE  RowsOK' /\ Same
  BY DEF RowsOK, Same, Completed, In, GiveBack, Row, States, Waiting

LEMMA CompleteKeeps ==
  ASSUME RowsOK, NEW w \in Workers, NEW j \in Clips, Complete(w, j)
  PROVE  RowsOK' /\ Completed' = Completed \cup ({j} \cap ActiveOf(w))
  BY DEF RowsOK, Completed, In, Complete, Set, ActiveOf, Row, States, Waiting

-----------------------------------------------------------------------------
(* Every step of the specification, by what it does to the rows: all but    *)
(* Verify leave the set of completed jobs as it is.                        *)

LEMMA SettingsTypes ==
  ASSUME QueueTypeOK, SettingsStep
  PROVE  QueueTypeOK' /\ Same
<1> USE Assumptions
<1>0. RowsOK /\ troubles \in 0 .. MaxTrouble
  BY DEF QueueTypeOK, RowsOK
<1>1. CASE RenderLocally
  <2>1. RowsOK' /\ Same
    BY <1>0, <1>1, ReleaseKeeps DEF RenderLocally
  <2> QED
    BY <1>0, <1>1, <2>1 DEF RenderLocally, Meets, QueueTypeOK, RowsOK
<1>2. CASE Retry
  <2>1. RowsOK' /\ Same
    BY <1>0, <1>2, AgainKeeps DEF Retry
  <2> QED
    BY <1>0, <1>2, <2>1 DEF Retry, Meets, QueueTypeOK, RowsOK
<1>3. CASE Hold
  BY <1>0, <1>3 DEF Hold, Meets, QueueTypeOK, Same, Completed, In
<1>4. CASE Unpair
  <2>1. PICK w \in paired : unpairing' = w /\ Requeue({w})
    BY <1>4 DEF Unpair
  <2>2. w \in Workers
    BY DEF QueueTypeOK
  <2>3. RowsOK' /\ Same
    BY <1>0, <2>1, <2>2, RequeueKeeps
  <2> QED
    BY <1>0, <1>4, <2>1, <2>2, <2>3 DEF Unpair, Meets, QueueTypeOK, RowsOK
<1>5. CASE Unpaired
  BY <1>5 DEF Unpaired, QueueTypeOK, Same, Completed, In
<1> QED
  BY <1>1, <1>2, <1>3, <1>4, <1>5 DEF SettingsStep

-----------------------------------------------------------------------------
(* The run's own steps. Each keeps the types, the places the clips can be    *)
(* in, and the account of what was handed over.                            *)

RunOK == /\ run \in Run /\ outcome \in [Clips -> {"none", "remote", "here", "error"}]
         /\ cancelled \in BOOLEAN /\ waited \in BOOLEAN /\ taken \subseteq Clips
         /\ runs \in 0 .. MaxRuns
RunInv == RunOK /\ RunPlaces /\ HandedOnce

LEMMA BeginKeeps == ASSUME RunInv, Begin PROVE RunInv'
<1> USE Assumptions
<1>1. PICK t \in Targets :
        run' = IF (t = Nobody /\ Online = {}) \/ (t # Nobody /\ t \notin paired)
               THEN [NoRun EXCEPT !.at = "alone", !.target = t, !.here = Clips]
               ELSE [NoRun EXCEPT !.at = "sending", !.target = t, !.todo = Clips \ LocalClips]
  BY DEF Begin
<1>2. \/ run' = [at |-> "alone", target |-> t, todo |-> {}, pending |-> {}, here |-> Clips, clip |-> NoClip]
      \/ run' = [at |-> "sending", target |-> t, todo |-> Clips \ LocalClips, pending |-> {},
                 here |-> {}, clip |-> NoClip]
  BY <1>1 DEF NoRun
<1>3. RunOK'
  <2>1. t \in Workers \cup {Nobody} /\ Clips \ LocalClips \subseteq Clips
    BY <1>1
  <2>2. run' \in Run
    BY <1>2, <2>1 DEF Run
  <2>3. outcome' \in [Clips -> {"none", "remote", "here", "error"}] /\ runs' \in 0 .. MaxRuns
    BY DEF Begin, RunInv, RunOK
  <2>4. cancelled' \in BOOLEAN /\ waited' \in BOOLEAN /\ taken' \subseteq Clips
    BY DEF Begin, RunInv, RunOK
  <2> QED
    BY <2>2, <2>3, <2>4 DEF RunOK
<1>4. \A j \in Clips : outcome'[j] = "none"
  BY DEF Begin
<1>5. RunPlaces' /\ HandedOnce'
  BY <1>2, <1>4 DEF RunPlaces, HandedOnce, At
<1> QED
  BY <1>3, <1>5 DEF RunInv

LEMMA SendKeeps == ASSUME RunInv, NEW j \in Clips, Send(j) PROVE RunInv'
<1> USE Assumptions DEF RunInv, At
<1>1. /\ run.at = "sending" /\ j \in run.todo
      /\ run' = [run EXCEPT !.todo = @ \ {j}, !.pending = @ \cup {j}]
      /\ UNCHANGED <<outcome, cancelled, waited, taken, runs>>
  BY DEF Send
<1>2. run' = [at |-> "sending", target |-> run.target, todo |-> run.todo \ {j},
              pending |-> run.pending \cup {j}, here |-> run.here, clip |-> run.clip]
  BY <1>1 DEF RunOK, Run
<1>3. RunOK'
  BY <1>1, <1>2 DEF RunOK, Run
<1>4. RunPlaces'
  BY <1>1, <1>2 DEF RunPlaces
<1>5. HandedOnce'
  BY <1>1, <1>2 DEF RunPlaces, HandedOnce
<1> QED
  BY <1>3, <1>4, <1>5

LEMMA SentKeeps == ASSUME RunInv, Sent PROVE RunInv'
<1> USE Assumptions DEF RunInv, At
<1>1. run.at = "sending" /\ run.todo = {} /\ UNCHANGED <<outcome, cancelled, waited, taken, runs>>
  BY DEF Sent
<1>2. run' = [at |-> "polling", target |-> run.target, todo |-> {}, pending |-> run.pending,
              here |-> LocalClips, clip |-> run.clip]
  BY <1>1 DEF Sent, RunOK, Run
<1> QED
  BY <1>1, <1>2 DEF RunOK, Run, RunPlaces, HandedOnce

(* A run that is over has nothing left to account for.                      *)
LEMMA OverKeeps ==
  ASSUME RunInv, run' = NoRun, UNCHANGED <<outcome, waited, taken, runs>>, cancelled' \in BOOLEAN
  PROVE  RunInv'
  BY Assumptions DEF RunInv, RunOK, Run, RunPlaces, HandedOnce, NoRun, At

(* A clip waited for is handed over, or taken over to render here.           *)
LEMMA HandOverKeeps ==
  ASSUME RunInv, NEW j \in Clips, Waits(j), NoLonger(j), UNCHANGED <<cancelled, waited, runs>>,
         NEW what \in {"remote", "error"}, Deliver(j, what), taken' \subseteq Clips
  PROVE  RunInv'
<1> USE Assumptions DEF RunInv, At
<1>1. run.at = "polling" /\ j \in run.pending
  BY DEF Waits
<1>2. run' = [at |-> "polling", target |-> run.target, todo |-> run.todo,
              pending |-> run.pending \ {j}, here |-> run.here, clip |-> run.clip]
  BY <1>1 DEF NoLonger, RunOK, Run
<1>3. \A i \in Clips : outcome'[i] = IF i = j THEN what ELSE outcome[i]
  BY DEF Deliver, RunOK
<1>4. RunOK'
  BY <1>2 DEF RunOK, Run, Deliver
<1>5. RunPlaces'
  BY <1>1, <1>2 DEF RunPlaces
<1>6. HandedOnce'
  BY <1>1, <1>2, <1>3 DEF RunPlaces, HandedOnce
<1> QED
  BY <1>4, <1>5, <1>6

LEMMA MoveHereKeeps ==
  ASSUME RunInv, NEW j \in Clips, run.at \in {"polling", "releasing"}, j \in run.pending,
         run' = [at |-> "polling", target |-> run.target, todo |-> run.todo,
                 pending |-> run.pending \ {j}, here |-> run.here \cup {j}, clip |-> run'.clip],
         run'.clip \in Clips \cup {NoClip}, UNCHANGED <<outcome, cancelled, waited, taken, runs>>
  PROVE  RunInv'
<1> USE DEF RunInv, At
<1>1. RunOK'
  BY DEF RunOK, Run
<1>2. RunPlaces' /\ HandedOnce'
  BY DEF RunPlaces, HandedOnce, RunOK, Run
<1> QED
  BY <1>1, <1>2

LEMMA RenderHereKeeps == ASSUME RunInv, NEW j \in Clips, RenderHere(j) PROVE RunInv'
<1> USE DEF RunInv, At
<1>1. run.at \in {"polling", "alone"} /\ j \in run.here /\ UNCHANGED <<cancelled, waited, taken, runs>>
  BY DEF RenderHere
<1>2. run' = [at |-> run.at, target |-> run.target, todo |-> run.todo, pending |-> run.pending,
              here |-> run.here \ {j}, clip |-> run.clip]
  BY <1>1 DEF RenderHere, RunOK, Run
<1>3. \A i \in Clips : outcome'[i] = IF i = j THEN "here" ELSE outcome[i]
  BY DEF RenderHere, Deliver, RunOK
<1>4. RunOK'
  BY <1>1, <1>2 DEF RenderHere, RunOK, Run, Deliver
<1>5. RunPlaces' /\ HandedOnce'
  BY <1>1, <1>2, <1>3 DEF RunPlaces, HandedOnce
<1> QED
  BY <1>4, <1>5

LEMMA RunStepKeeps == ASSUME RunInv, RunStep PROVE RunInv'
<1>1. ASSUME NEW j \in Clips, Send(j) \/ RenderHere(j) PROVE RunInv'
  BY <1>1, SendKeeps, RenderHereKeeps
<1>2. ASSUME NEW j \in Clips, Take(j) PROVE RunInv'
  <2>1. PICK what \in {"remote", "error"} : Deliver(j, what)
    BY <1>2 DEF Take
  <2>2. taken' \subseteq Clips
    BY <1>2 DEF Take, RunInv, RunOK
  <2> QED
    BY <1>2, <2>1, <2>2, HandOverKeeps DEF Take
<1>3. ASSUME NEW j \in Clips, GiveUp(j) PROVE RunInv'
  <2>1. taken' \subseteq Clips
    BY <1>3 DEF GiveUp, RunInv, RunOK
  <2> QED
    BY <1>3, <2>1, HandOverKeeps DEF GiveUp
<1>4. ASSUME NEW j \in Clips, TakeOver(j) PROVE RunInv'
  <2>1. /\ run.at = "polling" /\ j \in run.pending
        /\ run' = [at |-> "polling", target |-> run.target, todo |-> run.todo,
                   pending |-> run.pending \ {j}, here |-> run.here \cup {j}, clip |-> run.clip]
        /\ UNCHANGED <<outcome, cancelled, waited, taken, runs>>
    BY <1>4 DEF TakeOver, Waits, At, RunInv, RunOK, Run
  <2>2. run'.clip = run.clip /\ run.clip \in Clips \cup {NoClip}
    BY <2>1 DEF RunInv, RunOK, Run
  <2> QED
    BY <2>1, <2>2, MoveHereKeeps
<1>5. ASSUME NEW j \in Clips, Bring(j) PROVE RunInv'
  <2>1. /\ run.at = "polling" /\ j \in run.pending
        /\ run' = [at |-> "releasing", target |-> run.target, todo |-> run.todo,
                   pending |-> run.pending, here |-> run.here, clip |-> j]
        /\ UNCHANGED <<outcome, cancelled, waited, taken, runs>>
    BY <1>5 DEF Bring, Waits, At, RunInv, RunOK, Run
  <2> QED
    BY <2>1 DEF RunInv, RunOK, Run, RunPlaces, HandedOnce, At
<1>6. CASE Release
  <2>1. /\ run.at = "releasing" /\ run.clip \in run.pending
        /\ run' = [at |-> "polling", target |-> run.target, todo |-> run.todo,
                   pending |-> run.pending \ {run.clip}, here |-> run.here \cup {run.clip}, clip |-> NoClip]
        /\ UNCHANGED <<outcome, cancelled, waited, taken, runs>>
    BY <1>6 DEF Release, At, RunInv, RunOK, Run, RunPlaces
  <2>2. run.clip \in Clips /\ run'.clip = NoClip
    BY <2>1 DEF RunInv, RunOK, Run
  <2> QED
    BY <2>1, <2>2, MoveHereKeeps
<1>7. CASE Sent
  BY <1>7, SentKeeps
<1>8. CASE StopEarly \/ StopPolling \/ End
  <2>1. run' = NoRun /\ UNCHANGED <<outcome, cancelled, waited, taken, runs>>
    BY <1>8 DEF StopEarly, StopPolling, End
  <2> QED
    BY <2>1, OverKeeps DEF RunInv, RunOK
<1>9. CASE Look
  BY <1>9 DEF Look, RunInv, RunOK, RunPlaces, HandedOnce, At
<1> QED
  BY <1>1, <1>2, <1>3, <1>4, <1>5, <1>6, <1>7, <1>8, <1>9 DEF RunStep

-----------------------------------------------------------------------------
(* The files: what is known of them, and the steps of which an open file is  *)
(* closed or its name is gone.                                             *)

Parts == [Clips -> [there : BOOLEAN, size : Nat, by : SUBSET (Workers \cup {Nobody})]]
Kept  == [Clips -> SUBSET (Workers \cup {Nobody})]
Put   == [clip : Clips \cup {NoClip}, into : {"none", "part", "result", "gone"}, offset : Nat]
Puts  == [Workers -> Put]

(* Nothing new is awaited.                                                 *)
PutsOff ==
  put' \in Puts /\ \A w \in Workers : put'[w] = put[w] \/ put'[w].into \in {"none", "gone"}

LEMMA NoPutIsPut == NoPut \in Put /\ NoPut.into = "none"
  BY DEF NoPut, Put

LEMMA RedirectedType ==
  ASSUME put \in Puts, NEW j, NEW from, NEW to \in {"gone", "result"}
  PROVE  /\ Redirected(j, from, to) \in Puts
         /\ \A w \in Workers :
              LET new == Redirected(j, from, to)[w] IN
                /\ put[w].clip = j /\ put[w].into = from => new.into = to /\ new.clip = j
                /\ ~(put[w].clip = j /\ put[w].into = from) => new = put[w]
<1>1. ASSUME NEW w \in Workers
      PROVE  LET new == [put[w] EXCEPT !.into = to] IN
               new \in Put /\ new.into = to /\ new.clip = put[w].clip
  <2>1. put[w] \in Put
    BY DEF Puts
  <2> QED
    BY <2>1 DEF Put
<1>2. \A w \in Workers : put[w] \in Put
  BY DEF Puts
<1> QED
  BY <1>1, <1>2 DEF Redirected, Puts

LEMMA RedirectedOff ==
  ASSUME put \in Puts, NEW j, NEW from, put' = Redirected(j, from, "gone")
  PROVE  PutsOff
  BY RedirectedType DEF PutsOff

LEMMA ClosedOff ==
  ASSUME put \in Puts, NEW w \in Workers, put' = [put EXCEPT ![w] = NoPut]
  PROVE  PutsOff
  BY NoPutIsPut DEF PutsOff, Puts

(* What the run's steps do to the rows, the workers and the files.           *)
LEMMA RunStepTypes ==
  ASSUME TypeOK, Begin \/ RunStep \/ Cancel
  PROVE  QueueTypeOK' /\ GatewayTypeOK' /\ Same /\ PutsOff /\ UNCHANGED <<hand, off, part, spoilt>>
<1> USE Assumptions
<1>0. RowsOK /\ QueueTypeOK /\ GatewayTypeOK /\ run \in Run /\ put \in Puts
  BY DEF TypeOK, QueueTypeOK, RowsOK, GatewayTypeOK, Puts, Put
<1>1. ASSUME UNCHANGED <<table, remote>>, troubles' \in 0 .. MaxTrouble
      PROVE  QueueTypeOK' /\ GatewayTypeOK' /\ Same /\ PutsOff /\ UNCHANGED <<hand, off, part, spoilt>>
  BY <1>0, <1>1 DEF QueueTypeOK, GatewayTypeOK, table, remote, files, Same, Completed, In, PutsOff
<1>2. ASSUME RowsOK', Same, UNCHANGED <<paired, fresh, held, unpairing, troubles, remote>>
      PROVE  QueueTypeOK' /\ GatewayTypeOK' /\ Same /\ PutsOff /\ UNCHANGED <<hand, off, part, spoilt>>
  BY <1>0, <1>2 DEF QueueTypeOK, GatewayTypeOK, RowsOK, remote, files, PutsOff
<1>3. troubles \in 0 .. MaxTrouble
  BY <1>0 DEF QueueTypeOK
<1>4. CASE Cancel
  <2>1. troubles' \in 0 .. MaxTrouble
    BY <1>3, <1>4 DEF Cancel, Meets
  <2> QED
    BY <1>1, <1>4, <2>1 DEF Cancel
<1>5. CASE Begin \/ Sent \/ StopEarly \/ Look \/ End
  BY <1>1, <1>3, <1>5 DEF Begin, Sent, StopEarly, Look, End
<1>6. ASSUME NEW j \in Clips, TakeOver(j) \/ Bring(j) \/ GiveUp(j) \/ RenderHere(j)
      PROVE  QueueTypeOK' /\ GatewayTypeOK' /\ Same /\ PutsOff /\ UNCHANGED <<hand, off, part, spoilt>>
  BY <1>1, <1>3, <1>6 DEF TakeOver, Bring, GiveUp, RenderHere
<1>7. ASSUME NEW j \in Clips, Send(j)
      PROVE  QueueTypeOK' /\ GatewayTypeOK' /\ Same /\ PutsOff /\ UNCHANGED <<hand, off, part, spoilt>>
  <2>1. run.target \in Workers \cup {Nobody}
    BY <1>0 DEF Run
  <2> QED
    BY <1>0, <1>2, <1>7, <2>1, SubmitKeeps DEF Send
<1>8. ASSUME NEW j \in Clips, Take(j)
      PROVE  QueueTypeOK' /\ GatewayTypeOK' /\ Same /\ PutsOff /\ UNCHANGED <<hand, off, part, spoilt>>
  <2>1. put' = Redirected(j, "result", "gone") /\ results' = [results EXCEPT ![j] = {}]
        /\ UNCHANGED <<table, troubles, hand, off, part, spoilt>>
    BY <1>8 DEF Take
  <2>2. PutsOff
    BY <1>0, <2>1, RedirectedOff
  <2>3. QueueTypeOK' /\ Same
    BY <1>0, <2>1 DEF QueueTypeOK, table, Same, Completed, In
  <2>4. results' \in Kept
    BY <1>0, <2>1 DEF GatewayTypeOK, Kept
  <2>5. GatewayTypeOK'
    BY <1>0, <2>1, <2>2, <2>4 DEF GatewayTypeOK, PutsOff, Puts, Put, Kept
  <2> QED
    BY <2>1, <2>2, <2>3, <2>5
<1>9. CASE StopPolling
  BY <1>0, <1>2, <1>9, CancelKeeps DEF StopPolling
<1>10. CASE Release
  BY <1>0, <1>2, <1>10, ReleaseKeeps DEF Release
<1> QED
  BY <1>4, <1>5, <1>6, <1>7, <1>8, <1>9, <1>10 DEF RunStep

-----------------------------------------------------------------------------
(* The workers, the handlers, the sweeper, time and power.                  *)

ResultsInv == GivenBackIsOpen /\ NothingToVerify /\ AwaitedKnown /\ ResultIsKept
StoreInv   == QueueTypeOK /\ GatewayTypeOK /\ ResultsInv

(* A step that completes nothing, gives back nothing that is completed and   *)
(* leaves the files of completed jobs alone keeps what is known of results.  *)
LEMMA ResultsStay ==
  ASSUME ResultsInv, Same, Completed \subseteq Clips, taken \subseteq taken', spoilt \subseteq spoilt',
         \A w \in Workers : hand'[w].at = "giveback" => hand'[w].clip \notin Completed,
         \A j \in Completed :
           part'[j] = part[j] /\ (j \in taken' \cup spoilt' \/ results'[j] = results[j]),
         \A w \in Workers : \/ put'[w] = put[w] \/ put'[w].into \in {"none", "gone"}
                            \/ put'[w].into = "part" /\ put'[w].clip \notin Completed
  PROVE  ResultsInv'
<1>1. GivenBackIsOpen' /\ NothingToVerify'
  BY DEF ResultsInv, GivenBackIsOpen, NothingToVerify, Same, NoPart
<1>2. ResultIsKept'
  <2>1. \A j \in Completed \ (taken \cup spoilt) : \E w \in Workers : results[j] = {w}
    BY DEF ResultsInv, ResultIsKept, ResultIsWhole, Completed
  <2>2. \A j \in Completed' \ (taken' \cup spoilt') : \E w \in Workers : results'[j] = {w}
    BY <2>1 DEF Same
  <2> QED
    BY <2>2 DEF ResultIsKept, ResultIsWhole, Completed
<1>3. AwaitedKnown'
  BY DEF ResultsInv, AwaitedKnown, Same
<1> QED
  BY <1>1, <1>2, <1>3 DEF ResultsInv

LEMMA CompletedAreClips == Completed \subseteq Clips
  BY DEF Completed, In

Hand  == [clip : Clips \cup {NoClip}, at : Places, stop : BOOLEAN]
Hands == [Workers -> Hand]
HasClip(h) == \A w \in Workers : h[w].at # "none" => h[w].clip \in Clips

LEMMA HandChange ==
  ASSUME hand \in Hands, HasClip(hand), NEW w \in Workers, NEW new \in Hand,
         new.at # "none" => new.clip \in Clips, hand' = [hand EXCEPT ![w] = new]
  PROVE  /\ hand' \in Hands /\ HasClip(hand')
         /\ \A v \in Workers : hand'[v] = IF v = w THEN new ELSE hand[v]
  BY DEF Hands, HasClip, Hand

HandOK == hand \in Hands /\ HasClip(hand)

LEMMA DropMoves ==
  ASSUME HandOK, NEW w \in Workers, Drop(w)
  PROVE  HandOK' /\ hand'[w].at = "none" /\ \A v \in Workers \ {w} : hand'[v] = hand[v]
<1>1. NoHand \in Hand /\ NoHand.at = "none"
  BY DEF NoHand, Hand, Places
<1>2. hand' = [hand EXCEPT ![w] = NoHand]
  BY DEF Drop
<1>3. HandOK' /\ \A v \in Workers : hand'[v] = IF v = w THEN NoHand ELSE hand[v]
  BY <1>1, <1>2, HandChange DEF HandOK
<1> QED
  BY <1>1, <1>3

LEMMA GoMoves ==
  ASSUME HandOK, NEW w \in Workers, hand[w].at # "none", NEW at \in Places, Go(w, at)
  PROVE  /\ HandOK' /\ hand'[w].at = at /\ hand'[w].clip = hand[w].clip
         /\ \A v \in Workers \ {w} : hand'[v] = hand[v]
<1>1. hand[w] \in Hand /\ hand[w].clip \in Clips
  BY DEF HandOK, Hands, Hand, HasClip
<1> DEFINE new == [clip |-> hand[w].clip, at |-> at, stop |-> hand[w].stop]
<1>2. [hand[w] EXCEPT !.at = at] = new
  BY <1>1 DEF Hand
<1>3. hand' = [hand EXCEPT ![w] = new]
  <2>1. hand' = [hand EXCEPT ![w] = [hand[w] EXCEPT !.at = at]]
    BY DEF Go
  <2> QED
    BY <1>2, <2>1
<1>4. new \in Hand /\ new.at = at /\ new.clip = hand[w].clip
  BY <1>1 DEF Hand
<1> HIDE DEF new
<1>5. HandOK' /\ \A v \in Workers : hand'[v] = IF v = w THEN new ELSE hand[v]
  BY <1>1, <1>3, <1>4, HandChange DEF HandOK
<1> QED
  BY <1>4, <1>5

LEMMA StoreParts ==
  StoreInv <=> /\ QueueTypeOK /\ HandOK /\ off \subseteq Workers
               /\ part \in Parts /\ results \in Kept /\ put \in Puts /\ spoilt \subseteq Clips
               /\ ResultsInv
  BY DEF StoreInv, GatewayTypeOK, HandOK, Hand, Hands, HasClip, Parts, Kept, Puts, Put

LEMMA StoreNext ==
  ASSUME QueueTypeOK', HandOK', off' \subseteq Workers, ResultsInv',
         part' \in Parts, results' \in Kept, put' \in Puts, spoilt' \subseteq Clips
  PROVE  StoreInv'
  BY DEF StoreInv, GatewayTypeOK, HandOK, Hand, Hands, HasClip, Parts, Kept, Puts, Put

(* A worker that drops its job, or goes on to a place that is not "giveback" *)
(* or to it with a job that is not completed, gives back nothing completed.  *)
LEMMA HandStays ==
  ASSUME HandOK, GivenBackIsOpen, NEW w \in Workers, hand[w].at # "none",
         \/ Drop(w)
         \/ \E at \in Places \ {"giveback"} : Go(w, at)
         \/ Go(w, "giveback") /\ hand[w].clip \notin Completed
  PROVE  /\ HandOK'
         /\ \A v \in Workers : hand'[v].at = "giveback" => hand'[v].clip \notin Completed
<1>1. CASE Drop(w)
  BY <1>1, DropMoves DEF GivenBackIsOpen
<1>2. CASE \E at \in Places \ {"giveback"} : Go(w, at)
  BY <1>2, GoMoves DEF GivenBackIsOpen
<1>3. CASE Go(w, "giveback") /\ hand[w].clip \notin Completed
  <2>1. "giveback" \in Places
    BY DEF Places
  <2> QED
    BY <1>3, <2>1, GoMoves DEF GivenBackIsOpen
<1> QED
  BY <1>1, <1>2, <1>3

(* The steps of a worker that touch neither rows nor files.                 *)
LEMMA HandStep ==
  ASSUME StoreInv, NEW w \in Workers, UNCHANGED <<table, off, files, taken>>,
         troubles' \in 0 .. MaxTrouble, hand[w].at # "none",
         Drop(w) \/ \E at \in Places \ {"giveback"} : Go(w, at)
  PROVE  StoreInv'
<1>1. QueueTypeOK' /\ Same
  BY DEF StoreInv, QueueTypeOK, Same, Completed, In, table
<1>2. HandOK' /\ \A v \in Workers : hand'[v].at = "giveback" => hand'[v].clip \notin Completed
  BY StoreParts, HandStays DEF ResultsInv
<1>3. ResultsInv'
  BY <1>1, <1>2, StoreParts, CompletedAreClips, ResultsStay DEF files
<1> QED
  BY <1>1, <1>2, <1>3, StoreParts, StoreNext DEF files

LEMMA HeartbeatKeeps ==
  ASSUME StoreInv, NEW w \in Workers, Heartbeat(w), UNCHANGED taken PROVE StoreInv'
<1>1. hand \in Hands /\ HasClip(hand) /\ GatewayTypeOK /\ QueueTypeOK
  BY DEF StoreInv, GatewayTypeOK, Hand, Hands, HasClip
<1>2. hand' \in Hands /\ HasClip(hand') /\ \A v \in Workers : hand'[v].at = hand[v].at /\ hand'[v].clip = hand[v].clip
  BY <1>1 DEF Heartbeat, Hand, Hands, HasClip
<1>3. QueueTypeOK' /\ GatewayTypeOK'
  BY <1>1, <1>2 DEF Heartbeat, QueueTypeOK, GatewayTypeOK, files, Hand, Hands, HasClip
<1>4. Same /\ ResultsInv
  BY DEF Heartbeat, Same, Completed, In, StoreInv
<1>5. ResultsInv'
  BY <1>2, <1>4, CompletedAreClips, ResultsStay DEF Heartbeat, files, ResultsInv, GivenBackIsOpen
<1> QED
  BY <1>3, <1>5 DEF StoreInv

LEMMA TakeJobKeeps ==
  ASSUME StoreInv, NEW w \in Workers, TakeJob(w), UNCHANGED taken PROVE StoreInv'
<1> USE Assumptions
<1>1. hand \in Hands /\ HasClip(hand) /\ GatewayTypeOK /\ QueueTypeOK /\ RowsOK
  BY DEF StoreInv, QueueTypeOK, GatewayTypeOK, Hand, Hands, HasClip, RowsOK
<1>2. PICK j \in Clips :
        /\ Claim(w, j)
        /\ \/ hand' = [hand EXCEPT ![w] = [clip |-> j, at |-> "transfer", stop |-> FALSE]]
              /\ UNCHANGED troubles
           \/ Meets("lost") /\ UNCHANGED hand
  BY DEF TakeJob
<1>3. RowsOK' /\ Same
  BY <1>1, <1>2, ClaimKeeps
<1>4. hand' \in Hands /\ HasClip(hand') /\ \A v \in Workers : hand'[v].at = "giveback" => hand'[v] = hand[v]
  <2> DEFINE new == [clip |-> j, at |-> "transfer", stop |-> FALSE]
  <2>1. new \in Hand /\ new.clip \in Clips /\ new.at # "giveback"
    BY DEF Hand, Places
  <2>2. CASE hand' = [hand EXCEPT ![w] = new]
    <3> HIDE DEF new
    <3>1. /\ hand' \in Hands /\ HasClip(hand')
          /\ \A v \in Workers : hand'[v] = IF v = w THEN new ELSE hand[v]
      BY <1>1, <2>1, <2>2, HandChange
    <3> QED
      BY <2>1, <3>1
  <2> QED
    BY <1>1, <1>2, <2>2
<1>5. troubles' \in 0 .. MaxTrouble
  BY <1>1, <1>2 DEF Meets, QueueTypeOK
<1>6. QueueTypeOK' /\ GatewayTypeOK'
  BY <1>1, <1>3, <1>4, <1>5 DEF TakeJob, files, QueueTypeOK, GatewayTypeOK, Hand, Hands, HasClip, RowsOK
<1>7. ResultsInv'
  BY <1>3, <1>4, CompletedAreClips, ResultsStay DEF TakeJob, files, StoreInv, ResultsInv, GivenBackIsOpen
<1> QED
  BY <1>6, <1>7 DEF StoreInv

LEMMA QuietWorkerKeeps ==
  ASSUME StoreInv, NEW w \in Workers, Transfer(w) \/ Render(w) \/ Killed(w) \/ Resume(w) \/ AskComplete(w),
         UNCHANGED taken
  PROVE  StoreInv'
<1>1. troubles' \in 0 .. MaxTrouble
  BY Assumptions DEF StoreInv, QueueTypeOK, Transfer, Render, Killed, Resume, AskComplete, Meets
<1>2. hand[w].at # "none"
  BY DEF Transfer, Render, Killed, Resume, AskComplete, Holding
<1>3. Drop(w) \/ \E at \in Places \ {"giveback"} : Go(w, at)
  BY DEF Transfer, Render, Killed, Resume, AskComplete, Places
<1>4. UNCHANGED <<table, off, files>>
  BY DEF Transfer, Render, Killed, Resume, AskComplete
<1> QED
  BY <1>1, <1>2, <1>3, <1>4, HandStep

LEMMA AppendedType ==
  ASSUME NEW file \in [there : BOOLEAN, size : Nat, by : SUBSET (Workers \cup {Nobody})],
         NEW w \in Workers, NEW offset
  PROVE  Appended(file, w, offset) \in [there : BOOLEAN, size : Nat, by : SUBSET (Workers \cup {Nobody})]
  BY DEF Appended

(* A chunk is accepted of an owner only: what it goes into is not completed.  *)
LEMMA UploadKeeps ==
  ASSUME StoreInv, NEW w \in Workers, Upload(w), UNCHANGED taken PROVE StoreInv'
<1> DEFINE j == hand[w].clip
           NotBack == \E at \in Places \ {"giveback"} : Go(w, at)
<1>1. hand[w].at # "none" /\ UNCHANGED <<table, off, results, spoilt>>
  BY DEF Upload, Holding
<1>2. troubles' \in 0 .. MaxTrouble
  BY Assumptions DEF Upload, Meets, StoreInv, QueueTypeOK
<1>3. NotBack
  BY DEF Upload, After, Places
<1>4. CASE UNCHANGED <<part, put>>
  BY <1>1, <1>2, <1>3, <1>4, HandStep DEF files
<1>5. CASE /\ j \in ActiveOf(w) /\ put' \in Puts
           /\ \A v \in Workers : put'[v] = put[v] \/ (put'[v].into = "part" /\ put'[v].clip = j)
           /\ \E new \in [there : BOOLEAN, size : Nat, by : SUBSET (Workers \cup {Nobody})] :
                part' = [part EXCEPT ![j] = new]
  <2>1. j \in Clips /\ j \notin Completed
    BY <1>5 DEF ActiveOf, In, Completed
  <2>2. part' \in Parts /\ \A i \in Completed : part'[i] = part[i]
    BY <1>5, <2>1, StoreParts, CompletedAreClips DEF Parts
  <2>3. QueueTypeOK' /\ Same
    BY <1>1, <1>2 DEF StoreInv, QueueTypeOK, Same, Completed, In, table
  <2>4. HandOK' /\ \A v \in Workers : hand'[v].at = "giveback" => hand'[v].clip \notin Completed
    BY <1>1, <1>3, StoreParts, HandStays DEF ResultsInv
  <2>5. ResultsInv'
    BY <1>1, <1>5, <2>1, <2>2, <2>3, <2>4, StoreParts, CompletedAreClips, ResultsStay
  <2> QED
    BY <1>1, <1>5, <2>2, <2>3, <2>4, <2>5, StoreParts, StoreNext
<1>6. CASE /\ Mine(w) /\ UNCHANGED put
           /\ part' = [part EXCEPT ![j] = Appended(@, w, @.size)]
  <2>1. j \in ActiveOf(w) /\ j \in Clips
    BY <1>6 DEF Mine, Owns, ActiveOf, In
  <2>2. Appended(part[j], w, part[j].size) \in [there : BOOLEAN, size : Nat, by : SUBSET (Workers \cup {Nobody})]
    BY <2>1, StoreParts, AppendedType DEF Parts
  <2>3. put' \in Puts
    BY <1>6, StoreParts
  <2> QED
    BY <1>5, <1>6, <2>1, <2>2, <2>3
<1>7. CASE /\ Mine(w) /\ part' = [part EXCEPT ![j].there = TRUE]
           /\ put' = [put EXCEPT ![w] = [clip |-> j, into |-> "part", offset |-> part[j].size]]
  <2>1. j \in ActiveOf(w) /\ j \in Clips
    BY <1>7 DEF Mine, Owns, ActiveOf, In
  <2>2. part[j] \in [there : BOOLEAN, size : Nat, by : SUBSET (Workers \cup {Nobody})]
    BY <2>1, StoreParts DEF Parts
  <2> DEFINE opened == [part[j] EXCEPT !.there = TRUE]
             body   == [clip |-> j, into |-> "part", offset |-> part[j].size]
  <2>3. opened \in [there : BOOLEAN, size : Nat, by : SUBSET (Workers \cup {Nobody})]
    BY <2>2
  <2>4. body \in Put /\ body.into = "part" /\ body.clip = j
    BY <2>1, <2>2 DEF Put
  <2>5. part' = [part EXCEPT ![j] = opened] /\ put' = [put EXCEPT ![w] = body]
    BY <1>7, <2>1, StoreParts DEF Parts
  <2> HIDE DEF opened, body
  <2>6. put' \in Puts /\ \A v \in Workers : put'[v] = put[v] \/ put'[v] = body
    BY <2>4, <2>5, StoreParts DEF Puts
  <2> QED
    BY <1>5, <2>1, <2>3, <2>4, <2>5, <2>6
<1> QED
  BY <1>4, <1>6, <1>7 DEF Upload

(* A body that arrives is written where its file is by now: never into what  *)
(* belongs to a completed job, but for those moved while it was awaited.      *)
LEMMA ArriveKeeps ==
  ASSUME StoreInv, NEW w \in Workers, Arrive(w) \/ Broken(w), UNCHANGED taken PROVE StoreInv' /\ Same
<1> DEFINE j == put[w].clip
           File == [there : BOOLEAN, size : Nat, by : SUBSET (Workers \cup {Nobody})]
<1>1. UNCHANGED <<table, off, spoilt, troubles>> /\ put' = [put EXCEPT ![w] = NoPut]
  BY DEF Arrive, Broken
<1>2. QueueTypeOK' /\ Same
  BY <1>1 DEF StoreInv, QueueTypeOK, Same, Completed, In, table
<1>3. PutsOff
  BY <1>1, StoreParts, ClosedOff
<1>4. /\ HandOK' 
      /\ \A v \in Workers : hand'[v].at = "giveback" => hand'[v].clip \notin Completed
  <2>1. CASE UNCHANGED hand
    BY <2>1, StoreParts DEF HandOK, ResultsInv, GivenBackIsOpen
  <2>2. CASE hand[w].at = "sending" /\ \E at \in Places \ {"giveback"} : Go(w, at)
    BY <2>2, StoreParts, HandStays DEF ResultsInv
  <2> QED
    BY <2>1, <2>2 DEF Arrive, Broken, After, Places
<1>5. part' \in Parts /\ \A i \in Completed : part'[i] = part[i]
  <2>1. CASE UNCHANGED part
    BY <2>1, StoreParts
  <2>2. CASE put[w].into = "part" /\ part' = [part EXCEPT ![j] = Appended(@, w, put[w].offset)]
    <3>1. j \notin Completed
      BY <2>2, StoreParts DEF ResultsInv, AwaitedKnown
    <3>2. j \in Clips => Appended(part[j], w, put[w].offset) \in File
      BY StoreParts, AppendedType DEF Parts
    <3> QED
      BY <2>2, <3>1, <3>2, StoreParts, CompletedAreClips DEF Parts
  <2> QED
    BY <2>1, <2>2 DEF Arrive, Broken
<1>6. results' \in Kept /\ \A i \in Completed : i \in taken' \cup spoilt' \/ results'[i] = results[i]
  <2>1. CASE UNCHANGED results
    BY <2>1, StoreParts
  <2>2. CASE put[w].into = "result" /\ results' = [results EXCEPT ![j] = @ \cup {Nobody}]
    <3>1. j \in spoilt'
      BY <1>1, <2>2, StoreParts DEF ResultsInv, AwaitedKnown
    <3> QED
      BY <2>2, <3>1, StoreParts, CompletedAreClips DEF Kept
  <2> QED
    BY <2>1, <2>2 DEF Arrive, Broken
<1>7. ResultsInv'
  BY <1>1, <1>2, <1>3, <1>4, <1>5, <1>6, StoreParts, CompletedAreClips, ResultsStay DEF PutsOff
<1> QED
  BY <1>1, <1>2, <1>3, <1>4, <1>5, <1>6, <1>7, StoreParts, StoreNext DEF PutsOff

(* A step that deletes the part of a clip that is not completed, and gives   *)
(* it back if it is its own.                                               *)
LEMMA DeletePart ==
  ASSUME StoreInv, NEW w \in Workers, UNCHANGED <<table, off, results, spoilt, taken>>,
         troubles' \in 0 .. MaxTrouble, hand[w].at # "none",
         PartDeleted(hand[w].clip),
         Drop(w) \/ (Go(w, "giveback") /\ hand[w].clip \in ActiveOf(w))
  PROVE  StoreInv'
<1>1. QueueTypeOK' /\ Same
  BY DEF StoreInv, QueueTypeOK, Same, Completed, In, table
<1>2. hand[w].clip \in ActiveOf(w) => hand[w].clip \notin Completed
  BY DEF ActiveOf, Completed, In
<1>3. HandOK' /\ \A v \in Workers : hand'[v].at = "giveback" => hand'[v].clip \notin Completed
  BY <1>2, StoreParts, HandStays DEF ResultsInv
<1>4. part' \in Parts /\ PutsOff
  <2>1. NoPart \in [there : BOOLEAN, size : Nat, by : SUBSET (Workers \cup {Nobody})]
    BY DEF NoPart
  <2> QED
    BY <2>1, StoreParts, RedirectedOff DEF PartDeleted, Parts
<1>5. \A j \in Completed : part'[j] = part[j]
  BY StoreParts, CompletedAreClips DEF PartDeleted, Parts, ResultsInv, NothingToVerify
<1>6. ResultsInv'
  BY <1>1, <1>3, <1>4, <1>5, StoreParts, CompletedAreClips, ResultsStay DEF PutsOff
<1> QED
  BY <1>1, <1>3, <1>4, <1>6, StoreParts, StoreNext DEF PutsOff

(* The one step that completes a job: what it moves into results/ is one     *)
(* worker's whole render, and when the job is no longer its own it was not   *)
(* completed either, or there would have been no part.                      *)
LEMMA CompletingKeeps ==
  ASSUME StoreInv, NEW w \in Workers, hand[w].at = "verify", UNCHANGED <<paired, fresh, held, unpairing, off, taken>>,
         troubles' \in 0 .. MaxTrouble, Unlocked,
         Drop(w) \/ Go(w, "failing"),
         NEW j \in Clips, j = hand[w].clip, Whole(w, j),
         part' = [part EXCEPT ![j] = NoPart], Complete(w, j),
         IF j \in ActiveOf(w)
         THEN /\ results' = [results EXCEPT ![j] = part[j].by]
              /\ put' = Redirected(j, "part", "result")
              /\ spoilt' = spoilt \cup {i \in {j} : AwaitedIn(j, "part") # {}}
         ELSE /\ results' = [results EXCEPT ![j] = {}]
              /\ put' = Redirected(j, "part", "gone")
              /\ UNCHANGED spoilt
  PROVE  StoreInv' /\ Completed \subseteq Completed'
<1>1. RowsOK' /\ Completed' = Completed \cup ({j} \cap ActiveOf(w))
  BY CompleteKeeps DEF StoreInv, QueueTypeOK, RowsOK
<1>2. QueueTypeOK'
  BY <1>1 DEF StoreInv, QueueTypeOK, RowsOK
<1>3. HandOK' /\ \A v \in Workers : hand'[v].at # "giveback"
  <2>1. "failing" \in Places
    BY DEF Places
  <2> QED
    BY <2>1, StoreParts, DropMoves, GoMoves DEF Unlocked
<1>4. part[j].by = {w} /\ part[j].there
  BY DEF Whole
<1>5. j \notin Completed
  BY <1>4 DEF StoreInv, ResultsInv, NothingToVerify, NoPart
<1>6. part' \in Parts /\ part'[j] = NoPart /\ \A i \in Clips \ {j} : part'[i] = part[i]
  BY StoreParts DEF Parts, NoPart
<1>7. /\ results' \in Kept /\ results'[j] = IF j \in ActiveOf(w) THEN {w} ELSE {}
      /\ \A i \in Clips \ {j} : results'[i] = results[i]
  <2>1. results \in Kept
    BY StoreParts
  <2>2. CASE j \in ActiveOf(w)
    <3>1. results' = [results EXCEPT ![j] = {w}]
      BY <1>4, <2>2
    <3> QED
      BY <2>1, <2>2, <3>1 DEF Kept
  <2>3. CASE j \notin ActiveOf(w)
    <3>1. results' = [results EXCEPT ![j] = {}]
      BY <2>3
    <3> QED
      BY <2>1, <2>3, <3>1 DEF Kept
  <2> QED
    BY <2>2, <2>3
<1>8. spoilt' \subseteq Clips /\ spoilt \subseteq spoilt'
  BY StoreParts
<1>9. put' \in Puts /\ AwaitedKnown'
  <2>1. AwaitedKnown /\ put \in Puts
    BY StoreParts DEF ResultsInv
  <2>2. CASE j \in ActiveOf(w)
    <3>1. put' = Redirected(j, "part", "result")
      BY <2>2
    <3>2. \A v \in Workers : put[v].clip = j /\ put[v].into = "part" => j \in spoilt'
      BY <2>2 DEF AwaitedIn
    <3>3. put' \in Puts /\ \A v \in Workers :
                /\ put[v].clip = j /\ put[v].into = "part" => put'[v].into = "result" /\ put'[v].clip = j
                /\ ~(put[v].clip = j /\ put[v].into = "part") => put'[v] = put[v]
      BY <2>1, <3>1, RedirectedType
    <3> QED
      BY <1>1, <1>8, <2>1, <3>2, <3>3 DEF AwaitedKnown
  <2>3. CASE j \notin ActiveOf(w)
    <3>1. put' = Redirected(j, "part", "gone") /\ spoilt' = spoilt
      BY <2>3
    <3>2. PutsOff
      BY <2>1, <3>1, RedirectedOff
    <3> QED
      BY <1>1, <2>1, <2>3, <3>1, <3>2 DEF AwaitedKnown, PutsOff
  <2> QED
    BY <2>2, <2>3
<1>10. \A i \in Completed' : part'[i] = NoPart
  BY <1>1, <1>5, <1>6, CompletedAreClips DEF StoreInv, ResultsInv, NothingToVerify
<1>11. \A i \in Completed' \ (taken' \cup spoilt') : \E v \in Workers : results'[i] = {v}
  BY <1>1, <1>5, <1>7, <1>8, CompletedAreClips
     DEF StoreInv, ResultsInv, ResultIsKept, ResultIsWhole, Completed
<1>12. ResultsInv'
  BY <1>3, <1>9, <1>10, <1>11
     DEF ResultsInv, GivenBackIsOpen, NothingToVerify, ResultIsKept, ResultIsWhole, Completed, NoPart
<1> QED
  BY <1>1, <1>2, <1>3, <1>6, <1>7, <1>8, <1>9, <1>12, StoreParts, StoreNext

LEMMA VerifyKeeps ==
  ASSUME StoreInv, NEW w \in Workers, Verify(w), UNCHANGED taken
  PROVE  StoreInv' /\ Completed \subseteq Completed'
<1> DEFINE j == hand[w].clip
<1>1. /\ hand[w].at = "verify" /\ Unlocked /\ j \in Clips
      /\ UNCHANGED <<paired, fresh, held, unpairing, off>>
  BY StoreParts DEF Verify, HandOK, HasClip
<1>2. troubles' \in 0 .. MaxTrouble
  BY Assumptions DEF Verify, Meets, StoreInv, QueueTypeOK
<1>3. UNCHANGED rows => Completed' = Completed
  BY DEF Completed, In
<1>4. CASE Drop(w) /\ UNCHANGED <<rows, files, troubles>>
  <2>1. UNCHANGED <<table, off, files, taken>>
    BY <1>1, <1>4 DEF table
  <2> QED
    BY <1>1, <1>2, <1>3, <1>4, <2>1, HandStep
<1>5. CASE /\ PartDeleted(j)
           /\ IF j \in ActiveOf(w) THEN Go(w, "giveback") ELSE Drop(w)
           /\ UNCHANGED <<rows, results, spoilt, troubles>>
  <2>1. UNCHANGED <<table, off, results, spoilt, taken>>
    BY <1>1, <1>5 DEF table
  <2> QED
    BY <1>1, <1>2, <1>3, <1>5, <2>1, DeletePart
<1>6. CASE /\ Whole(w, j)
           /\ part' = [part EXCEPT ![j] = NoPart]
           /\ Complete(w, j)
           /\ IF j \in ActiveOf(w)
              THEN /\ results' = [results EXCEPT ![j] = part[j].by]
                   /\ put' = Redirected(j, "part", "result")
                   /\ spoilt' = spoilt \cup {i \in {j} : AwaitedIn(j, "part") # {}}
              ELSE /\ results' = [results EXCEPT ![j] = {}]
                   /\ put' = Redirected(j, "part", "gone")
                   /\ UNCHANGED spoilt
           /\ (Drop(w) /\ UNCHANGED troubles) \/ (Go(w, "failing") /\ Meets("lost"))
  BY <1>1, <1>2, <1>6, CompletingKeeps
<1> QED
  BY <1>4, <1>5, <1>6 DEF Verify

LEMMA FailKeeps ==
  ASSUME StoreInv, NEW w \in Workers, Fail(w), UNCHANGED taken PROVE StoreInv'
<1>1. hand[w].at # "none" /\ UNCHANGED <<table, off, results, spoilt>>
  BY DEF Fail, Holding
<1>2. troubles' \in 0 .. MaxTrouble
  BY Assumptions DEF Fail, Meets, StoreInv, QueueTypeOK
<1>3. CASE Drop(w) /\ UNCHANGED <<part, put>>
  BY <1>1, <1>2, <1>3, HandStep DEF files
<1>4. CASE /\ PartDeleted(hand[w].clip)
           /\ IF hand[w].clip \in ActiveOf(w) THEN Go(w, "giveback") ELSE Drop(w)
  BY <1>1, <1>2, <1>4, DeletePart
<1> QED
  BY <1>3, <1>4 DEF Fail

LEMMA FailedKeeps ==
  ASSUME StoreInv, NEW w \in Workers, Failed(w), UNCHANGED taken PROVE StoreInv' /\ Same
<1> DEFINE j == hand[w].clip
<1>1. j \in Clips \ Completed
  BY StoreParts DEF Failed, HandOK, HasClip, ResultsInv, GivenBackIsOpen
<1>2. RowsOK' /\ Same
  BY <1>1, GiveBackKeeps DEF Failed, StoreInv, QueueTypeOK, RowsOK
<1>3. QueueTypeOK'
  BY <1>2 DEF Failed, StoreInv, QueueTypeOK, RowsOK
<1>4. HandOK' /\ \A v \in Workers : hand'[v].at = "giveback" => hand'[v].clip \notin Completed
  BY StoreParts, HandStays DEF Failed, ResultsInv
<1>5. ResultsInv'
  BY <1>2, <1>4, StoreParts, CompletedAreClips, ResultsStay DEF Failed, files
<1> QED
  BY <1>2, <1>3, <1>4, <1>5, StoreParts, StoreNext DEF Failed, files

LEMMA SweepKeeps ==
  ASSUME StoreInv, Sweep, UNCHANGED taken PROVE StoreInv' /\ Same
<1>1. RowsOK' /\ Same
  <2>1. RowsOK /\ paired \ fresh \in SUBSET Workers
    BY DEF StoreInv, QueueTypeOK, RowsOK
  <2> QED
    BY <2>1, RequeueKeeps DEF Sweep
<1>2. QueueTypeOK'
  BY <1>1 DEF Sweep, StoreInv, QueueTypeOK, RowsOK
<1>3. ResultsInv'
  BY <1>1, StoreParts, CompletedAreClips, ResultsStay DEF Sweep, remote, files, ResultsInv, GivenBackIsOpen
<1> QED
  BY <1>1, <1>2, <1>3, StoreParts, StoreNext DEF Sweep, remote, files, HandOK

LEMMA SettingsKeep ==
  ASSUME StoreInv, SettingsStep, UNCHANGED <<remote, taken>> PROVE StoreInv' /\ Same
<1>1. QueueTypeOK' /\ Same
  BY SettingsTypes DEF StoreInv
<1>2. ResultsInv'
  BY <1>1, StoreParts, CompletedAreClips, ResultsStay DEF remote, files, ResultsInv, GivenBackIsOpen
<1> QED
  BY <1>1, <1>2, StoreParts, StoreNext DEF remote, files, HandOK

(* Power and time: a worker that loses its power forgets, except what a      *)
(* handler of the main PC is doing for it; a crash cuts the handlers off.    *)
LEMMA EnvironmentKeeps ==
  ASSUME StoreInv, NEW w \in Workers, Missed(w) \/ SwitchOff(w) \/ SwitchOn(w), UNCHANGED taken
  PROVE  StoreInv' /\ Same
<1> USE Assumptions
<1>1. Same /\ troubles' \in 0 .. MaxTrouble
  BY DEF Same, Completed, In, Missed, SwitchOff, SwitchOn, table, Meets, StoreInv, QueueTypeOK
<1>2. QueueTypeOK'
  BY <1>1 DEF Missed, SwitchOff, SwitchOn, table, StoreInv, QueueTypeOK
<1>3. HandOK' /\ \A v \in Workers : hand'[v].at = "giveback" => hand'[v] = hand[v]
  <2>1. CASE UNCHANGED hand
    BY <2>1, StoreParts DEF HandOK
  <2>2. CASE hand' = [hand EXCEPT ![w] = NoHand]
    BY <2>2, StoreParts, DropMoves DEF Drop
  <2> QED
    BY <2>1, <2>2 DEF Missed, SwitchOff, SwitchOn, remote
<1>4. off' \subseteq Workers /\ UNCHANGED files
  BY StoreParts DEF Missed, SwitchOff, SwitchOn, remote
<1>5. ResultsInv'
  BY <1>1, <1>3, <1>4, StoreParts, CompletedAreClips, ResultsStay DEF files, ResultsInv, GivenBackIsOpen
<1> QED
  BY <1>1, <1>2, <1>3, <1>4, <1>5, StoreParts, StoreNext DEF files

LEMMA CrashKeeps == ASSUME StoreInv, Crash PROVE StoreInv' /\ Same
<1> USE Assumptions
<1>1. Same /\ QueueTypeOK'
  BY DEF Crash, Same, Completed, In, Meets, StoreInv, QueueTypeOK
<1> DEFINE new == [v \in Workers |-> IF hand[v].at \in {"verify", "giveback"}
                                   THEN IF v \in off THEN NoHand ELSE [hand[v] EXCEPT !.at = "failing"]
                                   ELSE IF hand[v].at = "sending" THEN [hand[v] EXCEPT !.at = "upload"]
                                   ELSE hand[v]]
<1>2. hand' = new
  BY DEF Crash
<1>3. HandOK' /\ \A v \in Workers : hand'[v].at # "giveback"
  <2>1. ASSUME NEW v \in Workers
        PROVE  /\ new[v] \in Hand
               /\ new[v].at # "none" => new[v].clip \in Clips
               /\ new[v].at # "giveback"
    <3>1. hand[v] \in Hand /\ (hand[v].at # "none" => hand[v].clip \in Clips)
      BY StoreParts DEF HandOK, Hands, HasClip
    <3>2. NoHand \in Hand /\ NoHand.at = "none"
      BY DEF NoHand, Hand, Places
    <3> DEFINE failing == [hand[v] EXCEPT !.at = "failing"]
               again   == [hand[v] EXCEPT !.at = "upload"]
    <3>3. failing \in Hand /\ failing.at = "failing" /\ failing.clip = hand[v].clip
      BY <3>1 DEF Hand, Places
    <3>8. again \in Hand /\ again.at = "upload" /\ again.clip = hand[v].clip
      BY <3>1 DEF Hand, Places
    <3>4. new[v] = IF hand[v].at \in {"verify", "giveback"}
                   THEN IF v \in off THEN NoHand ELSE failing
                   ELSE IF hand[v].at = "sending" THEN again ELSE hand[v]
      OBVIOUS
    <3> HIDE DEF new, failing, again
    <3>5. CASE new[v] = NoHand
      BY <3>2, <3>5
    <3>6. CASE new[v] = failing /\ hand[v].at # "none"
      BY <3>1, <3>3, <3>6
    <3>7. CASE new[v] = hand[v] /\ hand[v].at \notin {"verify", "giveback"}
      BY <3>1, <3>7
    <3>9. CASE new[v] = again /\ hand[v].at = "sending"
      BY <3>1, <3>8, <3>9
    <3> QED
      BY <3>4, <3>5, <3>6, <3>7, <3>9
  <2>2. new \in [Workers -> Hand]
    BY <2>1
  <2> HIDE DEF new
  <2> QED
    BY <1>2, <2>1, <2>2 DEF HandOK, HasClip, Hands
<1>5. put' \in Puts /\ \A w \in Workers : put'[w].into = "none"
  BY NoPutIsPut DEF Crash, Puts
<1>4. ResultsInv'
  BY <1>1, <1>3, <1>5, StoreParts, CompletedAreClips, ResultsStay DEF Crash
<1> QED
  BY <1>1, <1>3, <1>4, <1>5, StoreParts, StoreNext DEF Crash

LEMMA RunStoreKeeps ==
  ASSUME StoreInv, TypeOK, Begin \/ RunStep \/ Cancel PROVE StoreInv' /\ Same
<1>1. QueueTypeOK' /\ GatewayTypeOK' /\ Same /\ PutsOff /\ UNCHANGED <<hand, off, part, spoilt>>
  BY RunStepTypes
<1>2. \A j \in Completed : j \in taken' \/ results'[j] = results[j]
  <2>1. CASE \E i \in Clips : Take(i)
    <3>1. PICK i \in Clips : results' = [results EXCEPT ![i] = {}] /\ taken' = taken \cup {i}
      BY <2>1 DEF Take
    <3>2. results \in Kept
      BY StoreParts
    <3> QED
      BY <3>1, <3>2, CompletedAreClips DEF Kept
  <2>2. CASE UNCHANGED results
    BY <2>2
  <2> QED
    BY <2>1, <2>2 DEF Begin, Cancel, RunStep, Send, TakeOver, Bring, GiveUp,
       RenderHere, Sent, StopEarly, StopPolling, Look, Release, End, remote, files
<1>3. taken \subseteq taken'
  BY DEF Begin, Cancel, RunStep, Send, Take, TakeOver, Bring, GiveUp,
     RenderHere, Sent, StopEarly, StopPolling, Look, Release, End
<1>4. ResultsInv'
  BY <1>1, <1>2, <1>3, StoreParts, CompletedAreClips, ResultsStay DEF ResultsInv, GivenBackIsOpen, PutsOff
<1> QED
  BY <1>1, <1>4 DEF StoreInv

-----------------------------------------------------------------------------
(* Every step.                                                             *)

LEMMA NotVerifying ==
  ASSUME StoreInv, NEW w \in Workers, Heartbeat(w) \/ WorkerStep(w) PROVE Same
<1>1. CASE TakeJob(w)
  BY <1>1, ClaimKeeps DEF TakeJob, StoreInv, QueueTypeOK, RowsOK
<1>2. CASE ~TakeJob(w)
  BY <1>2 DEF Heartbeat, WorkerStep, Work, Transfer, Render, Killed, Upload, Resume, AskComplete, Fail,
     table, Same, Completed, In
<1> QED
  BY <1>1, <1>2

LEMMA StoreStep ==
  ASSUME StoreInv, TypeOK, [Next]_vars PROVE StoreInv' /\ Completed \subseteq Completed'
<1>1. CASE Begin \/ RunStep \/ Cancel
  BY <1>1, RunStoreKeeps DEF Same
<1>2. CASE Crash
  BY <1>2, CrashKeeps DEF Same
<1>3. CASE SettingsStep /\ UNCHANGED remote /\ UNCHANGED pipeline
  BY <1>3, SettingsKeep DEF Same, pipeline
<1>4. ASSUME NEW w \in Workers, Heartbeat(w) \/ WorkerStep(w) \/ HandlerStep(w), UNCHANGED pipeline
      PROVE  StoreInv' /\ Completed \subseteq Completed'
  <2>1. UNCHANGED taken
    BY <1>4 DEF pipeline
  <2>2. CASE Heartbeat(w) \/ WorkerStep(w)
    <3>1. StoreInv'
      BY <2>1, <2>2, HeartbeatKeeps, TakeJobKeeps, QuietWorkerKeeps, UploadKeeps, FailKeeps DEF WorkerStep, Work
    <3> QED
      BY <2>2, <3>1, NotVerifying DEF Same
  <2>3. CASE HandlerStep(w)
    BY <2>1, <2>3, VerifyKeeps, FailedKeeps DEF HandlerStep, Same
  <2> QED
    BY <1>4, <2>2, <2>3
<1>5. CASE Sweep /\ UNCHANGED pipeline
  BY <1>5, SweepKeeps DEF Same, pipeline
<1>6. CASE Environment /\ UNCHANGED pipeline
  BY <1>6, EnvironmentKeeps, ArriveKeeps DEF Environment, Same, pipeline
<1>7. CASE UNCHANGED vars
  <2>1. UNCHANGED <<table, troubles, remote, taken>>
    BY <1>7 DEF vars, pipeline
  <2> QED
    BY <2>1 DEF table, remote, files, StoreInv, QueueTypeOK, GatewayTypeOK, ResultsInv, GivenBackIsOpen,
       NothingToVerify, AwaitedKnown, ResultIsKept, ResultIsWhole, Completed, In, NoPart
<1> QED
  BY <1>1, <1>2, <1>3, <1>4, <1>5, <1>6, <1>7 DEF Next

LEMMA RunKeeps == ASSUME RunInv, [Next]_vars PROVE RunInv'
<1>1. CASE UNCHANGED pipeline
  BY <1>1 DEF pipeline, RunInv, RunOK, RunPlaces, HandedOnce, At
<1>2. CASE Begin
  BY <1>2, BeginKeeps
<1>3. CASE RunStep
  BY <1>3, RunStepKeeps
<1>4. CASE Cancel
  BY <1>4 DEF Cancel, RunInv, RunOK, RunPlaces, HandedOnce, At
<1>5. CASE Crash
  <2>1. run' = NoRun /\ UNCHANGED <<outcome, waited, taken, runs>> /\ cancelled' \in BOOLEAN
    BY <1>5 DEF Crash
  <2> QED
    BY <2>1, OverKeeps
<1> QED
  BY <1>1, <1>2, <1>3, <1>4, <1>5 DEF Next, vars

LEMMA InvParts == Inv <=> StoreInv /\ RunInv
  BY DEF Inv, RowsInv, TypeOK, StoreInv, ResultsInv, RunInv, RunOK

LEMMA Inductive == ASSUME Inv, [Next]_vars PROVE Inv' /\ Completed \subseteq Completed'
<1>1. StoreInv /\ RunInv /\ TypeOK
  BY InvParts DEF Inv, RowsInv
<1>2. StoreInv' /\ RunInv' /\ Completed \subseteq Completed'
  BY <1>1, StoreStep, RunKeeps
<1> QED
  BY <1>2 DEF Inv, RowsInv, TypeOK, StoreInv, ResultsInv, RunInv, RunOK

THEOREM Invariance == Spec => []Inv
<1>1. Init => Inv
  BY Initially
<1>2. Inv /\ [Next]_vars => Inv'
  BY Inductive
<1> QED
  BY <1>1, <1>2, PTL DEF Spec

(* Rows, workers, files and the run keep their types.                       *)
THEOREM TypesHold == Spec => []TypeOK
<1>1. Inv => TypeOK
  BY DEF Inv, RowsInv
<1> QED
  BY <1>1, Invariance, PTL

(* "The first valid result wins": no step of anybody takes a job out of       *)
(* completed, the failure of a late owner included, whose UPDATE is by id    *)
(* alone (queue.py 303).                                                    *)
THEOREM FirstResultWins == Spec => CompletedIsFinal
<1>1. Inv /\ [Next]_vars => [In({"completed"}) \subseteq In({"completed"})']_vars
  BY Inductive DEF Completed
<1> QED
  BY <1>1, Invariance, PTL DEF Spec, CompletedIsFinal

(* The result of a completed job waits, whole and one worker's own, until a  *)
(* run takes it (gateway.py 158-200), unless it was moved there while the    *)
(* gateway still awaited a chunk for it (gateway.py 146-155).                *)
THEOREM ResultWaits == Spec => []ResultIsKept
<1>1. Inv => ResultIsKept
  BY DEF Inv
<1> QED
  BY <1>1, Invariance, PTL

(* A run neither loses a clip nor hands one over twice (dispatch.py 172-230). *)
THEOREM EveryClipOnce == Spec => []HandedOnce
<1>1. Inv => HandedOnce
  BY DEF Inv
<1> QED
  BY <1>1, Invariance, PTL
=============================================================================
