--------------------------- MODULE RenderDispatch ---------------------------
(***************************************************************************)
(* The pipeline's side of remote rendering (remote_render/dispatch.py):     *)
(* RemoteRenderer.render_all, run for one video again and again, with the    *)
(* gateway and the render PCs of RenderGateway, cancels, and a crash of the *)
(* main PC's process.                                                      *)
(***************************************************************************)
EXTENDS RenderGateway

CONSTANTS
  LocalClips,  \* clips with music from this PC (_needs_this_pc)
  MaxRuns      \* bound: runs of the video

ASSUME DispatchAssumption ==
  /\ LocalClips \subseteq Clips /\ MaxRuns \in Nat

VARIABLES
  run,       \* render_all: where it is, its mode, the clips still to be sent, those
             \* it waits for, those rendering here, the clip being released
  outcome,   \* what it handed over for each clip in this run
  cancelled, \* the cancel flag of this video (core/cancel.py)
  waited,    \* no_worker_since lies more than UNCLAIMED_GRACE back
  taken,     \* history: the clips whose result a run has taken
  runs

pipeline == <<run, outcome, cancelled, waited, taken, runs>>
vars == <<table, troubles, remote, pipeline>>

NoRun == [at |-> "off", target |-> Nobody, todo |-> {}, pending |-> {}, here |-> {}, clip |-> NoClip]

Init ==
  /\ QueueInit /\ GatewayInit
  /\ run = NoRun /\ outcome = [j \in Clips |-> "none"]
  /\ cancelled = FALSE /\ waited = FALSE /\ taken = {} /\ runs = 0

Automatic == run.target = Nobody
At(place) == run.at = place
Deliver(j, what) == outcome' = [outcome EXCEPT ![j] = what]

-----------------------------------------------------------------------------
(* With the chosen worker unpaired, or none online in Automatic, every clip *)
(* renders here.                                                           *)
Begin ==
  /\ At("off") /\ runs < MaxRuns /\ runs' = runs + 1
  /\ \E t \in Targets :
       run' = IF (t = Nobody /\ Online = {}) \/ (t # Nobody /\ t \notin paired)
              THEN [NoRun EXCEPT !.at = "alone", !.target = t, !.here = Clips]
              ELSE [NoRun EXCEPT !.at = "sending", !.target = t, !.todo = Clips \ LocalClips]
  /\ outcome' = [j \in Clips |-> "none"]
  /\ cancelled' = FALSE /\ waited' = FALSE
  /\ UNCHANGED <<table, troubles, remote, taken>>

Send(j) ==
  /\ At("sending") /\ j \in run.todo /\ ~cancelled /\ Unlocked
  /\ Submit(j, run.target)
  /\ run' = [run EXCEPT !.todo = @ \ {j}, !.pending = @ \cup {j}]
  /\ UNCHANGED <<paired, fresh, held, unpairing, troubles, remote,
                 outcome, cancelled, waited, taken, runs>>

Sent ==
  /\ At("sending") /\ run.todo = {}
  /\ run' = [run EXCEPT !.at = "polling", !.here = LocalClips]
  /\ UNCHANGED <<table, troubles, remote, outcome, cancelled, waited, taken, runs>>

(* The loop that sends, and the one that renders everything here, raise on  *)
(* a cancel; the polling loop cancels the rows first.                       *)
StopEarly ==
  /\ cancelled
  /\ (At("sending") /\ run.todo # {}) \/ (At("alone") /\ run.here # {})
  /\ run' = NoRun
  /\ UNCHANGED <<table, troubles, remote, outcome, cancelled, waited, taken, runs>>

StopPolling ==
  /\ cancelled /\ At("polling") /\ run.pending \cup run.here # {} /\ Unlocked
  /\ CancelVideo
  /\ run' = NoRun
  /\ UNCHANGED <<paired, fresh, held, unpairing, troubles, remote,
                 outcome, cancelled, waited, taken, runs>>

(* Faulty variant of Look: the grace never runs out.                       *)
LookNeverLong == FALSE /\ UNCHANGED vars

(* Automatic: the grace runs out while nobody is online, or somebody is.    *)
Look ==
  /\ Automatic /\ At("polling") /\ run.pending # {}
  /\ waited # (Online = {}) /\ waited' = (Online = {})
  /\ UNCHANGED <<table, troubles, remote, run, outcome, cancelled, taken, runs>>

Waits(j) == At("polling") /\ j \in run.pending
NoLonger(j) == run' = [run EXCEPT !.pending = @ \ {j}]

(* Faulty variant of Take: the file is left in results/, and the clip stays  *)
(* among those waited for.                                                 *)
TakeAgain(j) ==
  /\ Waits(j) /\ j \in In({"completed"}) /\ results[j] # {}
  /\ Deliver(j, "remote") /\ taken' = taken \cup {j}
  /\ UNCHANGED <<table, troubles, remote, run, cancelled, waited, runs>>

(* What a look at the row of a clip waited for may find. "cancelled" is not  *)
(* among it: only the end of a run of this video cancels, and the next run   *)
(* submits anew.                                                           *)

(* _take: copied into the library, then deleted from results/; without the  *)
(* file the clip fails.                                                    *)
Take(j) ==
  /\ Waits(j) /\ j \in In({"completed"})
  /\ NoLonger(j)
  /\ results' = [results EXCEPT ![j] = {}] /\ put' = Redirected(j, "result", "gone")
  /\ Deliver(j, IF results[j] # {} THEN "remote" ELSE "error")
  /\ taken' = taken \cup {j}
  /\ UNCHANGED <<table, troubles, hand, off, part, spoilt, cancelled, waited, runs>>

(* Released by the user (or the row is gone).                               *)
TakeOver(j) ==
  /\ Waits(j) /\ j \in In({"local", "absent"})
  /\ run' = [run EXCEPT !.pending = @ \ {j}, !.here = @ \cup {j}]
  /\ UNCHANGED <<table, troubles, remote, outcome, cancelled, waited, taken, runs>>

(* Failed in Automatic, or nobody took it in time: the row that was read is  *)
(* released in a statement of its own.                                      *)
Bring(j) ==
  /\ Waits(j) /\ Automatic
  /\ j \in In({"failed"}) \/ (j \in In({"queued"}) /\ waited)
  /\ run' = [run EXCEPT !.at = "releasing", !.clip = j]
  /\ UNCHANGED <<table, troubles, remote, outcome, cancelled, waited, taken, runs>>

Release ==
  /\ At("releasing") /\ Unlocked
  /\ ReleaseToLocal({run.clip})
  /\ run' = [run EXCEPT !.at = "polling", !.clip = NoClip,
                        !.pending = @ \ {run.clip}, !.here = @ \cup {run.clip}]
  /\ UNCHANGED <<paired, fresh, held, unpairing, troubles, remote,
                 outcome, cancelled, waited, taken, runs>>

(* Failed on a chosen worker.                                              *)
GiveUp(j) ==
  /\ Waits(j) /\ ~Automatic /\ j \in In({"failed"})
  /\ NoLonger(j) /\ Deliver(j, "error")
  /\ UNCHANGED <<table, troubles, remote, cancelled, waited, taken, runs>>

RenderHere(j) ==
  /\ At("polling") \/ At("alone")
  /\ j \in run.here
  /\ run' = [run EXCEPT !.here = @ \ {j}]
  /\ Deliver(j, "here")
  /\ UNCHANGED <<table, troubles, remote, cancelled, waited, taken, runs>>

End ==
  /\ At("polling") \/ At("alone")
  /\ run.pending \cup run.here = {}
  /\ run' = NoRun
  /\ UNCHANGED <<table, troubles, remote, outcome, cancelled, waited, taken, runs>>

RunStep ==
  \/ \E j \in Clips : Send(j) \/ Take(j) \/ TakeOver(j) \/ Bring(j) \/ GiveUp(j) \/ RenderHere(j)
  \/ Sent \/ StopEarly \/ StopPolling \/ Look \/ Release \/ End

-----------------------------------------------------------------------------
Cancel ==
  /\ Meets("user") /\ ~At("off") /\ ~cancelled /\ cancelled' = TRUE
  /\ UNCHANGED <<table, remote, run, outcome, waited, taken, runs>>

(* The main PC's process dies and starts again. Handlers at work are cut    *)
(* off, and their workers see an exception.                                 *)
Crash ==
  /\ Meets("crash")
  /\ run' = NoRun /\ cancelled' = FALSE /\ unpairing' = Nobody
  /\ hand' = [w \in Workers |->
                IF hand[w].at \in {"verify", "giveback"}
                THEN IF w \in off THEN NoHand ELSE [hand[w] EXCEPT !.at = "failing"]
                ELSE IF hand[w].at = "sending" THEN [hand[w] EXCEPT !.at = "upload"]
                ELSE hand[w]]
  /\ put' = [w \in Workers |-> NoPut]
  /\ UNCHANGED <<rows, paired, fresh, held, off, part, results, spoilt,
                 outcome, waited, taken, runs>>

-----------------------------------------------------------------------------
Next ==
  \/ Begin \/ RunStep \/ Cancel \/ Crash
  \/ /\ \/ SettingsStep /\ UNCHANGED remote
        \/ \E w \in Workers : Heartbeat(w) \/ WorkerStep(w) \/ HandlerStep(w)
        \/ Sweep \/ Environment
     /\ UNCHANGED pipeline

Spec == Init /\ [][Next]_vars

(* render_all polls, the gateway answers and sweeps, a worker that is on     *)
(* works and checks in, a clock runs for one that is off. Nothing is        *)
(* assumed of people, of a worker that was switched off, or of a render.    *)
Quiet(A) == A /\ UNCHANGED pipeline
FairSpec ==
  /\ Spec /\ WF_vars(RunStep) /\ WF_vars(Quiet(Sweep))
  /\ WF_vars(Quiet(Unpaired /\ UNCHANGED remote))
  /\ \A w \in Workers :
       /\ WF_vars(Quiet(Work(w))) /\ WF_vars(Quiet(HandlerStep(w)))
       /\ WF_vars(Quiet(Heartbeat(w)))
       /\ WF_vars(Quiet(w \in off /\ Missed(w)))

RendersEnd == \A w \in Workers : WF_vars(Quiet(Render(w)))

-----------------------------------------------------------------------------
Run == [at : {"off", "alone", "sending", "polling", "releasing"}, target : Workers \cup {Nobody},
        todo : SUBSET Clips, pending : SUBSET Clips, here : SUBSET Clips, clip : Clips \cup {NoClip}]

(* Every variable keeps its type.                                          *)
TypeOK ==
  /\ QueueTypeOK /\ GatewayTypeOK /\ run \in Run
  /\ outcome \in [Clips -> {"none", "remote", "here", "error"}]
  /\ cancelled \in BOOLEAN /\ waited \in BOOLEAN /\ taken \subseteq Clips
  /\ runs \in 0 .. MaxRuns

(* "The first valid result wins; a late duplicate is ignored" (queue.py     *)
(* 288): a completed job stays completed, whatever a late owner, a sweep, a  *)
(* failure report, the Settings page or another run does.                   *)
CompletedIsFinal == [][In({"completed"}) \subseteq In({"completed"})']_vars

(* Until a run takes it, the result of a completed job is in results/, and   *)
(* it is one worker's whole render, though late owners upload into the same  *)
(* part and delete what arrives too late (gateway.py 158-190).              *)
ResultIsWhole(j) == \E w \in Workers : results[j] = {w}
ResultIsKept  == \A j \in In({"completed"}) \ (taken \cup spoilt) : ResultIsWhole(j)

(* No clip is lost and none is handed over twice (render_all 172-230): the   *)
(* clips a run has not handed over are exactly those it still has to send,   *)
(* waits for or renders here, and each is in one of these places, whatever   *)
(* workers, sweeps, cancels and the Settings page do to the rows.            *)
HandedOnce ==
  /\ run.pending \cap run.here = {} /\ run.todo \cap (run.pending \cup run.here) = {}
  /\ ~At("off") => {j \in Clips : outcome[j] = "none"}
                     = run.todo \cup run.pending \cup run.here
                       \cup (IF At("sending") THEN LocalClips ELSE {})

(* In Automatic every run of a video ends if the renders do (dispatch.py     *)
(* 7-11), whichever workers are switched off, come back at once, fall silent, *)
(* fail, are held or removed, whatever answers and uploads are lost, unless   *)
(* some clip stays for ever with a worker that has no hand on it.            *)
Orphaned(j) == j \in In({"active"}) /\ hand[rows[j].worker].clip # j
RunEnds ==
  RendersEnd /\ (\A j \in Clips : []<>~Orphaned(j))
    => (run.at # "off" /\ Automatic ~> run.at = "off")

(* "a worker still holding one is told to stop at its heartbeat" (queue.py   *)
(* 327): a render of a clip that is no longer this worker's, however long it *)
(* would take, is stopped.                                                  *)
Stale(w) == hand[w].at = "render" /\ hand[w].clip \notin ActiveOf(w) /\ w \in paired
StaleStops == \A w \in Workers : Stale(w) ~> ~Stale(w)
=============================================================================
