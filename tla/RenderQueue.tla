----------------------------- MODULE RenderQueue -----------------------------
(***************************************************************************)
(* The main PC's record of render workers and render jobs                  *)
(* (remote_render/queue.py): the tables `workers` and `jobs` of queue.db,   *)
(* and every operation that changes them. RenderGateway and RenderDispatch *)
(* call these operations; the two requests the Settings page makes of the   *)
(* table alone are actions here.                                           *)
(*                                                                         *)
(* The gateway and the pipeline share one RenderQueue object, whose lock    *)
(* keeps its read-then-write operations atomic; the Settings page's routes  *)
(* make objects of their own, with locks of their own.                      *)
(***************************************************************************)
EXTENDS Naturals, FiniteSets

CONSTANTS
  Clips,       \* the clips of one video: each has one job id (protocol.job_id)
  Workers,     \* render PCs that were paired
  Able,        \* those that can render these clips (protocol.compatible)
  Nobody,      \* the empty worker_id and the empty target
  Targets,     \* the modes a run may be in: "Only on <a render PC>", or Nobody,
               \* which is Automatic
  MaxAttempts, \* queue.py MAX_ATTEMPTS
  Troubles,    \* the kinds of trouble this instance meets
  MaxTrouble   \* bound: how often in all

(* "user": a request of the Settings page or a cancel; "unpair": a worker is *)
(* removed; "silent": heartbeats come too late; "off": a render PC loses its *)
(* power; "fails": a download or a render fails; "lost": an answer of the    *)
(* gateway never arrives; "stalls": the body of an upload does; "crash": the *)
(* main PC's process dies.                                                  *)
AllTroubles == {"user", "unpair", "silent", "off", "fails", "lost", "stalls", "crash"}

ASSUME QueueAssumption ==
  /\ Able \subseteq Workers /\ Nobody \notin Workers
  /\ Targets \subseteq Workers \cup {Nobody}
  /\ MaxAttempts \in Nat \ {0}
  /\ Troubles \subseteq AllTroubles /\ MaxTrouble \in Nat

VARIABLES
  rows,      \* the table jobs. "active" stands for the five states of ACTIVE
  paired,    \* the table workers
  fresh,     \* the workers heard from within HEARTBEAT_TIMEOUT (last_seen)
  held,      \* the workers that take no jobs (held or draining)
  unpairing, \* remove_worker, between its two statements
  troubles   \* met so far

table == <<rows, paired, fresh, held, unpairing>>

Waiting == {"queued", "active"}
States  == {"absent", "completed", "failed", "cancelled", "local"} \cup Waiting
Row     == [state : States, target : Workers \cup {Nobody},
            worker : Workers \cup {Nobody}, attempts : Nat]
NewRow(state, target) == [state |-> state, target |-> target, worker |-> Nobody, attempts |-> 0]

QueueInit ==
  /\ rows = [j \in Clips |-> NewRow("absent", Nobody)]
  /\ paired = Workers /\ fresh = Workers /\ held = {} /\ unpairing = Nobody
  /\ troubles = 0

Meets(kind) == kind \in Troubles /\ troubles < MaxTrouble /\ troubles' = troubles + 1

In(S)         == {j \in Clips : rows[j].state \in S}
ActiveOf(w)   == {j \in In({"active"}) : rows[j].worker = w}
Owns(w, j)    == w \in paired /\ j \in ActiveOf(w)
Set(S, state) == rows' = [j \in Clips |-> IF j \in S THEN [rows[j] EXCEPT !.state = state]
                                          ELSE rows[j]]

(* online(): who could take a clip now or soon.                            *)
Online == (paired \cap fresh \cap Able) \ held

(* submit: a row that is completed, waiting or at work is recognised and     *)
(* only its target is new; any other is deleted and inserted anew. (For a    *)
(* completed one whose file is there render_all does not even ask.)         *)
Submit(j, target) ==
  rows' = IF rows[j].state \in {"completed"} \cup Waiting
          THEN [rows EXCEPT ![j].target = target]
          ELSE [rows EXCEPT ![j] = NewRow("queued", target)]

(* claim: the worker's limit is one clip at a time, the default. Which of   *)
(* the waiting clips is first makes no difference here.                     *)
Claim(w, j) ==
  /\ w \in (paired \cap Able) \ held /\ ActiveOf(w) = {}
  /\ j \in In({"queued"}) /\ rows[j].target \in {Nobody, w}
  /\ rows' = [rows EXCEPT ![j].state = "active", ![j].worker = w, ![j].attempts = @ + 1]

(* complete: one UPDATE, guarded by owner and state.                        *)
Complete(w, j) == Set({j} \cap ActiveOf(w), "completed")

(* Faulty variant of GiveBack: the stage is written where the state belongs. *)
GiveBackAsStage(w, j) ==
  rows' = [rows EXCEPT ![j].state = IF rows[j].attempts < MaxAttempts THEN "retrying" ELSE "failed"]

(* fail, its second half: the UPDATE, by id alone.                          *)
GiveBack(w, j) ==
  rows' = IF rows[j].attempts < MaxAttempts
          THEN [rows EXCEPT ![j].state = "queued", ![j].worker = Nobody]
          ELSE [rows EXCEPT ![j].state = "failed", ![j].worker = w]

(* Faulty variant of Requeue: finished clips go back as well.               *)
RequeueAll(S) ==
  rows' = [j \in Clips |-> IF rows[j].worker \in S
                           THEN [rows[j] EXCEPT !.state = "queued", !.worker = Nobody]
                           ELSE rows[j]]

(* sweep and remove_worker: what these workers have at hand is queued again. *)
Requeue(S) ==
  rows' = [j \in Clips |-> IF rows[j].state = "active" /\ rows[j].worker \in S
                           THEN [rows[j] EXCEPT !.state = "queued", !.worker = Nobody]
                           ELSE rows[j]]

CancelVideo == Set(In(Waiting), "cancelled")

(* Faulty variant of ReleaseToLocal: completed clips are released too.      *)
ReleaseAnything(S) == Set(S \ In({"absent"}), "local")

ReleaseToLocal(S) == Set(S \cap In(Waiting \cup {"failed"}), "local")

Again(j, target) ==
  /\ j \in In({"failed", "cancelled"})
  /\ rows' = [rows EXCEPT ![j] = NewRow("queued", target)]

-----------------------------------------------------------------------------
(* Requests of the Settings page and the progress bar, and the two          *)
(* statements of remove_worker.                                            *)

RenderLocally ==
  /\ Meets("user") /\ ReleaseToLocal(Clips)
  /\ UNCHANGED <<paired, fresh, held, unpairing>>

Retry ==
  /\ Meets("user") /\ \E j \in Clips, t \in Targets : Again(j, t)
  /\ UNCHANGED <<paired, fresh, held, unpairing>>

(* "Stop accepting jobs", on either PC, and its undoing.                    *)
Hold ==
  /\ Meets("user")
  /\ \E w \in paired : held' = IF w \in held THEN held \ {w} ELSE held \cup {w}
  /\ UNCHANGED <<rows, paired, fresh, unpairing>>

Unpair ==
  /\ Meets("unpair") /\ unpairing = Nobody
  /\ \E w \in paired : unpairing' = w /\ Requeue({w})
  /\ UNCHANGED <<paired, fresh, held>>

Unpaired ==
  /\ unpairing # Nobody
  /\ paired' = paired \ {unpairing} /\ unpairing' = Nobody
  /\ UNCHANGED <<rows, fresh, held, troubles>>

SettingsStep == RenderLocally \/ Retry \/ Hold \/ Unpair \/ Unpaired

-----------------------------------------------------------------------------
QueueTypeOK ==
  /\ rows \in [Clips -> Row]
  /\ paired \subseteq Workers /\ fresh \subseteq Workers /\ held \subseteq Workers
  /\ unpairing \in Workers \cup {Nobody} /\ troubles \in 0 .. MaxTrouble
=============================================================================
