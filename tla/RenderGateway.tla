---------------------------- MODULE RenderGateway ----------------------------
(***************************************************************************)
(* The render PCs (remote_render/worker.py), the gateway they talk to       *)
(* (remote_render/gateway.py) and the network between them. A render PC     *)
(* has one thread per clip; with its default of one clip at a time, that is *)
(* one hand per worker. A request and its handler are one step unless       *)
(* another thread of the main PC can act in between.                        *)
(***************************************************************************)
EXTENDS RenderQueue

CONSTANTS
  NoClip,
  Chunks,       \* chunks of a finished clip's upload
  QuickRestart  \* whether a render PC may be back before it was missed

ASSUME GatewayAssumption ==
  /\ NoClip \notin Clips /\ Chunks \in Nat \ {0} /\ QuickRestart \in BOOLEAN

VARIABLES
  hand,    \* the thread of each worker: its clip, where it is, its cancel flag
  off,     \* the render PCs that are switched off
  part,    \* uploads/<job>.part: whether it is there, chunks received, whose
  results, \* results/<job>.mp4: whose render it is ({} when there is none)
  put,     \* of each worker, a chunk the gateway accepted whose body it awaits:
           \* for which clip, the file it holds open, the offset it checked
  spoilt   \* history: clips moved to results/ while a chunk was so awaited

files  == <<part, results, put, spoilt>>
remote == <<hand, off, files>>

NoHand == [clip |-> NoClip, at |-> "none", stop |-> FALSE]
NoPart == [there |-> FALSE, size |-> 0, by |-> {}]
NoPut  == [clip |-> NoClip, into |-> "none", offset |-> 0]

GatewayInit ==
  /\ hand = [w \in Workers |-> NoHand] /\ off = {}
  /\ part = [j \in Clips |-> NoPart] /\ results = [j \in Clips |-> {}]
  /\ put = [w \in Workers |-> NoPut] /\ spoilt = {}

(* The lock of the gateway's RenderQueue is free, and so is its event loop:  *)
(* no handler is between fail's SELECT and its UPDATE.                       *)
Unlocked == \A w \in Workers : hand[w].at # "giveback"

Holding(w, at) == w \notin off /\ hand[w].at = at
Go(w, at)      == hand' = [hand EXCEPT ![w].at = at]
Drop(w)        == hand' = [hand EXCEPT ![w] = NoHand]
Mine(w)        == Owns(w, hand[w].clip)

-----------------------------------------------------------------------------
(* The worker's loop.                                                      *)

(* Faulty variant of Heartbeat: nothing is ever stopped.                    *)
HeartbeatNoStop(w) ==
  /\ w \in paired \ off /\ Unlocked
  /\ fresh' = fresh \cup {w}
  /\ UNCHANGED <<rows, paired, held, unpairing, remote, troubles>>

(* What the answer to a heartbeat tells a worker to stop: a job that is no   *)
(* longer its own.                                                         *)
MustStop(w) == hand[w].at # "none" /\ hand[w].clip \notin ActiveOf(w)

Heartbeat(w) ==
  /\ w \in paired \ off /\ Unlocked
  /\ fresh' = fresh \cup {w}
  /\ hand' = IF MustStop(w) THEN [hand EXCEPT ![w].stop = TRUE] ELSE hand
  /\ UNCHANGED <<rows, paired, held, unpairing, off, files, troubles>>

(* POST /v1/claim, asked only by a worker whose last heartbeat, at most ten  *)
(* seconds ago, was answered. When the answer is lost nobody works on the    *)
(* clip.                                                                   *)
TakeJob(w) ==
  /\ Holding(w, "none") /\ w \in fresh /\ Unlocked
  /\ \E j \in Clips :
       /\ Claim(w, j)
       /\ \/ hand' = [hand EXCEPT ![w] = [clip |-> j, at |-> "transfer", stop |-> FALSE]]
             /\ UNCHANGED troubles
          \/ Meets("lost") /\ UNCHANGED hand
  /\ UNCHANGED <<paired, fresh, held, unpairing, off, files>>

(* The download of the piece: refused to anybody but the owner.             *)
Transfer(w) ==
  /\ Holding(w, "transfer")
  /\ \/ hand[w].stop /\ Drop(w) /\ UNCHANGED troubles
     \/ ~hand[w].stop /\ Go(w, IF Mine(w) THEN "render" ELSE "failing") /\ UNCHANGED troubles
     \/ ~hand[w].stop /\ Go(w, "failing") /\ Meets("fails")
  /\ UNCHANGED <<table, off, files>>

(* The child process that renders; a cancel kills it.                      *)
Render(w) ==
  /\ Holding(w, "render") /\ ~hand[w].stop
  /\ (Go(w, "upload") /\ UNCHANGED troubles) \/ (Go(w, "failing") /\ Meets("fails"))
  /\ UNCHANGED <<table, off, files>>

Killed(w) ==
  /\ Holding(w, "render") /\ hand[w].stop /\ Drop(w)
  /\ UNCHANGED <<table, off, files, troubles>>

(* PUT .../result. The owner and the offset are checked and the file opened   *)
(* to append; then the body is awaited with the file open, and every other   *)
(* handler may run. A chunk goes where the open file ends by then, whoever   *)
(* wrote what is there; one that is not where it was meant to be is Nobody's. *)
Appended(file, w, offset) ==
  [there |-> TRUE, size |-> file.size + 1,
   by |-> file.by \cup {IF file.size = offset THEN w ELSE Nobody}]

(* What becomes of the open files of j when it is moved or deleted.          *)
Redirected(j, from, to) ==
  [w \in Workers |-> IF put[w].clip = j /\ put[w].into = from THEN [put[w] EXCEPT !.into = to]
                     ELSE put[w]]
AwaitedIn(j, file) == {w \in Workers : put[w].clip = j /\ put[w].into = file}
PartDeleted(j) == part' = [part EXCEPT ![j] = NoPart] /\ put' = Redirected(j, "part", "gone")

After(offset) == IF offset + 1 >= Chunks THEN "complete" ELSE "upload"

(* Chunk after chunk, from where GET .../result says. A stopped upload        *)
(* returns, and goes on to ask for completion; one that is refused ten times *)
(* fails. Most bodies are there at once.                                    *)
Upload(w) ==
  /\ Holding(w, "upload") /\ Unlocked
  /\ LET j == hand[w].clip
         Sends == ~hand[w].stop /\ Mine(w) /\ part[j].size < Chunks
     IN
     \/ hand[w].stop /\ Go(w, "complete") /\ UNCHANGED <<part, put, troubles>>
     \/ ~hand[w].stop /\ ~Mine(w) /\ Go(w, "failing") /\ UNCHANGED <<part, put, troubles>>
     \/ /\ ~hand[w].stop /\ Mine(w) /\ part[j].size >= Chunks
        /\ Go(w, "complete") /\ UNCHANGED <<part, put, troubles>>
     \/ /\ Sends
        /\ part' = [part EXCEPT ![j] = Appended(@, w, @.size)]
        /\ Go(w, After(part[j].size)) /\ UNCHANGED <<put, troubles>>
     \/ /\ Sends /\ put[w] = NoPut /\ Meets("stalls")
        /\ put' = [put EXCEPT ![w] = [clip |-> j, into |-> "part", offset |-> part[j].size]]
        /\ part' = [part EXCEPT ![j].there = TRUE]
        /\ Go(w, "sending")
  /\ UNCHANGED <<table, off, results, spoilt>>

(* The worker's own limit passes: it asks again where to go on from.         *)
Resume(w) ==
  /\ Holding(w, "sending") /\ Go(w, "upload")
  /\ UNCHANGED <<table, off, files, troubles>>

(* The body arrives after all, or its connection is seen to be broken.       *)
Arrive(w) ==
  /\ put[w] # NoPut /\ Unlocked
  /\ put' = [put EXCEPT ![w] = NoPut]
  /\ LET j == put[w].clip IN
       /\ part' = IF put[w].into = "part"
                  THEN [part EXCEPT ![j] = Appended(@, w, put[w].offset)] ELSE part
       /\ results' = IF put[w].into = "result" THEN [results EXCEPT ![j] = @ \cup {Nobody}]
                     ELSE results
  /\ IF hand[w].at = "sending" THEN Go(w, After(put[w].offset)) ELSE UNCHANGED hand
  /\ UNCHANGED <<table, off, spoilt, troubles>>

Broken(w) ==
  /\ put[w] # NoPut
  /\ put' = [put EXCEPT ![w] = NoPut]
  /\ IF hand[w].at = "sending" THEN Go(w, "upload") ELSE UNCHANGED hand
  /\ UNCHANGED <<table, off, part, results, spoilt, troubles>>

(* POST .../complete, up to `await request.json()`. A refusal is printed    *)
(* and that is all; a lost request is an exception like any other.          *)
AskComplete(w) ==
  /\ Holding(w, "complete") /\ Unlocked
  /\ \/ Mine(w) /\ Go(w, "verify") /\ UNCHANGED troubles
     \/ ~Mine(w) /\ Drop(w) /\ UNCHANGED troubles
     \/ Go(w, "failing") /\ Meets("lost")
  /\ UNCHANGED <<table, off, files>>

(* Faulty variant of Whole: only the size is compared.                     *)
RightSize(w, j) == part[j].size = Chunks

(* Size and hash are those of this worker's render.                         *)
Whole(w, j) == part[j] = [there |-> TRUE, size |-> Chunks, by |-> {w}]

(* The rest of the handler. No part: 409. A damaged one is deleted and the  *)
(* job given back. A whole one is moved into results/ and, when the job is  *)
(* no longer this worker's, deleted again.                                  *)
Verify(w) ==
  /\ hand[w].at = "verify" /\ Unlocked
  /\ LET j == hand[w].clip IN
     \/ ~part[j].there /\ Drop(w) /\ UNCHANGED <<rows, files, troubles>>
     \/ /\ part[j].there /\ ~Whole(w, j)
        /\ PartDeleted(j)
        /\ IF j \in ActiveOf(w) THEN Go(w, "giveback") ELSE Drop(w)
        /\ UNCHANGED <<rows, results, spoilt, troubles>>
     \/ /\ part[j].there /\ Whole(w, j)
        /\ part' = [part EXCEPT ![j] = NoPart]
        /\ Complete(w, j)
        /\ IF j \in ActiveOf(w)
           THEN /\ results' = [results EXCEPT ![j] = part[j].by]
                /\ put' = Redirected(j, "part", "result")
                /\ spoilt' = spoilt \cup {i \in {j} : AwaitedIn(j, "part") # {}}
           ELSE /\ results' = [results EXCEPT ![j] = {}]
                /\ put' = Redirected(j, "part", "gone")
                /\ UNCHANGED spoilt
        /\ (Drop(w) /\ UNCHANGED troubles) \/ (Go(w, "failing") /\ Meets("lost"))
  /\ UNCHANGED <<paired, fresh, held, unpairing, off>>

(* POST .../fail, unless the thread was told to stop: fail's SELECT, and    *)
(* the part is deleted whether or not the job was this worker's. A lost      *)
(* request is ignored.                                                      *)
Fail(w) ==
  /\ Holding(w, "failing")
  /\ LET j == hand[w].clip IN
     \/ (hand[w].stop \/ w \notin paired) /\ Drop(w) /\ UNCHANGED <<part, put, troubles>>
     \/ /\ ~hand[w].stop /\ w \in paired /\ Unlocked
        /\ PartDeleted(j)
        /\ IF j \in ActiveOf(w) THEN Go(w, "giveback") ELSE Drop(w)
        /\ UNCHANGED troubles
     \/ ~hand[w].stop /\ Meets("lost") /\ Drop(w) /\ UNCHANGED <<part, put>>
  /\ UNCHANGED <<table, off, results, spoilt>>

Failed(w) ==
  /\ hand[w].at = "giveback"
  /\ GiveBack(w, hand[w].clip)
  /\ Drop(w)
  /\ UNCHANGED <<paired, fresh, held, unpairing, off, files, troubles>>

(* Whatever a worker does of itself; how long a render takes is not its to   *)
(* say.                                                                    *)
Work(w) ==
  \/ TakeJob(w) \/ Transfer(w) \/ Killed(w)
  \/ Upload(w) \/ Resume(w) \/ AskComplete(w) \/ Fail(w)

WorkerStep(w) == Work(w) \/ Render(w)

HandlerStep(w) == Verify(w) \/ Failed(w)

-----------------------------------------------------------------------------
(* The gateway's sweeper thread.                                           *)
Sweep ==
  /\ Unlocked
  /\ In({"active"}) # {} /\ Requeue(paired \ fresh)
  /\ UNCHANGED <<paired, fresh, held, unpairing, remote, troubles>>

-----------------------------------------------------------------------------
(* Time and power. A worker that is off, or whose heartbeats are late, has   *)
(* not been heard from within the limit.                                    *)
Missed(w) ==
  /\ w \in fresh
  /\ \/ w \in off /\ UNCHANGED troubles
     \/ w \notin off /\ Meets("silent")
  /\ fresh' = fresh \ {w}
  /\ UNCHANGED <<rows, paired, held, unpairing, remote>>

(* What its thread was doing is gone; a handler at work goes on.            *)
SwitchOff(w) ==
  /\ w \notin off /\ Meets("off")
  /\ off' = off \cup {w}
  /\ hand' = IF hand[w].at \in {"verify", "giveback"} THEN hand ELSE [hand EXCEPT ![w] = NoHand]
  /\ UNCHANGED <<table, files>>

SwitchOn(w) ==
  /\ w \in off /\ (QuickRestart \/ ActiveOf(w) = {})
  /\ off' = off \ {w}
  /\ UNCHANGED <<table, hand, files, troubles>>

Environment ==
  \E w \in Workers : Missed(w) \/ SwitchOff(w) \/ SwitchOn(w) \/ Arrive(w) \/ Broken(w)

-----------------------------------------------------------------------------
Places == {"none", "transfer", "render", "upload", "sending", "complete", "verify", "failing", "giveback"}
GatewayTypeOK ==
  /\ hand \in [Workers -> [clip : Clips \cup {NoClip}, at : Places, stop : BOOLEAN]]
  /\ \A w \in Workers : hand[w].at # "none" => hand[w].clip \in Clips
  /\ off \subseteq Workers
  /\ part \in [Clips -> [there : BOOLEAN, size : Nat, by : SUBSET (Workers \cup {Nobody})]]
  /\ results \in [Clips -> SUBSET (Workers \cup {Nobody})]
  /\ put \in [Workers -> [clip : Clips \cup {NoClip}, into : {"none", "part", "result", "gone"},
                          offset : Nat]]
  /\ spoilt \subseteq Clips
=============================================================================
