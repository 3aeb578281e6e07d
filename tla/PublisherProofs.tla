-------------------------- MODULE PublisherProofs --------------------------
(***************************************************************************)
(* Theorems about Publisher for any windows, limit, number of jobs,         *)
(* re-renders, requests, failures, crashes and days.                       *)
(***************************************************************************)
EXTENDS Publisher, TLAPS

-----------------------------------------------------------------------------
(* The rows as sequences.                                                   *)

(* Writing one element of a sequence.                                       *)
LEMMA WriteOne ==
  ASSUME NEW S, NEW s \in Seq(S), NEW i \in 1 .. Len(s), NEW e \in S
  PROVE  /\ [s EXCEPT ![i] = e] \in Seq(S)
         /\ Len([s EXCEPT ![i] = e]) = Len(s)
OBVIOUS

(* Writing every element of a sequence.                                     *)
LEMMA WriteAll ==
  ASSUME NEW S, NEW s \in Seq(S), NEW t \in [1 .. Len(s) -> S]
  PROVE  t \in Seq(S) /\ Len(t) = Len(s)
OBVIOUS

(* A publish job's new status.                                              *)
LEMMA SetJobRows ==
  ASSUME RowsOK, NEW j \in Jobs, NEW status,
         status \in {"queued", "running", "done", "failed", "cancelled", "interrupted"},
         SetJob(j, status), UNCHANGED renders
  PROVE  RowsOK' /\ Len(jobs') = Len(jobs)
<1> DEFINE row == [jobs[j] EXCEPT !.status = status]
<1>0. jobs[j] \in JobRow
  BY DEF RowsOK, Jobs
<1>1. row \in JobRow /\ row.after = jobs[j].after
  BY <1>0 DEF JobRow
<1>2. jobs' = [jobs EXCEPT ![j] = row]
  BY DEF SetJob
<1>3. jobs' \in Seq(JobRow) /\ Len(jobs') = Len(jobs)
  BY <1>1, <1>2, WriteOne DEF RowsOK, Jobs
<1>4. \A i \in Jobs : jobs'[i].after = jobs[i].after
  BY <1>1, <1>2, <1>3 DEF RowsOK, Jobs
<1> QED
  BY <1>3, <1>4 DEF RowsOK, Jobs, Renders

(* A re-render's new status.                                                *)
LEMMA SetRenderRows ==
  ASSUME RowsOK, NEW r \in Renders, NEW status,
         status \in {"queued", "running", "done", "failed", "cancelled", "gone"},
         SetRender(r, status), UNCHANGED jobs
  PROVE  RowsOK' /\ Len(renders') = Len(renders)
<1> DEFINE row == [renders[r] EXCEPT !.status = status]
<1>0. renders[r] \in RenderRow
  BY DEF RowsOK, Renders
<1>1. row \in RenderRow
  BY <1>0 DEF RenderRow
<1>2. renders' = [renders EXCEPT ![r] = row]
  BY DEF SetRender
<1>3. renders' \in Seq(RenderRow) /\ Len(renders') = Len(renders)
  BY <1>1, <1>2, WriteOne DEF RowsOK, Renders
<1> QED
  BY <1>3 DEF RowsOK, Jobs, Renders

(* A new publish job.                                                       *)
LEMMA AddJobRows ==
  ASSUME RowsOK, NEW row \in JobRow, row.after \in {0} \cup Renders', Len(jobs) < MaxJobs,
         jobs' = Append(jobs, row), renders' \in Seq(RenderRow), Len(renders') >= Len(renders)
  PROVE  RowsOK' /\ Len(jobs') = Len(jobs) + 1
<1>1. jobs' \in Seq(JobRow) /\ Len(jobs') = Len(jobs) + 1
  BY DEF RowsOK
<1>2. \A j \in Jobs' : jobs'[j] = IF j = Len(jobs) + 1 THEN row ELSE jobs[j]
  BY <1>1 DEF RowsOK, Jobs
<1>3. Renders \subseteq Renders'
  BY DEF Renders, RowsOK
<1>4. Len(jobs') <= MaxJobs
  BY <1>1, PublisherAssumption DEF RowsOK
<1>5. \A j \in Jobs' : jobs'[j].after \in {0} \cup Renders'
  <2> SUFFICES ASSUME NEW j \in Jobs' PROVE jobs'[j].after \in {0} \cup Renders'
    OBVIOUS
  <2>1. CASE j = Len(jobs) + 1
    BY <1>2, <2>1
  <2>2. CASE j # Len(jobs) + 1
    <3>1. j \in Jobs
      BY <1>1, <2>2 DEF Jobs, RowsOK
    <3> QED
      BY <1>2, <1>3, <2>2, <3>1 DEF RowsOK
  <2> QED
    BY <2>1, <2>2
<1> QED
  BY <1>1, <1>4, <1>5 DEF RowsOK

(* A new re-render.                                                         *)
LEMMA AddRenderRows ==
  ASSUME RowsOK, NEW row \in RenderRow, renders' = Append(renders, row)
  PROVE  renders' \in Seq(RenderRow) /\ Len(renders') = Len(renders) + 1
BY DEF RowsOK

-----------------------------------------------------------------------------
(* What a step that leaves a part of the state alone keeps.                 *)

LEMMA ClipStays ==
  ASSUME ClipOK, UNCHANGED <<clip, ids, upload, ledger>>
  PROVE  ClipOK'
BY DEF ClipOK

LEMMA RowsStay ==
  ASSUME RowsOK, UNCHANGED <<renders, jobs>>
  PROVE  RowsOK' /\ Len(jobs') = Len(jobs) /\ Len(renders') = Len(renders) /\ Jobs' = Jobs /\ Renders' = Renders
BY DEF RowsOK, Jobs, Renders

(* The row a re-render has in hand stays a row.                             *)
LEMMA RendStays ==
  ASSUME RendOK, RowsOK, RowsOK', Len(renders') >= Len(renders), UNCHANGED rend
  PROVE  RendOK'
<1>1. Renders \subseteq Renders'
  BY DEF Renders, RowsOK
<1> QED
  BY <1>1 DEF RendOK

(* The jobs an upload names stay jobs.                                      *)
LEMMA PubStays ==
  ASSUME PubOK, RowsOK, RowsOK', Len(jobs') >= Len(jobs), UNCHANGED <<pub, flags, verify>>
  PROVE  PubOK'
<1>1. Jobs \subseteq Jobs'
  BY DEF Jobs, RowsOK
<1> QED
  BY <1>1 DEF PubOK

LEMMA AskStays ==
  ASSUME AskOK, RowsOK, RowsOK', Len(jobs') = Len(jobs), UNCHANGED ask
  PROVE  AskOK'
<1>1. Jobs' = Jobs
  BY DEF Jobs, RowsOK
<1> QED
  BY <1>1 DEF AskOK

LEMMA WorldStays ==
  ASSUME WorldOK, UNCHANGED <<up, today, troubles>>, ops' = ops \/ Asks
  PROVE  WorldOK'
BY DEF WorldOK, Asks

(* A request answered.                                                      *)
LEMMA Answered ==
  ASSUME ask' = NoAsk
  PROVE  AskOK'
BY DEF AskOK, NoAsk, Ids, Same

(* The parts of a type that SMT can follow; kept \in BOOLEAN is apart.       *)
Parts == ClipOK /\ RowsOK /\ RendOK /\ PubOK /\ AskOK /\ WorldOK

LEMMA InitType == Init => Parts
BY PublisherAssumption
   DEF Init, Parts, ClipOK, RowsOK, RendOK, PubOK, AskOK, WorldOK, NoUpload, NoRend, NoPub, NoAsk,
       Jobs, Renders, Ids, Same

-----------------------------------------------------------------------------
(* Requests keep every type.                                                *)
LEMMA RequestTypes ==
  ASSUME Parts,
         AskPublish \/ (\E j \in Jobs : AskCancel(j)) \/ DeleteClip \/ RequestStep
  PROVE  Parts'
<1> USE DEF Parts, AloneInTable
<1>1. CASE AskPublish
  <2>1. AskOK'
    BY <1>1 DEF AskPublish, Asks, ClipOK, AskOK, Ids
  <2> QED
    BY <1>1, <2>1, ClipStays, RowsStay, RendStays, PubStays, WorldStays DEF AskPublish, RowsOK
<1>2. CASE \E j \in Jobs : AskCancel(j)
  <2>1. PICK j \in Jobs : AskCancel(j)
    BY <1>2
  <2>2. UNCHANGED <<clip, ids, upload, renders, jobs, ledger, rend, pub, verify, up, today, troubles>>
    BY <2>1 DEF AskCancel, table, world
  <2>3. RowsOK' /\ Len(jobs') = Len(jobs) /\ Len(renders') = Len(renders) /\ Jobs' = Jobs
    BY <2>2, RowsStay
  <2>4. AskOK' /\ (flags' = flags \/ flags' = flags \cup {j})
    <3>1. j \in Nat
      BY DEF Jobs, RowsOK
    <3>2. \/ UNCHANGED flags /\ ask' = [NoAsk EXCEPT !.at = "cancel", !.job = j]
          \/ UNCHANGED ask /\ flags' = flags \cup {j}
      BY <2>1 DEF AskCancel
    <3>3. ask' = [NoAsk EXCEPT !.at = "cancel", !.job = j] => AskOK'
      <4> SUFFICES ASSUME ask' = [at |-> "cancel", job |-> j, clip |-> 0, window |-> 0, to |-> 0]
                   PROVE  AskOK'
        BY DEF NoAsk
      <4>1. ask'.at = "cancel" /\ ask'.job = j /\ j \in Jobs'
        BY <2>3
      <4> QED
        BY <3>1, <4>1 DEF AskOK, Ids, Same
    <3>4. UNCHANGED ask => AskOK'
      BY <2>3 DEF AskOK
    <3> QED
      BY <3>2, <3>3, <3>4
  <2>5. PubOK'
    BY <2>2, <2>3, <2>4 DEF PubOK
  <2>6. Asks
    BY <2>1 DEF AskCancel
  <2> QED
    BY <2>2, <2>3, <2>4, <2>5, <2>6, ClipStays, RendStays, WorldStays DEF RowsOK
<1>3. CASE DeleteClip
  <2>1. ClipOK'
    BY <1>3 DEF DeleteClip, ClipOK, NoUpload, Ids
  <2> QED
    BY <1>3, <2>1, RowsStay, RendStays, PubStays, AskStays, WorldStays DEF DeleteClip, RowsOK
<1>4. CASE Publish
  <2>0. RowsOK /\ Len(jobs) < MaxJobs /\ RenderOf(ask.clip, ask.to) \in RenderRow
    BY <1>4 DEF Publish, AskOK, RenderOf, RenderRow
  <2>1. \A r \in Nat : JobAfter(r) \in JobRow /\ JobAfter(r).after = r
    BY DEF JobAfter, JobRow, AskOK
  <2>2. RowsOK' /\ Len(jobs') = Len(jobs) + 1 /\ Len(renders') >= Len(renders)
    <3>1. CASE jobs' = Append(jobs, JobAfter(0)) /\ UNCHANGED renders
      <4>1. renders' \in Seq(RenderRow) /\ Len(renders') >= Len(renders)
        BY <2>0, <3>1 DEF RowsOK
      <4> QED
        BY <2>0, <2>1, <3>1, <4>1, AddJobRows
    <3>2. CASE /\ renders' = Append(renders, RenderOf(ask.clip, ask.to))
               /\ jobs' = Append(jobs, JobAfter(Len(renders) + 1))
      <4>1. renders' \in Seq(RenderRow) /\ Len(renders') = Len(renders) + 1
        BY <2>0, <3>2, AddRenderRows
      <4>2. Len(renders) + 1 \in Renders' /\ Len(renders) \in Nat /\ Len(renders') >= Len(renders)
        BY <2>0, <4>1 DEF Renders, RowsOK
      <4>3. JobAfter(Len(renders) + 1) \in JobRow /\ JobAfter(Len(renders) + 1).after = Len(renders) + 1
        BY <2>1, <4>2
      <4> QED
        BY <2>0, <3>2, <4>1, <4>2, <4>3, AddJobRows
    <3> QED
      BY <1>4, <3>1, <3>2 DEF Publish
  <2> QED
    BY <1>4, <2>2, ClipStays, RendStays, PubStays, WorldStays, Answered DEF Publish, RowsOK
<1>5. CASE Cancel
  <2>1. ask.job \in Jobs
    BY <1>5 DEF Cancel, AskOK
  <2>2. RowsOK' /\ Len(jobs') = Len(jobs)
    BY <1>5, <2>1, SetJobRows DEF Cancel
  <2> QED
    BY <1>5, <2>2, ClipStays, RendStays, PubStays, WorldStays, Answered DEF Cancel, RowsOK
<1> QED
  BY <1>1, <1>2, <1>3, <1>4, <1>5 DEF RequestStep

(* The Queue page and the worker's thread keep every type.                  *)
LEMMA RenderTypes ==
  ASSUME Parts,
         \/ RenderStep \/ \E to \in Windows \cup {Same} : Rerender(to)
         \/ \E r \in Renders : RemoveRender(r) \/ RetryRender(r)
  PROVE  Parts'
<1> USE DEF Parts, AloneInTable, RendOnly
<1>a. ASSUME NEW r \in Renders, RemoveRender(r) \/ RetryRender(r)
      PROVE  Parts'
  <2>1. RowsOK' /\ Len(renders') = Len(renders)
    BY <1>a, SetRenderRows DEF RemoveRender, RetryRender
  <2> QED
    BY <1>a, <2>1, ClipStays, RendStays, PubStays, AskStays, WorldStays DEF RemoveRender, RetryRender, RowsOK
<1>b. ASSUME NEW to \in Windows \cup {Same}, Rerender(to)
      PROVE  Parts'
  <2>1. RenderOf(clip.id, to) \in RenderRow
    BY DEF RenderOf, RenderRow, ClipOK
  <2>2. renders' \in Seq(RenderRow) /\ Len(renders') = Len(renders) + 1 /\ UNCHANGED jobs
    BY <1>b, <2>1, AddRenderRows DEF Rerender
  <2>3. Len(renders) \in Nat /\ Renders \subseteq Renders'
    BY <2>2 DEF RowsOK, Renders
  <2>4. RowsOK'
    BY <2>2, <2>3 DEF RowsOK, Jobs
  <2> QED
    BY <1>b, <2>2, <2>3, <2>4, ClipStays, RendStays, PubStays, AskStays, WorldStays DEF Rerender, RowsOK
<1>1. CASE ClaimRender
  <2>1. PICK r \in Renders : SetRender(r, "running") /\ rend' = [NoRend EXCEPT !.at = "open", !.render = r]
    BY <1>1 DEF ClaimRender
  <2>2. RowsOK' /\ Len(renders') = Len(renders) /\ r \in Nat
    BY <1>1, <2>1, SetRenderRows DEF ClaimRender, RendOnly, RowsOK, Renders
  <2>3. RendOK'
    BY <2>1, <2>2 DEF RendOK, NoRend, Ids, Renders
  <2> QED
    BY <1>1, <2>2, <2>3, ClipStays, PubStays, AskStays, WorldStays DEF ClaimRender, RowsOK
<1>c. ASSUME NEW status \in {"done", "failed", "cancelled"}, rend.at # "idle", RendEnds(status),
             UNCHANGED <<jobs, clip, ids, upload, ledger, pub, flags, verify, ask, up, today, ops>>,
             troubles' = troubles \/ Trouble
      PROVE  Parts'
  <2>1. rend.render \in Renders
    BY <1>c DEF RendOK
  <2>2. RowsOK' /\ Len(renders') = Len(renders)
    BY <1>c, <2>1, SetRenderRows DEF RendEnds
  <2>3. RendOK'
    BY <1>c DEF RendEnds, RendOK, NoRend, Ids
  <2>4. WorldOK'
    BY <1>c DEF WorldOK, Trouble
  <2> QED
    BY <1>c, <2>2, <2>3, <2>4, ClipStays, PubStays, AskStays DEF RowsOK
<1>d. ASSUME RendOK', ClipOK',
             UNCHANGED <<renders, jobs, pub, flags, verify, ask, up, today, ops, troubles>>
      PROVE  Parts'
  BY <1>d, RowsStay, PubStays, AskStays, WorldStays DEF RowsOK
<1>2. CASE OpenClip
  <2>1. CASE RendEnds("failed")
    BY <1>2, <2>1, <1>c DEF OpenClip
  <2>2. CASE /\ UNCHANGED renders
             /\ rend' = [rend EXCEPT !.at = "rendering", !.clip = renders[rend.render].clip,
                           !.to = IF renders[rend.render].to = Same THEN clip.window
                                  ELSE renders[rend.render].to]
    <3>1. rend.render \in Renders /\ renders[rend.render] \in RenderRow
      BY <1>2 DEF OpenClip, RendOK, RowsOK, Renders
    <3>2. RendOK' /\ ClipOK'
      BY <1>2, <2>2, <3>1 DEF OpenClip, RendOK, ClipOK, RenderRow, Renders
    <3> QED
      BY <1>2, <2>2, <3>2, <1>d DEF OpenClip
  <2> QED
    BY <1>2, <2>1, <2>2 DEF OpenClip
<1>3. CASE RenderFails
  BY <1>3, <1>c DEF RenderFails
<1>4. CASE Detach
  <2>1. ClipOK'
    BY <1>4 DEF Detach, RendOK, ClipOK, NoUpload, Ids
  <2>2. UNCHANGED renders /\ RendOK'
    BY <1>4 DEF Detach, RendOK, ClipOK, Ids, Renders
  <2> QED
    BY <1>4, <2>1, <2>2, <1>d DEF Detach
<1>5. CASE DeleteOld
  <2>1. CASE RendEnds("failed") /\ UNCHANGED clip
    BY <1>5, <2>1, <1>c DEF DeleteOld
  <2>2. CASE /\ clip' = IF Here(rend.clip) THEN [clip EXCEPT !.id = 0] ELSE clip
             /\ rend' = [rend EXCEPT !.at = "deleted"] /\ UNCHANGED renders
    <3>1. RendOK' /\ ClipOK'
      BY <1>5, <2>2 DEF DeleteOld, RendOK, ClipOK, Ids, Renders
    <3> QED
      BY <1>5, <2>2, <3>1, <1>d DEF DeleteOld
  <2> QED
    BY <1>5, <2>1, <2>2 DEF DeleteOld
<1>6. CASE Register
  <2>1. ClipOK'
    BY <1>6 DEF Register, RendOK, ClipOK, NoUpload, Ids
  <2>2. UNCHANGED renders /\ RendOK'
    <3>1. ids + 1 \in Ids
      BY DEF ClipOK, Ids
    <3>2. UNCHANGED renders /\ Renders' = Renders
      BY <1>6 DEF Register, Renders
    <3>3. rend' = [rend EXCEPT !.at = "registered", !.new = ids + 1] /\ rend.at = "deleted"
      BY <1>6 DEF Register
    <3> QED
      BY <3>1, <3>2, <3>3 DEF RendOK
  <2> QED
    BY <1>6, <2>1, <2>2, <1>d DEF Register
<1>7. CASE Reattach
  <2>1. ClipOK'
    BY <1>7 DEF Reattach, RendOK, ClipOK, NoUpload, Ids
  <2>2. UNCHANGED renders /\ RendOK'
    BY <1>7 DEF Reattach, RendOK, ClipOK, Ids, Renders
  <2> QED
    BY <1>7, <2>1, <2>2, <1>d DEF Reattach
<1>8. CASE RenderDone
  BY <1>8, <1>c DEF RenderDone
<1> QED
  BY <1>a, <1>b, <1>1, <1>2, <1>3, <1>4, <1>5, <1>6, <1>7, <1>8 DEF RenderStep

LEMMA JobIdsAreNat ==
  ASSUME RowsOK
  PROVE  Jobs \subseteq Nat
<1>1. Len(jobs) \in Nat
  BY DEF RowsOK
<1> QED
  BY <1>1 DEF Jobs

(* The publisher's thread leaves a job.                                     *)
LEMMA JobEnds ==
  ASSUME Parts, pub.job \in Jobs, NEW status \in {"done", "failed", "cancelled"}, PubEnds(status),
         UNCHANGED renders, flags' \subseteq Jobs, verify' \subseteq Ids \X Jobs
  PROVE  RowsOK' /\ Len(jobs') = Len(jobs) /\ Len(renders') = Len(renders) /\ PubOK'
<1>1. RowsOK' /\ Len(jobs') = Len(jobs)
  BY SetJobRows DEF PubEnds, Parts
<1>2. Jobs' = Jobs
  BY <1>1 DEF Jobs
<1> QED
  BY <1>1, <1>2 DEF PubEnds, PubOK, NoPub, Ids

(* The publisher's thread goes on without a job.                            *)
LEMMA PubMoves ==
  ASSUME Parts, UNCHANGED <<renders, jobs>>, flags' = flags, verify' \subseteq verify,
         \/ \E at \in {"top", "dead", "start"} : pub' = [NoPub EXCEPT !.at = at]
         \/ \E at \in {"sent", "counted", "recorded"} : pub' = [pub EXCEPT !.at = at] /\ pub.job \in Jobs
         \/ UNCHANGED pub
         \/ \E v \in verify : pub' = [NoPub EXCEPT !.at = "asked", !.clip = v[1], !.job = v[2]]
  PROVE  RowsOK' /\ Len(jobs') = Len(jobs) /\ Len(renders') = Len(renders) /\ PubOK'
<1> USE DEF Parts
<1>1. RowsOK' /\ Len(jobs') = Len(jobs) /\ Len(renders') = Len(renders) /\ Jobs' = Jobs
  BY RowsStay
<1>2. flags' \subseteq Jobs' /\ verify' \subseteq Ids \X Jobs'
  BY <1>1 DEF PubOK
<1>3. ASSUME NEW at \in {"top", "dead", "start"}, pub' = [NoPub EXCEPT !.at = at] PROVE PubOK'
  BY <1>2, <1>3 DEF PubOK, NoPub, Ids
<1>4. ASSUME NEW at \in {"sent", "counted", "recorded"}, pub' = [pub EXCEPT !.at = at], pub.job \in Jobs
      PROVE  PubOK'
  BY <1>1, <1>2, <1>4 DEF PubOK
<1>5. ASSUME UNCHANGED pub PROVE PubOK'
  BY <1>1, <1>2, <1>5 DEF PubOK
<1>6. ASSUME NEW v \in verify, pub' = [NoPub EXCEPT !.at = "asked", !.clip = v[1], !.job = v[2]]
      PROVE  PubOK'
  <2>0. v \in Ids \X Jobs
    BY DEF PubOK
  <2>1. v[1] \in Ids /\ v[2] \in Jobs
    BY <2>0
  <2>2. Jobs \subseteq Nat
    BY JobIdsAreNat
  <2> QED
    BY <1>1, <1>2, <1>6, <2>1, <2>2 DEF PubOK, NoPub
<1> QED
  BY <1>1, <1>3, <1>4, <1>5, <1>6

(* Today's ledger is a ledger.                                              *)
LEMMA RolledType ==
  ASSUME Parts
  PROVE  Rolled \in [day : Nat, uploads : Nat]
BY DEF Parts, ClipOK, WorldOK, Rolled

(* The publisher's thread keeps every type.                                 *)
LEMMA PubTypes ==
  ASSUME Parts, PubStep
  PROVE  Parts'
<1> USE DEF Parts, PubOnly, world
<1>0. pub.at \in {"claimed", "sending", "sent", "counted", "recorded"} => pub.job \in Jobs /\ pub.job \in 1 .. MaxJobs
  BY PublisherAssumption DEF PubOK, RowsOK, Jobs
<1>f. UNCHANGED renders => Len(renders') >= Len(renders)
  BY DEF RowsOK
<1>1. CASE Recover
  <2>1. \A j \in Jobs : jobs'[j] \in JobRow /\ jobs'[j].after = jobs[j].after
    <3> SUFFICES ASSUME NEW j \in Jobs PROVE jobs'[j] \in JobRow /\ jobs'[j].after = jobs[j].after
      OBVIOUS
    <3>1. jobs[j] \in JobRow
      BY DEF RowsOK, Jobs
    <3>2. jobs'[j] = jobs[j] \/ jobs'[j] = [jobs[j] EXCEPT !.status = "interrupted"]
      BY <1>1 DEF Recover
    <3> QED
      BY <3>1, <3>2 DEF JobRow
  <2>2. jobs' \in [1 .. Len(jobs) -> JobRow]
    BY <1>1, <2>1 DEF Recover, Jobs
  <2>3. jobs' \in Seq(JobRow) /\ Len(jobs') = Len(jobs)
    BY <2>2, WriteAll DEF RowsOK
  <2>4. RowsOK' /\ Jobs' = Jobs
    BY <1>1, <2>1, <2>3 DEF Recover, RowsOK, Jobs, Renders
  <2>5. PubOK'
    BY <1>1, <2>4 DEF Recover, PubOK, NoPub, Ids
  <2> QED
    BY <1>f, <1>1, <2>3, <2>4, <2>5, ClipStays, RendStays, AskStays, WorldStays DEF Recover
<1>2. CASE List
  <2>1. PubOK'
    BY <1>2 DEF List, PubOK, NoPub, Ids, Waiting, Jobs
  <2> QED
    BY <1>f, <1>2, <2>1, ClipStays, RowsStay, RendStays, AskStays, WorldStays DEF List
<1>3. CASE Claim
  <2>1. RowsOK' /\ Len(jobs') = Len(jobs) /\ PubOK'
    <3>1. CASE pub' = NoPub /\ UNCHANGED jobs
      BY <1>3, <3>1, RowsStay DEF Claim, PubOK, NoPub, Ids
    <3>2. ASSUME NEW j \in Oldest(pub.todo), pub' = Past(j), UNCHANGED jobs \/ SetJob(j, "failed")
          PROVE  RowsOK' /\ Len(jobs') = Len(jobs) /\ PubOK'
      <4>1. j \in Jobs
        BY DEF Oldest, PubOK
      <4>2. RowsOK' /\ Len(jobs') = Len(jobs) /\ Jobs' = Jobs
        BY <1>3, <3>2, <4>1, RowsStay, SetJobRows DEF Claim, Jobs
      <4>3. PubOK'
        BY <1>3, <3>2, <4>2 DEF Claim, Past, PubOK
      <4> QED
        BY <4>2, <4>3
    <3>3. ASSUME NEW j \in Oldest(pub.todo), SetJob(j, "running"),
                 pub' = [NoPub EXCEPT !.at = "claimed", !.job = j]
          PROVE  RowsOK' /\ Len(jobs') = Len(jobs) /\ PubOK'
      <4>1. j \in Jobs /\ j \in Nat
        BY DEF Oldest, PubOK, Jobs, RowsOK
      <4>2. RowsOK' /\ Len(jobs') = Len(jobs) /\ Jobs' = Jobs
        BY <1>3, <3>3, <4>1, SetJobRows DEF Claim, Jobs
      <4>3. PubOK'
        BY <1>3, <3>3, <4>1, <4>2 DEF Claim, NoPub, Ids, PubOK
      <4> QED
        BY <4>2, <4>3
    <3> QED
      BY <1>3, <3>1, <3>2, <3>3 DEF Claim
  <2> QED
    BY <1>f, <1>3, <2>1, ClipStays, RendStays, AskStays, WorldStays DEF Claim
<1>4. CASE Prepare
  <2>1. pub.job \in Jobs /\ jobs[pub.job] \in JobRow /\ clip.id \in Ids
    BY <1>0, <1>4 DEF Prepare, RowsOK, Jobs, ClipOK
  <2>2. \E status \in {jobs[pub.job].status, "failed"}, id \in Ids :
          jobs' = [jobs EXCEPT ![pub.job] = [jobs[pub.job] EXCEPT !.status = status, !.clip = id]]
    <3>1. CASE jobs' = [jobs EXCEPT ![pub.job].clip = clip.id]
      BY <2>1, <3>1 DEF JobRow
    <3>2. CASE jobs' = [jobs EXCEPT ![pub.job].status = "failed",
                                    ![pub.job].clip = IF Resolves(pub.job) THEN clip.id ELSE @]
      BY <2>1, <3>2 DEF JobRow, RowsOK, Jobs
    <3> QED
      BY <1>4, <3>1, <3>2 DEF Prepare
  <2>3. PICK row \in JobRow : jobs' = [jobs EXCEPT ![pub.job] = row] /\ row.after = jobs[pub.job].after
    BY <2>1, <2>2 DEF JobRow
  <2>4. jobs' \in Seq(JobRow) /\ Len(jobs') = Len(jobs)
    BY <2>1, <2>3, WriteOne DEF RowsOK, Jobs
  <2>5. RowsOK' /\ Jobs' = Jobs
    BY <1>4, <2>1, <2>3, <2>4 DEF Prepare, RowsOK, Jobs, Renders
  <2>6. PubOK'
    <3>1. \/ pub' = [pub EXCEPT !.at = "sending", !.clip = clip.id]
          \/ pub' = NoPub
      BY <1>4 DEF Prepare
    <3>2. flags' \subseteq Jobs' /\ verify' \subseteq Ids \X Jobs'
      BY <1>4, <2>5 DEF Prepare, PubOK
    <3>3. CASE pub' = [pub EXCEPT !.at = "sending", !.clip = clip.id]
      BY <2>1, <2>5, <3>2, <3>3 DEF PubOK
    <3>4. CASE pub' = NoPub
      BY <3>2, <3>4 DEF PubOK, NoPub, Ids
    <3> QED
      BY <3>1, <3>3, <3>4
  <2> QED
    BY <1>f, <1>4, <2>4, <2>5, <2>6, ClipStays, RendStays, AskStays, WorldStays DEF Prepare
<1>5. CASE UploadCancelled
  <2>1. RowsOK' /\ Len(jobs') = Len(jobs) /\ Len(renders') = Len(renders) /\ PubOK'
    <3>1. flags' \subseteq Jobs /\ verify' \subseteq Ids \X Jobs /\ pub.job \in Jobs
      BY <1>0, <1>5 DEF UploadCancelled, PubOK
    <3> QED
      BY <1>5, <3>1, JobEnds DEF UploadCancelled
  <2> QED
    BY <1>f, <1>5, <2>1, ClipStays, RendStays, AskStays, WorldStays DEF UploadCancelled
<1>6. CASE UploadFails
  <2>1. RowsOK' /\ Len(jobs') = Len(jobs) /\ Len(renders') = Len(renders) /\ PubOK'
    BY <1>0, <1>6, JobEnds DEF UploadFails, PubOK
  <2>2. ClipOK'
    BY <1>6, RolledType, PublisherAssumption DEF UploadFails, ClipOK
  <2>3. WorldOK'
    BY <1>6 DEF UploadFails, Trouble, WorldOK
  <2> QED
    BY <1>f, <1>6, <2>1, <2>2, <2>3, RendStays, AskStays DEF UploadFails
<1>7. CASE UploadLost
  <2>1. RowsOK' /\ Len(jobs') = Len(jobs) /\ Len(renders') = Len(renders) /\ PubOK'
    BY <1>0, <1>7, JobEnds DEF UploadLost, PubOK
  <2>2. WorldOK'
    <3>1. up' \in [1 .. MaxJobs -> Nat]
      BY <1>0, <1>7 DEF UploadLost, Goes, WorldOK
    <3>2. today' = [today EXCEPT !.made = today.made + 1, !.missed = today.missed + 1]
      BY <1>7 DEF UploadLost
    <3>3. today' \in [day : Nat, made : Nat, missed : Nat]
      <4>1. today \in [day : Nat, made : Nat, missed : Nat]
        BY DEF WorldOK
      <4>2. today.made + 1 \in Nat /\ today.missed + 1 \in Nat
        BY <4>1
      <4> QED
        BY <3>2, <4>1, <4>2
    <3>4. ops' \in Nat /\ troubles' \in Nat
      BY <1>7 DEF UploadLost, Trouble, WorldOK
    <3> QED
      BY <3>1, <3>3, <3>4 DEF WorldOK
  <2> QED
    BY <1>f, <1>7, <2>1, <2>2, ClipStays, RendStays, AskStays DEF UploadLost
<1>8. CASE UploadDone
  <2>1. RowsOK' /\ Len(jobs') = Len(jobs) /\ Len(renders') = Len(renders) /\ PubOK'
    BY <1>0, <1>8, PubMoves DEF UploadDone
  <2>2. WorldOK'
    BY <1>0, <1>8 DEF UploadDone, Goes, WorldOK
  <2> QED
    BY <1>f, <1>8, <2>1, <2>2, ClipStays, RendStays, AskStays DEF UploadDone
<1>9. CASE Count
  <2>1. RowsOK' /\ Len(jobs') = Len(jobs) /\ Len(renders') = Len(renders) /\ PubOK'
    BY <1>0, <1>9, PubMoves DEF Count
  <2>2. ClipOK'
    BY <1>9, RolledType DEF Count, ClipOK
  <2> QED
    BY <1>f, <1>9, <2>1, <2>2, RendStays, AskStays, WorldStays DEF Count
<1>10. CASE Record
  <2>1. RowsOK' /\ Len(jobs') = Len(jobs) /\ Len(renders') = Len(renders) /\ PubOK'
    <3>1. CASE PubEnds("failed")
      BY <1>0, <1>10, <3>1, JobEnds DEF Record, PubOK
    <3>2. CASE pub' = [pub EXCEPT !.at = "recorded"] /\ UNCHANGED jobs
      BY <1>0, <1>10, <3>2, PubMoves DEF Record
    <3> QED
      BY <1>10, <3>1, <3>2 DEF Record
  <2>2. ClipOK'
    BY <1>10 DEF Record, ClipOK, PubOK
  <2> QED
    BY <1>f, <1>10, <2>1, <2>2, RendStays, AskStays, WorldStays DEF Record
<1>11. CASE Done
  <2>1. pub.job \in Jobs /\ verify' \subseteq Ids \X Jobs /\ flags' \subseteq Jobs
    BY <1>0, <1>11 DEF Done, PubOK
  <2>2. RowsOK' /\ Len(jobs') = Len(jobs) /\ Len(renders') = Len(renders) /\ PubOK'
    BY <1>11, <2>1, JobEnds DEF Done
  <2> QED
    BY <1>f, <1>11, <2>2, ClipStays, RendStays, AskStays, WorldStays DEF Done
<1>12. CASE \E v \in verify : ReadBack(v)
  <2>1. RowsOK' /\ Len(jobs') = Len(jobs) /\ Len(renders') = Len(renders) /\ PubOK'
    <3>1. PICK v \in verify : ReadBack(v)
      BY <1>12
    <3>2. \/ UNCHANGED pub
          \/ pub' = [NoPub EXCEPT !.at = "asked", !.clip = v[1], !.job = v[2]]
      BY <3>1 DEF ReadBack
    <3> QED
      BY <3>1, <3>2, PubMoves DEF ReadBack
  <2> QED
    BY <1>f, <1>12, <2>1, ClipStays, RendStays, AskStays, WorldStays DEF ReadBack
<1>13. CASE WriteBack
  <2>1. RowsOK' /\ Len(jobs') = Len(jobs) /\ Len(renders') = Len(renders) /\ PubOK'
    <3>1. NoPub = [NoPub EXCEPT !.at = "top"]
      BY DEF NoPub
    <3> QED
      BY <1>13, <3>1, PubMoves DEF WriteBack
  <2>2. ClipOK'
    BY <1>13 DEF WriteBack, ClipOK, PubOK
  <2> QED
    BY <1>f, <1>13, <2>1, <2>2, RendStays, AskStays, WorldStays DEF WriteBack
<1> QED
  BY <1>1, <1>2, <1>3, <1>4, <1>5, <1>6, <1>7, <1>8, <1>9, <1>10, <1>11, <1>12, <1>13 DEF PubStep

(* Midnight and a restart keep every type.                                  *)
LEMMA WorldTypes ==
  ASSUME Parts, DayPasses \/ Restart
  PROVE  Parts'
<1> USE DEF Parts
<1>f. UNCHANGED renders => Len(renders') >= Len(renders)
  BY DEF RowsOK
<1>1. CASE DayPasses
  <2>1. UNCHANGED <<clip, ids, upload, renders, jobs, ledger, rend, pub, flags, verify, ask>>
    BY <1>1 DEF DayPasses, table, memory
  <2>2. WorldOK'
    BY <1>1 DEF DayPasses, WorldOK
  <2> QED
    BY <1>f, <2>1, <2>2, ClipStays, RowsStay, RendStays, PubStays, AskStays
<1>2. CASE Restart
  <2>1. \A r \in Renders : renders'[r] \in RenderRow
    <3> SUFFICES ASSUME NEW r \in Renders PROVE renders'[r] \in RenderRow
      OBVIOUS
    <3>1. renders[r] \in RenderRow
      BY DEF RowsOK, Renders
    <3>2. renders'[r] = renders[r] \/ renders'[r] = [renders[r] EXCEPT !.status = "queued"]
      BY <1>2 DEF Restart
    <3> QED
      BY <3>1, <3>2 DEF RenderRow
  <2>2. renders' \in [1 .. Len(renders) -> RenderRow]
    BY <1>2, <2>1 DEF Restart, Renders
  <2>3. renders' \in Seq(RenderRow) /\ Len(renders') = Len(renders)
    BY <2>2, WriteAll DEF RowsOK
  <2>4. RowsOK' /\ Len(jobs') = Len(jobs)
    BY <1>2, <2>3 DEF Restart, RowsOK, Jobs, Renders
  <2>5. PubOK'
    BY <1>2 DEF Restart, PubOK, NoPub, Ids
  <2>6. RendOK'
    BY <1>2 DEF Restart, RendOK, NoRend, Ids
  <2>7. WorldOK'
    <3>1. today.missed \in Nat /\ today.missed + 1 \in Nat /\ today.missed + 0 \in Nat
      BY DEF WorldOK
    <3>2. today' \in [day : Nat, made : Nat, missed : Nat]
      BY <1>2, <3>1 DEF Restart, WorldOK
    <3> QED
      BY <1>2, <3>2 DEF Restart, Trouble, WorldOK
  <2> QED
    BY <1>2, <2>4, <2>5, <2>6, <2>7, ClipStays, Answered DEF Restart
<1> QED
  BY <1>1, <1>2

(* What did not happen keeps every type.                                    *)
LEMMA StutterTypes ==
  ASSUME Parts, UNCHANGED vars
  PROVE  Parts'
<1>1. Len(renders') >= Len(renders)
  BY DEF vars, table, Parts, RowsOK
<1> QED
  BY <1>1, ClipStays, RowsStay, RendStays, PubStays, AskStays, WorldStays DEF vars, table, memory, world, Parts

LEMMA NextTypes ==
  ASSUME Parts, [Next]_vars
  PROVE  Parts'
BY RequestTypes, RenderTypes, PubTypes, WorldTypes, StutterTypes DEF Next

(* The history variable `kept` is a truth value.                            *)
LEMMA KeptType ==
  ASSUME kept \in BOOLEAN, [Next]_vars
  PROVE  kept' \in BOOLEAN
<1>1. kept' = kept \/ kept' = TRUE \/ kept' = FALSE \/ Restart
  BY DEF Next, vars, world, AloneInTable, RendOnly, PubOnly, AskPublish, AskCancel, DeleteClip, Rerender,
         RemoveRender, RetryRender, RequestStep, Publish, Cancel, RenderStep, ClaimRender, OpenClip,
         RenderFails, Detach, DeleteOld, Register, Reattach, RenderDone, PubStep, Recover, List, Claim,
         Prepare, UploadCancelled, UploadFails, UploadLost, UploadDone, Count, Record, Done, ReadBack,
         WriteBack, DayPasses
<1>2. Restart => kept' \in BOOLEAN
  BY Zenon DEF Restart
<1> QED
  BY <1>1, <1>2, Zenon

(* Every variable of Publisher holds what its column or object may hold.    *)
THEOREM TypesHold == Spec => []TypeOK
<1>1. Init => Parts /\ kept \in BOOLEAN
  BY InitType DEF Init
<1>2. Parts /\ kept \in BOOLEAN /\ [Next]_vars => (Parts /\ kept \in BOOLEAN)'
  BY NextTypes, KeptType
<1>3. Parts /\ kept \in BOOLEAN => TypeOK
  BY DEF Parts, TypeOK
<1> QED
  BY <1>1, <1>2, <1>3, PTL DEF Spec

-----------------------------------------------------------------------------
(* OneUpload. A job that may yet be sent has not been: it is queued, in the  *)
(* list the publisher's thread read, or in its hands before the upload ends; *)
(* and no job becomes queued again.                                         *)
Sending(j) == pub.at \in {"claimed", "sending"} /\ pub.job = j
ToCome(j)  == j \notin Jobs \/ jobs[j].status = "queued" \/ j \in pub.todo \/ Sending(j)
NotYet     == \A j \in 1 .. MaxJobs : ToCome(j) => up[j] = 0
ListInHand == pub.at # "listed" => pub.todo = {}
NotQueued  == pub.at \in {"claimed", "sending"} => jobs[pub.job].status # "queued"
UploadInv  == OneUpload /\ NotYet /\ ListInHand /\ NotQueued

(* What a status written by id changes, and what it does not.               *)
LEMMA SetJobView ==
  ASSUME RowsOK, NEW j \in Jobs, NEW status, SetJob(j, status)
  PROVE  /\ Jobs' = Jobs
         /\ \A i \in Jobs : /\ jobs'[i].after = jobs[i].after
                           /\ jobs'[i].status = IF i = j THEN status ELSE jobs[i].status
<1>1. \A i \in Jobs : jobs[i] \in JobRow
  BY DEF RowsOK, Jobs
<1>2. jobs' = [jobs EXCEPT ![j] = [jobs[j] EXCEPT !.status = status]]
  BY DEF SetJob
<1>3. Jobs' = Jobs
  BY <1>2 DEF RowsOK, Jobs
<1>4. \A i \in Jobs : jobs'[i] = IF i = j THEN [jobs[j] EXCEPT !.status = status] ELSE jobs[i]
  BY <1>2 DEF RowsOK, Jobs
<1> QED
  BY <1>1, <1>3, <1>4 DEF JobRow

(* A status that is not "queued" makes no job one that may yet be sent.      *)
LEMMA LessToCome ==
  ASSUME Parts, Parts', UploadInv, UNCHANGED up, ListInHand', NotQueued',
         \A j \in 1 .. MaxJobs : ToCome(j)' => ToCome(j)
  PROVE  UploadInv'
<1>1. NotYet'
  BY DEF UploadInv, NotYet
<1>2. Jobs' \subseteq 1 .. MaxJobs
  BY PublisherAssumption DEF Parts, RowsOK, Jobs
<1>3. \A j \in 1 .. MaxJobs : up[j] <= 1
  BY DEF UploadInv, OneUpload, NotYet, ToCome
<1>4. OneUpload'
  BY <1>2, <1>3 DEF OneUpload
<1> QED
  BY <1>1, <1>4 DEF UploadInv

LEMMA UploadStep ==
  ASSUME Parts, Parts', UploadInv, [Next]_vars
  PROVE  UploadInv'
<1>0. \A j \in Jobs : j \in 1 .. MaxJobs
  BY PublisherAssumption DEF Parts, RowsOK, Jobs
<1>1. CASE UNCHANGED <<jobs, pub, up>>
  <2>1. \A j \in 1 .. MaxJobs : ToCome(j)' => ToCome(j)
    BY <1>1 DEF ToCome, Sending, Jobs
  <2>2. ListInHand' /\ NotQueued'
    BY <1>1 DEF UploadInv, ListInHand, NotQueued
  <2> QED
    BY <1>1, <2>1, <2>2, LessToCome
<1>2. CASE Publish
  <2>0. UNCHANGED <<pub, up>> /\ \E row : jobs' = Append(jobs, row)
    BY <1>2 DEF Publish, AloneInTable
  <2>1. Len(jobs') = Len(jobs) + 1 /\ UNCHANGED <<pub, up>> /\ \A j \in Jobs : jobs'[j] = jobs[j]
    BY <2>0 DEF Parts, RowsOK, Jobs
  <2>2. Jobs \subseteq Jobs'
    BY <2>1 DEF Parts, RowsOK, Jobs
  <2>3. NotQueued' /\ ListInHand'
    BY <2>1 DEF UploadInv, NotQueued, ListInHand, Parts, PubOK
  <2>4. \A j \in 1 .. MaxJobs : ToCome(j)' => ToCome(j)
    BY <2>1, <2>2 DEF ToCome, Sending
  <2> QED
    BY <2>1, <2>3, <2>4, LessToCome
<1>a. ASSUME NEW j \in Jobs, NEW status \in {"running", "done", "failed", "cancelled"}, SetJob(j, status),
             UNCHANGED up,
             \/ UNCHANGED pub
             \/ pub'.at = "top" /\ pub'.todo = {}
             \/ pub.at = "listed" /\ pub'.at = "listed" /\ pub'.todo \subseteq pub.todo
             \/ j \in pub.todo /\ pub'.at = "claimed" /\ pub'.todo = {} /\ pub'.job = j /\ status = "running"
      PROVE  UploadInv'
  <2>1. Jobs' = Jobs /\ \A i \in Jobs : jobs'[i].status = IF i = j THEN status ELSE jobs[i].status
    BY <1>a, SetJobView DEF Parts
  <2>2. ListInHand'
    BY <1>a DEF UploadInv, ListInHand
  <2>3. NotQueued'
    <3>1. pub.at \in {"claimed", "sending"} => pub.job \in Jobs
      BY DEF Parts, PubOK
    <3> QED
      BY <1>a, <2>1, <3>1 DEF UploadInv, NotQueued
  <2>4. \A i \in 1 .. MaxJobs : ToCome(i)' => ToCome(i)
    BY <1>a, <2>1 DEF ToCome, Sending
  <2> QED
    BY <1>a, <2>2, <2>3, <2>4, LessToCome
<1>3. CASE Cancel
  <2>1. ask.job \in Jobs
    BY <1>3 DEF Cancel, Parts, AskOK
  <2> QED
    BY <1>3, <2>1, <1>a DEF Cancel, AloneInTable
<1>b. ASSUME UNCHANGED <<jobs, up>>,
             \/ pub'.at \in {"top", "asked", "dead", "start"} /\ pub'.todo = {}
             \/ pub'.at \in {"counted", "recorded"} /\ pub'.todo = pub.todo /\ pub.at # "listed"
             \/ pub.at = "listed" /\ pub'.at = "listed" /\ pub'.todo \subseteq pub.todo
      PROVE  UploadInv'
  <2>1. ListInHand' /\ NotQueued'
    BY <1>b DEF UploadInv, ListInHand, NotQueued
  <2>2. \A i \in 1 .. MaxJobs : ToCome(i)' => ToCome(i)
    BY <1>b DEF ToCome, Sending, Jobs
  <2> QED
    BY <1>b, <2>1, <2>2, LessToCome
<1>c. NoPub.at = "top" /\ NoPub.todo = {}
  BY DEF NoPub
<1>4. CASE Recover
  <2>1. Jobs' = Jobs /\ \A i \in Jobs : jobs'[i].status = "queued" => jobs[i].status = "queued"
    <3>1. Jobs' = Jobs /\ \A i \in Jobs : jobs'[i] = IF jobs[i].status = "running"
                                      THEN [jobs[i] EXCEPT !.status = "interrupted"] ELSE jobs[i]
      BY <1>4 DEF Recover, Jobs, Parts, RowsOK
    <3>2. \A i \in Jobs : jobs[i] \in JobRow
      BY DEF Parts, RowsOK, Jobs
    <3> QED
      BY <3>1, <3>2 DEF JobRow
  <2>2. ListInHand' /\ NotQueued' /\ UNCHANGED up
    BY <1>4 DEF Recover, ListInHand, NotQueued, NoPub, world
  <2>3. \A i \in 1 .. MaxJobs : ToCome(i)' => ToCome(i)
    BY <1>4, <2>1 DEF Recover, ToCome, Sending, NoPub
  <2> QED
    BY <2>2, <2>3, LessToCome
<1>5. CASE List
  <2>1. ListInHand' /\ NotQueued' /\ UNCHANGED <<up, jobs>>
    BY <1>5 DEF List, ListInHand, NotQueued, NoPub, world
  <2>2. \A i \in 1 .. MaxJobs : ToCome(i)' => ToCome(i)
    BY <1>5 DEF List, ToCome, Sending, NoPub, Waiting, Jobs
  <2> QED
    BY <2>1, <2>2, LessToCome
<1>6. CASE Claim
  <2>1. UNCHANGED up /\ pub.at = "listed" /\ Oldest(pub.todo) \subseteq Jobs /\ Oldest(pub.todo) \subseteq pub.todo
    BY <1>6 DEF Claim, world, Oldest, Parts, PubOK
  <2>2. CASE pub' = NoPub /\ UNCHANGED jobs
    BY <1>b, <1>c, <2>1, <2>2
  <2>3. ASSUME NEW j \in Oldest(pub.todo), pub' = Past(j), UNCHANGED jobs \/ SetJob(j, "failed")
        PROVE  UploadInv'
    <3>1. pub'.at = "listed" /\ pub'.todo \subseteq pub.todo
      BY <2>1, <2>3 DEF Past, Parts, PubOK
    <3> QED
      BY <1>a, <1>b, <2>1, <2>3, <3>1
  <2>4. ASSUME NEW j \in Oldest(pub.todo), SetJob(j, "running"),
               pub' = [NoPub EXCEPT !.at = "claimed", !.job = j]
        PROVE  UploadInv'
    <3>1. pub'.at = "claimed" /\ pub'.todo = {} /\ pub'.job = j
      BY <2>4 DEF NoPub
    <3> QED
      BY <1>a, <2>1, <2>4, <3>1
  <2> QED
    BY <1>6, <2>2, <2>3, <2>4 DEF Claim
<1>7. CASE Prepare
  <2>1. pub.job \in Jobs /\ UNCHANGED up /\ pub.at = "claimed"
    BY <1>7 DEF Prepare, world, Parts, PubOK
  <2>2. Jobs' = Jobs /\ \A i \in Jobs : jobs'[i].status = jobs[i].status \/ jobs'[i].status = "failed"
    <3>1. \A i \in Jobs : jobs[i] \in JobRow
      BY DEF Parts, RowsOK, Jobs
    <3>2. CASE jobs' = [jobs EXCEPT ![pub.job].clip = clip.id]
      BY <2>1, <3>1, <3>2 DEF JobRow, Parts, RowsOK, Jobs
    <3>3. CASE jobs' = [jobs EXCEPT ![pub.job].status = "failed",
                                    ![pub.job].clip = IF Resolves(pub.job) THEN clip.id ELSE @]
      BY <2>1, <3>1, <3>3 DEF JobRow, Parts, RowsOK, Jobs
    <3> QED
      BY <1>7, <3>2, <3>3 DEF Prepare
  <2>3. \/ pub'.at = "sending" /\ pub'.job = pub.job /\ pub'.todo = pub.todo
        \/ pub'.at = "top" /\ pub'.todo = {}
    <3>1. pub' = [pub EXCEPT !.at = "sending", !.clip = clip.id] \/ pub' = NoPub
      BY <1>7 DEF Prepare
    <3> QED
      BY <1>c, <3>1 DEF Parts, PubOK
  <2>4. ListInHand' /\ NotQueued'
    BY <2>1, <2>2, <2>3 DEF UploadInv, ListInHand, NotQueued
  <2>5. \A i \in 1 .. MaxJobs : ToCome(i)' => ToCome(i)
    BY <2>1, <2>2, <2>3 DEF ToCome, Sending
  <2> QED
    BY <2>1, <2>4, <2>5, LessToCome
<1>8. CASE UploadCancelled \/ UploadFails \/ Done \/ (Record /\ PubEnds("failed"))
  <2>1. pub.job \in Jobs /\ UNCHANGED up
    BY <1>8 DEF UploadCancelled, UploadFails, Done, Record, world, Parts, PubOK
  <2>2. \E status \in {"done", "failed", "cancelled"} : PubEnds(status)
    BY <1>8 DEF UploadCancelled, UploadFails, Done
  <2> QED
    BY <2>1, <2>2, <1>a, <1>c DEF PubEnds
<1>9. CASE UploadLost \/ UploadDone
  <2>1. pub.job \in Jobs /\ pub.at = "sending" /\ up' = [up EXCEPT ![pub.job] = @ + 1] /\ pub.job \in 1 .. MaxJobs
    BY <1>0, <1>9 DEF UploadLost, UploadDone, Goes, Parts, PubOK
  <2>2. up[pub.job] = 0 /\ pub.todo = {} /\ jobs[pub.job].status # "queued"
    BY <2>1 DEF UploadInv, NotYet, ToCome, Sending, ListInHand, NotQueued
  <2>3. up'[pub.job] = 1 /\ \A i \in 1 .. MaxJobs : i # pub.job => up'[i] = up[i]
    BY <2>1, <2>2 DEF Parts, WorldOK
  <2>4. Jobs' = Jobs /\ \A i \in Jobs : jobs'[i].status = jobs[i].status \/ jobs'[i].status = "failed"
    <3>1. CASE UploadLost
      BY <2>1, <3>1, SetJobView DEF UploadLost, PubEnds, Parts
    <3>2. CASE UploadDone
      BY <3>2 DEF UploadDone, Jobs
    <3> QED
      BY <1>9, <3>1, <3>2
  <2>5. (pub'.at = "top" /\ pub'.todo = {}) \/ (pub'.at = "sent" /\ pub'.todo = pub.todo)
    <3>1. pub' = NoPub \/ pub' = [pub EXCEPT !.at = "sent"]
      BY <1>9 DEF UploadLost, UploadDone, PubEnds
    <3> QED
      BY <1>c, <3>1 DEF Parts, PubOK
  <2>6. \A i \in 1 .. MaxJobs : ToCome(i)' => ToCome(i) /\ i # pub.job
    BY <2>1, <2>2, <2>4, <2>5 DEF ToCome, Sending
  <2>7. ListInHand' /\ NotQueued'
    BY <2>2, <2>5 DEF ListInHand, NotQueued
  <2>8. NotYet'
    BY <2>3, <2>6 DEF UploadInv, NotYet
  <2>9. OneUpload'
    BY <1>0, <2>3, <2>4 DEF UploadInv, OneUpload
  <2> QED
    BY <2>7, <2>8, <2>9 DEF UploadInv
<1>10. CASE \/ Count \/ (Record /\ pub' = [pub EXCEPT !.at = "recorded"] /\ UNCHANGED jobs)
            \/ (\E v \in verify : ReadBack(v)) \/ WriteBack
  <2>1. UNCHANGED <<jobs, up>>
    BY <1>10 DEF Count, Record, ReadBack, WriteBack, world
  <2>2. CASE Count \/ (Record /\ pub' = [pub EXCEPT !.at = "recorded"])
    <3>1. pub'.at \in {"counted", "recorded"} /\ pub'.todo = pub.todo /\ pub.at # "listed"
      BY <2>2 DEF Count, Record, Parts, PubOK
    <3> QED
      BY <1>b, <2>1, <3>1
  <2>3. ASSUME NEW v \in verify, ReadBack(v) PROVE UploadInv'
    <3>1. UNCHANGED pub \/ (pub'.at = "asked" /\ pub'.todo = {})
      BY <2>3 DEF ReadBack, NoPub
    <3> QED
      BY <1>1, <1>b, <2>1, <3>1
  <2>4. CASE WriteBack
    <3>1. pub'.at \in {"top", "dead"} /\ pub'.todo = {}
      BY <1>c, <2>4 DEF WriteBack, NoPub
    <3> QED
      BY <1>b, <2>1, <3>1
  <2> QED
    BY <1>10, <2>2, <2>3, <2>4
<1>11. CASE Restart
  <2>1. UNCHANGED <<jobs, up>> /\ pub'.at = "start" /\ pub'.todo = {}
    BY <1>11 DEF Restart, NoPub
  <2> QED
    BY <1>b, <2>1
<1>12. \/ UNCHANGED <<jobs, pub, up>>
       \/ Publish \/ Cancel \/ Recover \/ List \/ Claim \/ Prepare
       \/ UploadCancelled \/ UploadFails \/ Done \/ UploadLost \/ UploadDone \/ Count \/ Record
       \/ (\E v \in verify : ReadBack(v)) \/ WriteBack \/ Restart
  BY DEF Next, vars, table, memory, world, AloneInTable, RendOnly, AskPublish, AskCancel, DeleteClip, Rerender,
         RemoveRender, RetryRender, RequestStep, RenderStep, ClaimRender, OpenClip,
         RenderFails, Detach, DeleteOld, Register, Reattach, RenderDone, PubStep, DayPasses
<1>13. Record => PubEnds("failed") \/ (pub' = [pub EXCEPT !.at = "recorded"] /\ UNCHANGED jobs)
  BY DEF Record
<1> QED
  BY <1>1, <1>2, <1>3, <1>4, <1>5, <1>6, <1>7, <1>8, <1>9, <1>10, <1>11, <1>12, <1>13

(* No publish job puts more than one video on the channel: whatever is cut   *)
(* off by a crash, cancelled while it is claimed, recovered, or lost.        *)
THEOREM NeverTwice == Spec => []OneUpload
<1>1. Init => Parts /\ UploadInv
  BY InitType, PublisherAssumption
     DEF Init, UploadInv, OneUpload, NotYet, ListInHand, NotQueued, NoPub, Jobs
<1>2. Parts /\ UploadInv /\ [Next]_vars => (Parts /\ UploadInv)'
  BY NextTypes, UploadStep
<1>3. UploadInv => OneUpload
  BY DEF UploadInv
<1> QED
  BY <1>1, <1>2, <1>3, PTL DEF Spec

-----------------------------------------------------------------------------
(* RenderedFirst. The row the worker's thread has in hand is running, so a   *)
(* re-render that is done stays done until its row is removed; and a job is  *)
(* claimed only when its re-render is done.                                 *)
Over(r)     == renders[r].status \in {"done", "gone"}
Rendered(j) == jobs[j].after # 0 => Over(jobs[j].after)
WorkerRow   == rend.at # "idle" => renders[rend.render].status = "running"
AfterDone   == \A j \in Jobs : up[j] > 0 \/ Sending(j) => Rendered(j)
OverStays   == \A r \in Renders : r \in Renders' /\ (Over(r) => Over(r)')

LEMMA SetRenderView ==
  ASSUME RowsOK, NEW r \in Renders, NEW status, SetRender(r, status)
  PROVE  /\ Renders' = Renders
         /\ \A i \in Renders : renders'[i].status = IF i = r THEN status ELSE renders[i].status
<1>1. \A i \in Renders : renders[i] \in RenderRow
  BY DEF RowsOK, Renders
<1>2. renders' = [renders EXCEPT ![r] = [renders[r] EXCEPT !.status = status]]
  BY DEF SetRender
<1>3. Renders' = Renders
  BY <1>2 DEF RowsOK, Renders
<1>4. \A i \in Renders : renders'[i] = IF i = r THEN [renders[r] EXCEPT !.status = status] ELSE renders[i]
  BY <1>2 DEF RowsOK, Renders
<1> QED
  BY <1>1, <1>3, <1>4 DEF RenderRow

LEMMA WorkerStep ==
  ASSUME Parts, Parts', WorkerRow, [Next]_vars
  PROVE  WorkerRow' /\ OverStays
<1>0. rend.at # "idle" => rend.render \in Renders
  BY DEF Parts, RendOK
<1>1. CASE UNCHANGED <<renders, rend>>
  BY <1>1 DEF WorkerRow, OverStays, Over, Renders
<1>2. ASSUME UNCHANGED rend, NEW row, renders' = Append(renders, row)
      PROVE  WorkerRow' /\ OverStays
  <2>1. \A r \in Renders : r \in Renders' /\ renders'[r] = renders[r]
    BY <1>2 DEF Parts, RowsOK, Renders
  <2> QED
    BY <1>0, <1>2, <2>1 DEF WorkerRow, OverStays, Over
<1>3. CASE \E r \in Renders : RemoveRender(r) \/ RetryRender(r)
  <2>1. PICK r \in Renders : RemoveRender(r) \/ RetryRender(r)
    BY <1>3
  <2>2. /\ UNCHANGED rend
        /\ \/ SetRender(r, "gone") /\ renders[r].status # "running"
           \/ SetRender(r, "queued") /\ renders[r].status \in {"failed", "cancelled"}
    BY <2>1 DEF RemoveRender, RetryRender, AloneInTable
  <2>3. Renders' = Renders /\ \A i \in Renders : i # r => renders'[i].status = renders[i].status
    BY <2>2, SetRenderView DEF Parts
  <2>4. renders'[r].status = "gone" \/ (renders'[r].status = "queued" /\ ~Over(r))
    BY <2>2, SetRenderView DEF Parts, Over
  <2> QED
    BY <1>0, <2>2, <2>3, <2>4 DEF WorkerRow, OverStays, Over
<1>4. CASE ClaimRender
  <2>1. PICK r \in Renders : /\ SetRender(r, "running") /\ renders[r].status = "queued"
                             /\ rend' = [NoRend EXCEPT !.at = "open", !.render = r]
    BY <1>4 DEF ClaimRender
  <2>2. Renders' = Renders /\ \A i \in Renders : renders'[i].status = IF i = r THEN "running" ELSE renders[i].status
    BY <2>1, SetRenderView DEF Parts
  <2>3. rend'.render = r
    BY <2>1 DEF NoRend
  <2> QED
    BY <2>1, <2>2, <2>3 DEF WorkerRow, OverStays, Over
<1>5. ASSUME NEW status, RendEnds(status), rend.at # "idle"
      PROVE  WorkerRow' /\ OverStays
  <2>1. Renders' = Renders /\ \A i \in Renders : i # rend.render => renders'[i].status = renders[i].status
    BY <1>0, <1>5, SetRenderView DEF RendEnds, Parts
  <2>2. ~Over(rend.render)
    BY <1>5 DEF WorkerRow, Over
  <2>3. rend'.at = "idle"
    BY <1>5 DEF RendEnds, NoRend
  <2> QED
    BY <2>1, <2>2, <2>3 DEF WorkerRow, OverStays, Over
<1>6. ASSUME UNCHANGED renders, rend'.render = rend.render, rend.at # "idle"
      PROVE  WorkerRow' /\ OverStays
  BY <1>6 DEF WorkerRow, OverStays, Over, Renders
<1>7. CASE OpenClip \/ RenderFails \/ Detach \/ DeleteOld \/ Register \/ Reattach \/ RenderDone
  <2>1. rend.at # "idle"
    BY <1>7 DEF OpenClip, RenderFails, Detach, DeleteOld, Register, Reattach, RenderDone
  <2>2. CASE OpenClip \/ Detach \/ DeleteOld
    <3>1. (\E status : RendEnds(status)) \/ (UNCHANGED renders /\ rend'.render = rend.render)
      BY <2>2 DEF OpenClip, Detach, DeleteOld, RendOnly, Parts, RendOK
    <3> QED
      BY <1>5, <1>6, <2>1, <3>1
  <2>3. CASE Register \/ Reattach
    <3>1. UNCHANGED renders /\ rend'.render = rend.render
      BY <2>3 DEF Register, Reattach, Parts, RendOK
    <3> QED
      BY <1>6, <2>1, <3>1
  <2>4. CASE RenderFails \/ RenderDone
    BY <1>5, <2>1, <2>4 DEF RenderFails, RenderDone
  <2> QED
    BY <1>7, <2>2, <2>3, <2>4
<1>8. CASE Restart
  <2>1. rend'.at = "idle"
    BY <1>8 DEF Restart, NoRend
  <2>2. /\ renders' = [r \in Renders |-> IF renders[r].status = "running"
                          THEN [renders[r] EXCEPT !.status = "queued"] ELSE renders[r]]
        /\ renders' \in Seq(RenderRow)
    BY <1>8 DEF Restart, Parts, RowsOK
  <2>3. Renders' = Renders
    BY <2>2 DEF Parts, RowsOK, Renders
  <2>4. \A r \in Renders : Over(r) => Over(r)'
    BY <2>2 DEF Over
  <2> QED
    BY <2>1, <2>3, <2>4 DEF WorkerRow, OverStays
<1>9. \/ UNCHANGED <<renders, rend>>
      \/ Publish \/ (\E to \in Windows \cup {Same} : Rerender(to))
      \/ (\E r \in Renders : RemoveRender(r) \/ RetryRender(r))
      \/ ClaimRender \/ OpenClip \/ RenderFails \/ Detach \/ DeleteOld \/ Register \/ Reattach \/ RenderDone
      \/ Restart
  BY DEF Next, vars, table, memory, world, AloneInTable, PubOnly, AskPublish, AskCancel, DeleteClip,
         RequestStep, Cancel, RenderStep, PubStep, Recover, List, Claim, Prepare, UploadCancelled,
         UploadFails, UploadLost, UploadDone, Count, Record, Done, ReadBack, WriteBack, DayPasses
<1>10. CASE Publish \/ \E to \in Windows \cup {Same} : Rerender(to)
  <2>1. UNCHANGED <<renders, rend>> \/ (UNCHANGED rend /\ \E row : renders' = Append(renders, row))
    BY <1>10 DEF Publish, Rerender, AloneInTable
  <2> QED
    BY <1>1, <1>2, <2>1
<1> QED
  BY <1>1, <1>3, <1>4, <1>7, <1>8, <1>9, <1>10

(* The steps that write the publish jobs.                                   *)
LEMMA JobSteps ==
  ASSUME [Next]_vars
  PROVE  \/ UNCHANGED jobs \/ Recover \/ Prepare \/ Publish \/ Cancel \/ Claim
         \/ UploadCancelled \/ UploadFails \/ UploadLost \/ Record \/ Done
BY DEF Next, vars, table, memory, world, AloneInTable, RendOnly, AskPublish, AskCancel, DeleteClip, Rerender,
       RemoveRender, RetryRender, RequestStep, RenderStep, ClaimRender, OpenClip, RenderFails, Detach,
       DeleteOld, Register, Reattach, RenderDone, PubStep, List, UploadDone, Count, ReadBack, WriteBack,
       DayPasses, Restart

(* The re-render a publish job waits for is fixed when the job is added.     *)
LEMMA AfterStays ==
  ASSUME Parts, Parts', [Next]_vars, NEW j \in Jobs
  PROVE  j \in Jobs' /\ jobs'[j].after = jobs[j].after
<1>1. CASE UNCHANGED jobs
  BY <1>1 DEF Jobs
<1>2. ASSUME NEW row, jobs' = Append(jobs, row) PROVE j \in Jobs' /\ jobs'[j] = jobs[j]
  BY <1>2 DEF Parts, RowsOK, Jobs
<1>3. ASSUME NEW i \in Jobs, NEW status, SetJob(i, status) PROVE j \in Jobs' /\ jobs'[j].after = jobs[j].after
  BY <1>3, SetJobView DEF Parts
<1>4. CASE Recover
  <2>1. jobs'[j] = jobs[j] \/ jobs'[j] = [jobs[j] EXCEPT !.status = "interrupted"]
    BY <1>4 DEF Recover
  <2>2. jobs[j] \in JobRow /\ Jobs' = Jobs
    BY <1>4 DEF Recover, Parts, RowsOK, Jobs
  <2> QED
    BY <2>1, <2>2 DEF JobRow
<1>5. CASE Prepare
  <2>1. pub.job \in Jobs /\ \A i \in Jobs : jobs[i] \in JobRow
    BY <1>5 DEF Prepare, Parts, PubOK, RowsOK, Jobs
  <2>2. CASE jobs' = [jobs EXCEPT ![pub.job].clip = clip.id]
    BY <2>1, <2>2 DEF JobRow, Parts, RowsOK, Jobs
  <2>3. CASE jobs' = [jobs EXCEPT ![pub.job].status = "failed",
                                  ![pub.job].clip = IF Resolves(pub.job) THEN clip.id ELSE @]
    BY <2>1, <2>3 DEF JobRow, Parts, RowsOK, Jobs
  <2> QED
    BY <1>5, <2>2, <2>3 DEF Prepare
<1>6. CASE Publish
  <2>1. \E row : jobs' = Append(jobs, row)
    BY <1>6 DEF Publish
  <2> QED
    BY <1>2, <2>1
<1>7. CASE Cancel
  <2>1. ask.job \in Jobs
    BY <1>7 DEF Cancel, Parts, AskOK
  <2> QED
    BY <1>3, <1>7, <2>1 DEF Cancel
<1>8. CASE Claim
  <2>1. UNCHANGED jobs \/ \E i \in Jobs, status \in {"running", "failed"} : SetJob(i, status)
    BY <1>8 DEF Claim, Oldest, Parts, PubOK
  <2> QED
    BY <1>1, <1>3, <2>1
<1>9. CASE UploadCancelled \/ UploadFails \/ UploadLost \/ Record \/ Done
  <2>1. pub.job \in Jobs
    BY <1>9 DEF UploadCancelled, UploadFails, UploadLost, Record, Done, Parts, PubOK
  <2>2. UNCHANGED jobs \/ \E status : SetJob(pub.job, status)
    BY <1>9 DEF UploadCancelled, UploadFails, UploadLost, Record, Done, PubEnds
  <2> QED
    BY <1>1, <1>3, <2>1, <2>2
<1> QED
  BY <1>1, <1>4, <1>5, <1>6, <1>7, <1>8, <1>9, JobSteps

(* A job that is new is queued.                                             *)
LEMMA NewJob ==
  ASSUME Parts, Parts', [Next]_vars, NEW j \in Jobs', j \notin Jobs
  PROVE  jobs'[j].status = "queued"
<1>1. CASE Publish
  <2>1. PICK row : jobs' = Append(jobs, row) /\ row.status = "queued"
    BY <1>1 DEF Publish, JobAfter
  <2> QED
    BY <2>1 DEF Parts, RowsOK, Jobs
<1>2. (UNCHANGED jobs \/ Recover \/ Prepare) => Jobs' = Jobs
  BY DEF Recover, Prepare, Parts, RowsOK, Jobs
<1>3. \A i \in Jobs : (\E status : SetJob(i, status)) => Jobs' = Jobs
  BY SetJobView DEF Parts
<1>4. CASE Cancel
  <2>1. ask.job \in Jobs
    BY <1>4 DEF Cancel, Parts, AskOK
  <2> QED
    BY <1>3, <1>4, <2>1 DEF Cancel
<1>5. CASE Claim
  <2>1. UNCHANGED jobs \/ \E i \in Jobs, status \in {"running", "failed"} : SetJob(i, status)
    BY <1>5 DEF Claim, Oldest, Parts, PubOK
  <2> QED
    BY <1>2, <1>3, <2>1
<1>6. CASE UploadCancelled \/ UploadFails \/ UploadLost \/ Record \/ Done
  <2>1. pub.job \in Jobs
    BY <1>6 DEF UploadCancelled, UploadFails, UploadLost, Record, Done, Parts, PubOK
  <2>2. UNCHANGED jobs \/ \E status : SetJob(pub.job, status)
    BY <1>6 DEF UploadCancelled, UploadFails, UploadLost, Record, Done, PubEnds
  <2> QED
    BY <1>2, <1>3, <2>1, <2>2
<1> QED
  BY <1>1, <1>2, <1>4, <1>5, <1>6, JobSteps

(* Who may be in the publisher's hands, or up, after a step.                 *)
LEMMA SentBefore ==
  ASSUME Parts, Parts', UploadInv, [Next]_vars, NEW j \in Jobs, up'[j] > 0 \/ Sending(j)'
  PROVE  \/ up[j] > 0 \/ Sending(j)
         \/ UNCHANGED renders /\ Readiness(j) = "go"
<1>0. j \in 1 .. MaxJobs
  BY PublisherAssumption DEF Parts, RowsOK, Jobs
<1>1. CASE UNCHANGED <<pub, up>>
  BY <1>1 DEF Sending
<1>2. CASE UploadLost \/ UploadDone
  <2>1. pub.at = "sending" /\ up' = [up EXCEPT ![pub.job] = @ + 1]
    BY <1>2 DEF UploadLost, UploadDone, Goes
  <2>2. pub'.at \in {"top", "sent"}
    BY <1>2 DEF UploadLost, UploadDone, PubEnds, NoPub, Parts, PubOK
  <2>3. j = pub.job \/ up'[j] = up[j]
    BY <1>0, <2>1 DEF Parts, WorldOK
  <2> QED
    BY <2>1, <2>2, <2>3 DEF Sending
<1>3. CASE Claim
  <2>1. UNCHANGED <<up, renders>>
    BY <1>3 DEF Claim, PubOnly, world
  <2>2. CASE pub' = NoPub \/ \E i \in Oldest(pub.todo) : pub' = Past(i)
    <3>1. pub.at = "listed" /\ pub'.at \in {"listed", "top"}
      <4>1. NoPub.at = "top" /\ \A i : Past(i).at = pub.at
        BY DEF NoPub, Past, Parts, PubOK
      <4> QED
        BY <1>3, <2>2, <4>1 DEF Claim
    <3> QED
      BY <2>1, <3>1 DEF Sending
  <2>3. ASSUME NEW i \in Oldest(pub.todo), Readiness(i) = "go", pub' = [NoPub EXCEPT !.at = "claimed", !.job = i]
        PROVE  (up[j] > 0 \/ Sending(j)) \/ Readiness(j) = "go"
    BY <2>1, <2>3 DEF Sending, NoPub
  <2> QED
    BY <1>3, <2>1, <2>2, <2>3 DEF Claim
<1>4. CASE Prepare
  <2>1. UNCHANGED up /\ pub.at = "claimed" /\ (pub'.job = pub.job \/ pub'.at = "top")
    <3>1. UNCHANGED up /\ pub.at = "claimed" /\ (pub' = [pub EXCEPT !.at = "sending", !.clip = clip.id] \/ pub' = NoPub)
      BY <1>4 DEF Prepare, world
    <3>2. NoPub.at = "top" /\ [pub EXCEPT !.at = "sending", !.clip = clip.id].job = pub.job
      BY DEF NoPub, Parts, PubOK
    <3> QED
      BY <3>1, <3>2
  <2> QED
    BY <2>1 DEF Sending
<1>5. CASE /\ UNCHANGED up
           /\ pub'.at \in {"start", "top", "listed", "sent", "counted", "recorded", "asked", "dead"}
  BY <1>5 DEF Sending
<1>6. CASE UploadCancelled \/ UploadFails \/ Recover \/ List \/ Done \/ Restart
  <2>1. UNCHANGED up /\ pub'.at \in {"start", "top", "listed"}
    <3>1. /\ UNCHANGED up
          /\ \/ pub' = NoPub \/ pub' = [NoPub EXCEPT !.at = "start"]
             \/ pub' = [NoPub EXCEPT !.at = "listed", !.todo = Waiting]
      BY <1>6 DEF UploadCancelled, UploadFails, Recover, List, Done, Restart, PubEnds, world
    <3>2. /\ NoPub.at = "top" /\ [NoPub EXCEPT !.at = "start"].at = "start"
          /\ [NoPub EXCEPT !.at = "listed", !.todo = Waiting].at = "listed"
      BY DEF NoPub
    <3> QED
      BY <3>1, <3>2
  <2> QED
    BY <1>5, <2>1
<1>7. CASE Count \/ Record
  <2>1. UNCHANGED up /\ pub'.at \in {"top", "counted", "recorded"}
    BY <1>7 DEF Count, Record, PubEnds, NoPub, world, Parts, PubOK
  <2> QED
    BY <1>5, <2>1
<1>8. CASE (\E v \in verify : ReadBack(v)) \/ WriteBack
  <2>1. UNCHANGED up /\ (UNCHANGED pub \/ pub'.at \in {"asked", "top", "dead"})
    <3>1. ASSUME NEW v \in verify, ReadBack(v) PROVE UNCHANGED up /\ (UNCHANGED pub \/ pub'.at = "asked")
      BY <3>1 DEF ReadBack, NoPub, world
    <3>2. WriteBack => UNCHANGED up /\ pub'.at \in {"top", "dead"}
      <4>1. WriteBack => UNCHANGED up /\ (pub' = NoPub \/ pub' = [NoPub EXCEPT !.at = "dead"])
        BY DEF WriteBack, world
      <4> QED
        BY <4>1 DEF NoPub
    <3> QED
      BY <1>8, <3>1, <3>2
  <2> QED
    BY <1>1, <1>5, <2>1
<1>9. \/ UNCHANGED <<pub, up>>
      \/ UploadLost \/ UploadDone \/ Claim \/ Prepare \/ UploadCancelled \/ UploadFails \/ Recover \/ List
      \/ Done \/ Restart \/ Count \/ Record \/ (\E v \in verify : ReadBack(v)) \/ WriteBack
  BY DEF Next, vars, table, memory, world, AloneInTable, RendOnly, AskPublish, AskCancel, DeleteClip, Rerender,
         RemoveRender, RetryRender, RequestStep, Publish, Cancel, RenderStep, ClaimRender, OpenClip,
         RenderFails, Detach, DeleteOld, Register, Reattach, RenderDone, PubStep, DayPasses
<1> QED
  BY <1>1, <1>2, <1>3, <1>4, <1>6, <1>7, <1>8, <1>9

LEMMA AfterStep ==
  ASSUME Parts, Parts', UploadInv, UploadInv', WorkerRow, AfterDone, OverStays, [Next]_vars
  PROVE  AfterDone'
<1> SUFFICES ASSUME NEW j \in Jobs', (up[j] > 0 \/ Sending(j))'
             PROVE  Rendered(j)'
  BY DEF AfterDone
<1>1. CASE j \in Jobs
  <2>1. jobs'[j].after = jobs[j].after
    BY <1>1, AfterStays
  <2>2. jobs[j].after # 0 => jobs[j].after \in Renders
    BY <1>1 DEF Parts, RowsOK
  <2>3. Rendered(j)
    <3>1. CASE up[j] > 0 \/ Sending(j)
      BY <1>1, <3>1 DEF AfterDone
    <3>2. CASE Readiness(j) = "go"
      BY <3>2 DEF Readiness, Rendered, Over
    <3> QED
      BY <1>1, <3>1, <3>2, SentBefore
  <2> QED
    BY <2>1, <2>2, <2>3 DEF Rendered, OverStays, Over
<1>2. CASE j \notin Jobs
  <2>1. jobs'[j].status = "queued" /\ j \in 1 .. MaxJobs
    BY <1>2, NewJob, PublisherAssumption DEF Parts, RowsOK, Jobs
  <2>2. up'[j] = 0 /\ ~Sending(j)'
    BY <2>1 DEF UploadInv, NotYet, ToCome, NotQueued, Sending
  <2> QED
    BY <2>2
<1> QED
  BY <1>1, <1>2

(* Nothing goes up before the re-render it was to wait for is done, whatever *)
(* becomes of either job around it.                                         *)
THEOREM RendersFirst == Spec => []RenderedFirst
<1> DEFINE Inv == Parts /\ UploadInv /\ WorkerRow /\ AfterDone
<1>1. Init => Inv
  BY InitType, PublisherAssumption
     DEF Init, UploadInv, OneUpload, NotYet, ListInHand, NotQueued, NoPub, Jobs, WorkerRow, NoRend, AfterDone
<1>2. Inv /\ [Next]_vars => Inv'
  BY NextTypes, UploadStep, WorkerStep, AfterStep
<1>3. Inv => RenderedFirst
  BY DEF RenderedFirst, AfterDone, Rendered, Over
<1> QED
  BY <1>1, <1>2, <1>3, PTL DEF Spec

-----------------------------------------------------------------------------
(* QuotaKept. The ledger lags behind the day's uploads by the one just made  *)
(* and those nobody counted.                                                *)
Counted == IF ledger.day = today.day THEN ledger.uploads ELSE 0
InHand  == IF pub.at = "sent" THEN 1 ELSE 0
QuotaInv ==
  /\ ledger.day <= today.day
  /\ Counted <= UploadLimit
  /\ pub.at \in {"sending", "sent"} => Counted < UploadLimit
  /\ today.made <= Counted + today.missed + InHand

LEMMA RolledIsCounted ==
  ASSUME Parts
  PROVE  /\ Rolled.uploads = Counted /\ Rolled.day = today.day /\ Counted \in Nat
         /\ ledger.day \in Nat /\ today.day \in Nat /\ today.made \in Nat /\ today.missed \in Nat
BY DEF Parts, ClipOK, WorldOK, Rolled, Counted

LEMMA QuotaStep ==
  ASSUME Parts, Parts', QuotaInv, [Next]_vars
  PROVE  QuotaInv'
<1> USE PublisherAssumption, RolledIsCounted DEF QuotaInv
<1>0. /\ Counted \in Nat /\ UploadLimit \in Nat /\ UploadLimit >= 1 /\ InHand \in {0, 1}
      /\ ledger.day \in Nat /\ today.day \in Nat /\ today.made \in Nat /\ today.missed \in Nat
  BY DEF InHand
<1>1. ASSUME UNCHANGED <<ledger, today>>, InHand' >= InHand, InHand' \in {0, 1},
             pub'.at \in {"sending", "sent"} => pub.at \in {"sending", "sent"} \/ Counted < UploadLimit
      PROVE  QuotaInv'
  <2>1. Counted' = Counted
    BY <1>1 DEF Counted
  <2> QED
    BY <1>0, <1>1, <2>1
<1>2. ASSUME UNCHANGED <<ledger, today, pub>> PROVE QuotaInv'
  BY <1>0, <1>1, <1>2 DEF InHand
<1>3. ASSUME UNCHANGED <<ledger, today>>, pub.at # "sent", pub'.at \notin {"sending", "sent"} PROVE QuotaInv'
  BY <1>1, <1>3 DEF InHand
<1>4. CASE Prepare
  <2>1. UNCHANGED <<ledger, today>> /\ pub.at = "claimed"
    BY <1>4 DEF Prepare, world
  <2>2. (pub'.at = "sending" /\ Counted < UploadLimit) \/ pub'.at = "top"
    <3>1. \/ pub' = [pub EXCEPT !.at = "sending", !.clip = clip.id] /\ Counted < UploadLimit
          \/ pub' = NoPub
      BY <1>4 DEF Prepare
    <3>2. [pub EXCEPT !.at = "sending", !.clip = clip.id].at = "sending" /\ NoPub.at = "top"
      BY DEF NoPub, Parts, PubOK
    <3> QED
      BY <3>1, <3>2
  <2> QED
    BY <1>1, <2>1, <2>2 DEF InHand
<1>5. CASE UploadDone
  <2>1. pub.at = "sending" /\ pub'.at = "sent" /\ UNCHANGED ledger /\ today' = [today EXCEPT !.made = @ + 1]
    BY <1>5 DEF UploadDone, Parts, PubOK
  <2>2. today'.made = today.made + 1 /\ today'.missed = today.missed /\ today'.day = today.day
    BY <2>1 DEF Parts, WorldOK
  <2>3. Counted' = Counted /\ InHand = 0 /\ InHand' = 1
    BY <2>1, <2>2 DEF Counted, InHand
  <2> QED
    BY <1>0, <2>1, <2>2, <2>3
<1>6. CASE UploadLost
  <2>1. pub.at = "sending" /\ UNCHANGED ledger /\ today' = [today EXCEPT !.made = @ + 1, !.missed = @ + 1]
    BY <1>6 DEF UploadLost
  <2>2. pub'.at = "top"
    BY <1>6 DEF UploadLost, PubEnds, NoPub
  <2>3. today'.made = today.made + 1 /\ today'.missed = today.missed + 1 /\ today'.day = today.day
    BY <2>1 DEF Parts, WorldOK
  <2>4. Counted' = Counted /\ InHand = 0 /\ InHand' = 0
    BY <2>1, <2>2, <2>3 DEF Counted, InHand
  <2> QED
    BY <1>0, <2>1, <2>2, <2>3, <2>4
<1>7. CASE UploadFails
  <2>1. pub.at = "sending" /\ UNCHANGED today /\ pub'.at = "top"
    BY <1>7 DEF UploadFails, PubEnds, NoPub, world
  <2>2. CASE UNCHANGED ledger
    BY <1>3, <2>1, <2>2
  <2>3. CASE ledger' = [Rolled EXCEPT !.uploads = IF @ < UploadLimit THEN UploadLimit ELSE @]
    <3>1. ledger'.day = today.day /\ ledger'.uploads = UploadLimit
      BY <2>1, <2>3, RolledType
    <3>2. Counted' = UploadLimit /\ InHand = 0 /\ InHand' = 0
      BY <2>1, <3>1 DEF Counted, InHand
    <3> QED
      BY <1>0, <2>1, <3>1, <3>2
  <2> QED
    BY <1>7, <2>2, <2>3 DEF UploadFails
<1>8. CASE Count
  <2>1. pub.at = "sent" /\ UNCHANGED today /\ pub'.at = "counted" /\ ledger' = [Rolled EXCEPT !.uploads = @ + 1]
    BY <1>8 DEF Count, world, Parts, PubOK
  <2>2. ledger'.day = today.day /\ ledger'.uploads = Counted + 1
    BY <2>1, RolledType
  <2>3. Counted' = Counted + 1 /\ InHand = 1 /\ InHand' = 0
    BY <2>1, <2>2 DEF Counted, InHand
  <2> QED
    BY <1>0, <2>1, <2>2, <2>3
<1>9. CASE DayPasses
  <2>1. /\ UNCHANGED <<ledger, pub>> /\ today'.day = today.day + 1 /\ today'.made = 0 /\ today'.missed = 0
    BY <1>9 DEF DayPasses, table, memory
  <2>2. Counted' = 0 /\ InHand' \in {0, 1} /\ ledger'.day <= today'.day
    BY <1>0, <2>1 DEF Counted, InHand
  <2>3. Counted' < UploadLimit
    <3> HIDE RolledIsCounted DEF QuotaInv
    <3> QED
      BY <1>0, <2>2
  <2>4. today'.made <= Counted' + today'.missed + InHand'
    <3> HIDE RolledIsCounted DEF QuotaInv
    <3>1. \A made, counted, missed, hand :
            made = 0 /\ counted = 0 /\ missed = 0 /\ hand \in {0, 1} => made <= counted + missed + hand
      OBVIOUS
    <3>2. today'.made = 0 /\ today'.missed = 0
      BY <2>1
    <3> QED
      BY <2>2, <3>1, <3>2
  <2> QED
    BY <1>0, <2>2, <2>3, <2>4
<1>10. CASE Restart
  <2>1. /\ UNCHANGED ledger /\ pub'.at = "start"
        /\ today' = [today EXCEPT !.missed = @ + IF pub.at = "sent" THEN 1 ELSE 0]
    BY <1>10 DEF Restart, NoPub
  <2>2. today'.made = today.made /\ today'.missed = today.missed + InHand /\ today'.day = today.day
    BY <2>1 DEF Parts, WorldOK, InHand
  <2>3. Counted' = Counted /\ InHand' = 0
    BY <2>1, <2>2 DEF Counted, InHand
  <2> QED
    BY <1>0, <2>1, <2>2, <2>3
<1>11. CASE Recover \/ List \/ Claim \/ UploadCancelled \/ Record \/ Done \/ (\E v \in verify : ReadBack(v)) \/ WriteBack
  <2>1. UNCHANGED <<ledger, today>> /\ pub.at # "sent"
    BY <1>11 DEF Recover, List, Claim, UploadCancelled, Record, Done, ReadBack, WriteBack, world
  <2>2. UNCHANGED pub \/ pub'.at \notin {"sending", "sent"}
    <3>1. CASE Claim
      <4>1. pub.at = "listed" /\ NoPub.at = "top" /\ \A i : Past(i).at = pub.at
        BY <3>1 DEF Claim, NoPub, Past, Parts, PubOK
      <4>2. \A i : [NoPub EXCEPT !.at = "claimed", !.job = i].at = "claimed"
        BY DEF NoPub
      <4> QED
        BY <3>1, <4>1, <4>2 DEF Claim
    <3>2. CASE Recover \/ List \/ UploadCancelled \/ Done
      <4>1. pub' = NoPub \/ pub' = [NoPub EXCEPT !.at = "listed", !.todo = Waiting]
        BY <3>2 DEF Recover, List, UploadCancelled, Done, PubEnds
      <4>2. NoPub.at = "top" /\ [NoPub EXCEPT !.at = "listed", !.todo = Waiting].at = "listed"
        BY DEF NoPub
      <4> QED
        BY <4>1, <4>2
    <3>3. CASE Record
      <4>1. pub' = NoPub \/ pub' = [pub EXCEPT !.at = "recorded"]
        BY <3>3 DEF Record, PubEnds
      <4>2. NoPub.at = "top" /\ [pub EXCEPT !.at = "recorded"].at = "recorded"
        BY DEF NoPub, Parts, PubOK
      <4> QED
        BY <4>1, <4>2
    <3>4. CASE WriteBack
      <4>1. pub' = NoPub \/ pub' = [NoPub EXCEPT !.at = "dead"]
        BY <3>4 DEF WriteBack
      <4>2. NoPub.at = "top" /\ [NoPub EXCEPT !.at = "dead"].at = "dead"
        BY DEF NoPub
      <4> QED
        BY <4>1, <4>2
    <3>5. ASSUME NEW v \in verify, ReadBack(v) PROVE UNCHANGED pub \/ pub'.at = "asked"
      BY <3>5 DEF ReadBack, NoPub
    <3> QED
      BY <1>11, <3>1, <3>2, <3>3, <3>4, <3>5
  <2> QED
    BY <1>2, <1>3, <2>1, <2>2
<1>12. \/ UNCHANGED <<ledger, today, pub>>
       \/ Prepare \/ UploadDone \/ UploadLost \/ UploadFails \/ Count \/ DayPasses \/ Restart
       \/ Recover \/ List \/ Claim \/ UploadCancelled \/ Record \/ Done \/ (\E v \in verify : ReadBack(v))
       \/ WriteBack
  BY DEF Next, vars, table, memory, world, AloneInTable, RendOnly, AskPublish, AskCancel, DeleteClip, Rerender,
         RemoveRender, RetryRender, RequestStep, Publish, Cancel, RenderStep, ClaimRender, OpenClip,
         RenderFails, Detach, DeleteOld, Register, Reattach, RenderDone, PubStep
<1> QED
  BY <1>2, <1>4, <1>5, <1>6, <1>7, <1>8, <1>9, <1>10, <1>11, <1>12

(* No more videos go up in a day than the key allows, but for those whose     *)
(* answer was lost or that the app died over before it counted them.        *)
THEOREM QuotaHolds == Spec => []QuotaKept
<1>1. Init => Parts /\ QuotaInv
  BY InitType, PublisherAssumption DEF Init, QuotaInv, Counted, InHand, NoPub
<1>2. Parts /\ QuotaInv /\ [Next]_vars => (Parts /\ QuotaInv)'
  BY NextTypes, QuotaStep
<1>3. Parts /\ QuotaInv => QuotaKept
  BY RolledIsCounted, PublisherAssumption DEF QuotaInv, QuotaKept, InHand
<1> QED
  BY <1>1, <1>2, <1>3, PTL DEF Spec

-----------------------------------------------------------------------------
(* UploadShown. While the clip's row is in the hands of a re-render, either   *)
(* the thread has the upload's row too, or it is the clip's; the id the      *)
(* thread works with is the clip's, unless the clip has gone.               *)
ClipInHand ==
  /\ rend.at \in {"rendering", "detached"} => clip.id \in {0, rend.clip}
  /\ rend.at = "deleted" => clip.id = 0
  /\ rend.at = "registered" => clip.id \in {0, rend.new}
Named == (upload.clip # 0 => upload.job # 0) /\ (pub.at = "asked" => pub.job # 0)
Shown == upload.clip = clip.id /\ clip.id # 0
Saved ==
  /\ rend.at \in {"detached", "deleted", "registered"} /\ rend.saved # 0
  /\ rend.at = "deleted" \/ clip.id # 0
ShownInv == ClipInHand /\ Named /\ (kept => Saved \/ Shown)

LEMMA ShownStep ==
  ASSUME Parts, Parts', ShownInv, [Next]_vars
  PROVE  ShownInv'
<1> USE DEF ShownInv
<1>1. ASSUME UNCHANGED <<clip, upload, rend, kept>>, pub'.at = "asked" => pub'.job # 0
      PROVE  ShownInv'
  BY <1>1 DEF ClipInHand, Named, Shown, Saved
<1>2. CASE DeleteClip
  <2>1. /\ clip'.id = 0 /\ kept' = FALSE /\ UNCHANGED <<rend, pub>>
        /\ upload' = upload \/ upload' = NoUpload
    BY <1>2 DEF DeleteClip, AloneInTable, Parts, ClipOK
  <2> QED
    BY <2>1 DEF ClipInHand, Named, NoUpload
<1>3. CASE RenderStep
  <2>0. UNCHANGED <<pub>>
    BY <1>3 DEF RenderStep, ClaimRender, OpenClip, RenderFails, Detach, DeleteOld, Register, Reattach,
                RenderDone, RendOnly
  <2>1. CASE ClaimRender
    <3>1. UNCHANGED <<clip, upload, kept, pub>> /\ rend.at = "idle" /\ rend'.at = "open"
      BY <2>1 DEF ClaimRender, RendOnly, NoRend
    <3> QED
      BY <3>1 DEF ClipInHand, Named, Shown, Saved
  <2>2. CASE OpenClip
    <3>1. UNCHANGED <<clip, upload, kept, pub>> /\ rend.at = "open"
      BY <2>2 DEF OpenClip, RendOnly
    <3>2. (rend'.at = "rendering" /\ rend'.clip = clip.id) \/ rend'.at = "idle"
      <4> DEFINE row == renders[rend.render]
                 to  == IF row.to = Same THEN clip.window ELSE row.to
      <4>1. \/ Here(row.clip) /\ rend' = [rend EXCEPT !.at = "rendering", !.clip = row.clip, !.to = to]
            \/ rend' = NoRend
        BY <2>2 DEF OpenClip, RendEnds
      <4>2. /\ NoRend.at = "idle"
            /\ \A c, w : [rend EXCEPT !.at = "rendering", !.clip = c, !.to = w].at = "rendering"
            /\ \A c, w : [rend EXCEPT !.at = "rendering", !.clip = c, !.to = w].clip = c
        BY DEF NoRend, Parts, RendOK
      <4> HIDE DEF to, row
      <4>3. CASE Here(row.clip) /\ rend' = [rend EXCEPT !.at = "rendering", !.clip = row.clip, !.to = to]
        BY <4>2, <4>3 DEF Here
      <4>4. CASE rend' = NoRend
        BY <4>2, <4>4
      <4> QED
        BY <4>1, <4>3, <4>4
    <3> QED
      BY <3>1, <3>2 DEF ClipInHand, Named, Shown, Saved
  <2>3. CASE RenderFails \/ RenderDone
    <3>1. /\ UNCHANGED <<clip, upload, kept, pub>> /\ rend.at \in {"rendering", "reattached"} /\ rend'.at = "idle"
      BY <2>3 DEF RenderFails, RenderDone, RendEnds, RendOnly, NoRend
    <3> QED
      BY <3>1 DEF ClipInHand, Named, Shown, Saved
  <2>4. CASE Detach
    <3>1. /\ UNCHANGED <<clip, kept, pub>> /\ rend.at = "rendering"
          /\ rend'.at = "detached" /\ rend'.clip = rend.clip
          /\ \/ upload.clip = rend.clip /\ rend'.saved = upload.job /\ upload' = NoUpload
             \/ upload.clip # rend.clip /\ UNCHANGED upload
      BY <2>4 DEF Detach, RendOnly, Parts, RendOK
    <3> QED
      BY <3>1 DEF ClipInHand, Named, Shown, Saved, NoUpload
  <2>5. CASE DeleteOld
    <3>1. /\ UNCHANGED <<upload, kept, pub>> /\ rend.at = "detached"
          /\ \/ upload.clip = rend.clip /\ rend'.at = "idle" /\ UNCHANGED clip
             \/ /\ upload.clip # rend.clip /\ rend'.at = "deleted" /\ rend'.saved = rend.saved
                /\ clip'.id = IF Here(rend.clip) THEN 0 ELSE clip.id
      BY <2>5 DEF DeleteOld, RendEnds, RendOnly, NoRend, Parts, RendOK, ClipOK
    <3> QED
      BY <3>1 DEF ClipInHand, Named, Shown, Saved, Here
  <2>6. CASE Register
    <3>1. /\ UNCHANGED <<upload, kept, pub>> /\ rend.at = "deleted" /\ rend'.at = "registered"
          /\ rend'.saved = rend.saved /\ clip'.id = rend'.new /\ clip'.id # 0
      BY <2>6 DEF Register, RendOnly, Parts, RendOK, ClipOK
    <3> QED
      BY <3>1 DEF ClipInHand, Named, Shown, Saved
  <2>7. CASE Reattach
    <3>1. /\ UNCHANGED <<clip, kept, pub>> /\ rend.at = "registered" /\ rend'.at = "reattached"
          /\ \/ rend.saved # 0 /\ Here(rend.new) /\ upload'.clip = rend.new /\ upload'.job = rend.saved
             \/ ~(rend.saved # 0 /\ Here(rend.new)) /\ UNCHANGED upload
      BY <2>7 DEF Reattach, RendOnly, Parts, RendOK
    <3> QED
      BY <3>1 DEF ClipInHand, Named, Shown, Saved, Here
  <2> QED
    BY <1>3, <2>1, <2>2, <2>3, <2>4, <2>5, <2>6, <2>7 DEF RenderStep
<1>4. CASE Record
  <2>1. UNCHANGED <<clip, rend>> /\ pub.job # 0
    BY <1>4 DEF Record, PubOnly, Parts, PubOK, Jobs
  <2>2. \/ Here(pub.clip) /\ upload' = [clip |-> pub.clip, job |-> pub.job] /\ pub'.at = "recorded"
        \/ pub'.at = "top" /\ UNCHANGED <<upload, kept>>
    BY <1>4 DEF Record, PubEnds, NoPub, Parts, PubOK
  <2> QED
    BY <2>1, <2>2 DEF ClipInHand, Named, Shown, Saved, Here
<1>5. CASE WriteBack
  <2>1. UNCHANGED <<clip, rend, kept>> /\ pub.job # 0
    BY <1>5 DEF WriteBack, PubOnly, world, Named
  <2>2. \/ Here(pub.clip) /\ upload' = [clip |-> pub.clip, job |-> pub.job]
        \/ UNCHANGED upload
    BY <1>5 DEF WriteBack
  <2>3. pub'.at \in {"top", "dead"}
    <3>1. pub' = NoPub \/ pub' = [NoPub EXCEPT !.at = "dead"]
      BY <1>5 DEF WriteBack
    <3> QED
      BY <3>1 DEF NoPub
  <2> QED
    BY <2>1, <2>2, <2>3 DEF ClipInHand, Named, Shown, Saved, Here
<1>6. CASE Restart
  <2>1. /\ UNCHANGED <<clip, upload>> /\ rend'.at = "idle" /\ pub'.at = "start"
        /\ kept' => kept /\ rend.at \notin {"detached", "deleted", "registered"}
    BY <1>6 DEF Restart, NoRend, NoPub
  <2> QED
    BY <2>1 DEF ClipInHand, Named, Shown, Saved
<1>7. CASE \E v \in verify : ReadBack(v)
  <2>1. PICK v \in verify : ReadBack(v)
    BY <1>7
  <2>2. v[2] # 0
    BY DEF Parts, PubOK, Jobs
  <2>3. pub'.at = "asked" => pub'.job # 0
    <3>1. pub' = [NoPub EXCEPT !.at = "asked", !.clip = v[1], !.job = v[2]] \/ pub' = pub
      BY <2>1 DEF ReadBack
    <3>2. [NoPub EXCEPT !.at = "asked", !.clip = v[1], !.job = v[2]].job = v[2]
      BY DEF NoPub
    <3> QED
      BY <2>2, <3>1, <3>2 DEF Named
  <2> QED
    BY <1>1, <2>1, <2>3 DEF ReadBack, PubOnly, world
<1>8. CASE Claim
  <2>1. UNCHANGED <<clip, upload, rend, kept>> /\ pub.at = "listed"
    BY <1>8 DEF Claim, PubOnly, world
  <2>2. pub'.at # "asked"
    <3>1. NoPub.at = "top" /\ \A i : Past(i).at = pub.at
      BY DEF NoPub, Past, Parts, PubOK
    <3>2. \A i : [NoPub EXCEPT !.at = "claimed", !.job = i].at = "claimed"
      BY DEF NoPub
    <3> QED
      BY <1>8, <2>1, <3>1, <3>2 DEF Claim
  <2> QED
    BY <1>1, <2>1, <2>2
<1>9. CASE Recover \/ List \/ UploadCancelled \/ UploadFails \/ UploadLost \/ Done
  <2>1. UNCHANGED <<clip, upload, rend, kept>>
    BY <1>9 DEF Recover, List, UploadCancelled, UploadFails, UploadLost, Done, PubOnly, world
  <2>2. pub' = NoPub \/ pub' = [NoPub EXCEPT !.at = "listed", !.todo = Waiting]
    BY <1>9 DEF Recover, List, UploadCancelled, UploadFails, UploadLost, Done, PubEnds
  <2>3. NoPub.at = "top" /\ [NoPub EXCEPT !.at = "listed", !.todo = Waiting].at = "listed"
    BY DEF NoPub
  <2> QED
    BY <1>1, <2>1, <2>2, <2>3
<1>10. CASE Prepare \/ UploadDone \/ Count
  <2>1. UNCHANGED <<clip, upload, rend, kept>>
    BY <1>10 DEF Prepare, UploadDone, Count, PubOnly, world
  <2>2. \/ pub' = NoPub \/ pub' = [pub EXCEPT !.at = "sending", !.clip = clip.id]
        \/ pub' = [pub EXCEPT !.at = "sent"] \/ pub' = [pub EXCEPT !.at = "counted"]
    BY <1>10 DEF Prepare, UploadDone, Count
  <2>3. /\ NoPub.at = "top" /\ [pub EXCEPT !.at = "sending", !.clip = clip.id].at = "sending"
        /\ [pub EXCEPT !.at = "sent"].at = "sent" /\ [pub EXCEPT !.at = "counted"].at = "counted"
    BY DEF NoPub, Parts, PubOK
  <2> QED
    BY <1>1, <2>1, <2>2, <2>3
<1>11. CASE UNCHANGED <<clip, upload, rend, kept, pub>>
  BY <1>1, <1>11 DEF Named
<1>12. \/ UNCHANGED <<clip, upload, rend, kept, pub>>
       \/ DeleteClip \/ RenderStep \/ Record \/ WriteBack \/ Restart \/ (\E v \in verify : ReadBack(v))
       \/ Claim \/ Recover \/ List \/ UploadCancelled \/ UploadFails \/ UploadLost \/ Done
       \/ Prepare \/ UploadDone \/ Count
  BY DEF Next, vars, table, memory, world, AloneInTable, AskPublish, AskCancel, Rerender,
         RemoveRender, RetryRender, RequestStep, Publish, Cancel, PubStep, DayPasses
<1> QED
  BY <1>2, <1>3, <1>4, <1>5, <1>6, <1>7, <1>8, <1>9, <1>10, <1>11, <1>12

(* A recorded upload survives every re-render, those it is recorded in the    *)
(* middle of included.                                                      *)
THEOREM StaysShown == Spec => []UploadShown
<1>1. Init => Parts /\ ShownInv
  BY InitType, PublisherAssumption DEF Init, ShownInv, ClipInHand, Named, NoRend, NoPub, NoUpload
<1>2. Parts /\ ShownInv /\ [Next]_vars => (Parts /\ ShownInv)'
  BY NextTypes, ShownStep
<1>3. Parts /\ ShownInv => UploadShown
  BY DEF ShownInv, Shown, Saved, UploadShown
<1> QED
  BY <1>1, <1>2, <1>3, PTL DEF Spec
=============================================================================
