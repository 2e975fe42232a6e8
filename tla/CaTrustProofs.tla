--------------------------- MODULE CaTrustProofs ---------------------------
(***************************************************************************)
(* Proofs about CaTrust, for any set of CAs, any foreign anchors and any    *)
(* number of faults and changes of the bundle.                              *)
(*                                                                         *)
(* Tracked and AppliesTheBundle are not inductive: what a run may lose or   *)
(* apply depends on how far it has come.  IInv says at every step of Sync    *)
(* who answers for the files in the directory.                              *)
(***************************************************************************)
EXTENDS CaTrust, TLAPS

\* The only half-written anchor after the sweep is the one being written.
TempsSwept ==
    /\ pc \in {"write", "remove", "record", "update"} => temps = {}
    /\ pc = "rename" => temps = run.writing

\* How far the call has come with the bundle it fetched.
Progress ==
    /\ pc # "idle" => run.anchors \in served
    /\ pc = "sweep" => /\ run.prev = state.certs /\ run.todo = run.anchors
                       /\ run.next = {} /\ run.writing = {} /\ run.removed = {}
    /\ pc = "write" => run.writing = {}
    /\ pc \in {"write", "rename"} =>
           /\ run.anchors = run.next \cup run.todo \cup run.writing
           /\ run.removed = {}
    /\ pc \in {"remove", "record", "update"} => run.next = run.anchors
    /\ pc \in {"update", "finish"} => state.certs = run.next

\* Who answers for the anchors of the agent: the state file where no call has
\* touched the directory since it was written, and otherwise what the call
\* would record if it failed now.
Recorded ==
    /\ pc \in {"idle", "sweep", "update", "finish"} =>
           dir \cap CAs \subseteq state.certs \cup lost
    /\ pc \in {"write", "rename", "remove"} =>
           dir \cap CAs \subseteq run.next \cup (run.prev \ run.removed) \cup lost
    /\ pc \in {"salvage", "record"} => dir \cap CAs \subseteq run.next \cup lost

IInv ==
    /\ TypeOK /\ TempsSwept /\ Progress /\ Recorded
    /\ Foreign \subseteq dir
    /\ bundle \in served

\* The fields of the locals of a call.
LEMMA LocalsFields ==
    ASSUME NEW r \in Locals
    PROVE  /\ r.anchors \subseteq CAs /\ r.prev \subseteq CAs
           /\ r.next \subseteq CAs /\ r.todo \subseteq CAs
           /\ r.writing \subseteq CAs /\ r.removed \subseteq CAs
BY DEF Locals

\* The removal loop changes one of the locals at a time.
LEMMA SetNext ==
    ASSUME NEW r \in Locals, NEW S \in SUBSET CAs
    PROVE  [r EXCEPT !.next = S] \in Locals
BY DEF Locals

LEMMA SetRemoved ==
    ASSUME NEW r \in Locals, NEW S \in SUBSET CAs
    PROVE  [r EXCEPT !.removed = S] \in Locals
BY DEF Locals

\* A state file written by Sync, and the bookkeeping of a write that fails.
LEMMA StateWritten ==
    ASSUME TypeOK, NEW C \in SUBSET CAs, NEW p \in BOOLEAN,
           WriteState(C, p) \/ WriteStateFails
    PROVE  state' \in StateFile /\ lost' \subseteq CAs
BY DEF TypeOK, WriteState, WriteStateFails, Unrecorded, StateFile

\* A fault is one more within the bound.
LEMMA FaultTyped ==
    ASSUME faults \in 0..MaxFaults, Fault \/ UNCHANGED faults
    PROVE  faults' \in 0..MaxFaults
BY CaTrustAssumption DEF Fault

\* The only response that parses is the whole bundle.
LEMMA WholeBundle ==
    ASSUME NEW body \in Response, ParseBundle(body)
    PROVE  body.certs = bundle
BY DEF Response, ParseBundle

\* Every reachable state has the types the declarations of Sync, State and
\* Anchor give it.
THEOREM CaTrustTypes == Spec => []TypeOK
<1>1. Init => TypeOK
  BY CaTrustAssumption DEF Init, TypeOK, Anchor, StateFile, Locals, NoLocals, Steps
<1>2. TypeOK /\ [Next]_vars => TypeOK'
  <2> SUFFICES ASSUME TypeOK, [Next]_vars PROVE TypeOK'
    OBVIOUS
  <2> USE CaTrustAssumption DEF TypeOK, Anchor, Steps
  <2>0. NoLocals \in Locals
    BY DEF NoLocals, Locals
  <2>1. CASE SyncBegin
    <3>1. run' = [NoLocals EXCEPT !.anchors = bundle, !.prev = state.certs, !.todo = bundle]
      BY <2>1, WholeBundle DEF SyncBegin
    <3>2. run' \in Locals
      BY <3>1 DEF NoLocals, Locals, StateFile
    <3> QED
      BY <2>1, <3>2 DEF SyncBegin
  <2>2. CASE SyncNothing
    BY <2>2 DEF SyncNothing, vars
  <2>3. CASE sweepStaleTempAnchors
    BY <2>0, <2>3, FaultTyped DEF sweepStaleTempAnchors, Return
  <2>4. ASSUME NEW a \in CAs, writeAnchor(a) PROVE TypeOK'
    <3>1. run' \in Locals
      <4>1. CASE run' = [run EXCEPT !.todo = run.todo \ {a}, !.writing = {a}]
        BY <4>1 DEF Locals
      <4>2. CASE run' = [run EXCEPT !.next = run.prev \cup run.next]
        BY <4>2 DEF Locals
      <4> QED
        BY <2>4, <4>1, <4>2 DEF writeAnchor, union
    <3> QED
      BY <2>4, <3>1, FaultTyped DEF writeAnchor
  <2>5. ASSUME NEW a \in CAs, RemoveRetired(a) PROVE TypeOK'
    <3>1. run' \in Locals
      BY <2>5, LocalsFields, SetNext, SetRemoved DEF RemoveRetired, Retired
    <3> QED
      BY <2>5, <3>1, FaultTyped DEF RemoveRetired
  <2>6. CASE RenameAnchor
    <3>1. run' \in Locals
      <4>1. CASE run' = [run EXCEPT !.next = run.next \cup run.writing, !.writing = {}]
        BY <4>1 DEF Locals
      <4>2. CASE run' = [run EXCEPT !.next = run.prev \cup run.next]
        BY <4>2 DEF Locals
      <4> QED
        BY <2>6, <4>1, <4>2 DEF RenameAnchor, union
    <3> QED
      BY <2>6, <3>1, LocalsFields, FaultTyped DEF RenameAnchor
  <2>7. CASE WritesDone \/ RemovesDone
    BY <2>7 DEF WritesDone, RemovesDone
  <2>8. CASE Salvage
    <3>1. state' \in StateFile /\ lost' \subseteq CAs
      BY <2>8, StateWritten, LocalsFields DEF Salvage
    <3> QED
      BY <2>0, <2>8, <3>1, FaultTyped DEF Salvage, Return, WriteStateFails
  <2>9. CASE Record
    <3>1. state' \in StateFile /\ lost' \subseteq CAs
      BY <2>9, StateWritten, LocalsFields DEF Record
    <3> QED
      BY <2>0, <2>9, <3>1, FaultTyped DEF Record, Return, WriteStateFails
  <2>10. CASE RunUpdate
    BY <2>0, <2>10, FaultTyped DEF RunUpdate, UpdateCommand, Return
  <2>11. CASE Finish
    <3>1. state' \in StateFile /\ lost' \subseteq CAs
      BY <2>11, StateWritten, LocalsFields DEF Finish
    <3> QED
      BY <2>0, <2>11, <3>1, FaultTyped DEF Finish, Return, WriteStateFails
  <2>12. CASE Crash
    BY <2>0, <2>12, FaultTyped DEF Crash, Return, Unrecorded
  <2>13. CASE ServerChanges
    BY <2>13 DEF ServerChanges
  <2>14. ASSUME NEW a \in CAs, FileVanishes(a) PROVE TypeOK'
    BY <2>14, FaultTyped DEF FileVanishes
  <2>15. CASE UNCHANGED vars
    BY <2>15 DEF vars
  <2> QED
    BY <2>1, <2>2, <2>3, <2>4, <2>5, <2>6, <2>7, <2>8, <2>9, <2>10, <2>11, <2>12,
       <2>13, <2>14, <2>15 DEF Next, Sync
<1> QED
  BY <1>1, <1>2, PTL DEF Spec

\* Every step of Sync and of the world keeps the strengthened invariant.
LEMMA IInvStep == IInv /\ TypeOK' /\ [Next]_vars => IInv'
<1> SUFFICES ASSUME IInv, TypeOK', [Next]_vars PROVE IInv'
  OBVIOUS
<1> USE CaTrustAssumption DEF IInv, TypeOK, Steps
<1>0. run \in Locals
  OBVIOUS
<1>1. CASE SyncBegin
  <2>1. /\ pc = "idle" /\ pc' = "sweep"
        /\ UNCHANGED <<dir, state, lost, bundle, served>>
        /\ run'.anchors = bundle /\ run'.prev = state.certs /\ run'.todo = bundle
        /\ run'.next = {} /\ run'.writing = {} /\ run'.removed = {}
    BY <1>1, WholeBundle DEF SyncBegin, NoLocals
  <2> QED
    BY <2>1 DEF TempsSwept, Progress, Recorded
<1>2. CASE SyncNothing \/ UNCHANGED vars
  BY <1>2 DEF SyncNothing, vars, TempsSwept, Progress, Recorded
<1>3. CASE sweepStaleTempAnchors
  BY <1>3 DEF sweepStaleTempAnchors, Return, TempsSwept, Progress, Recorded
<1>4. ASSUME NEW a \in CAs, writeAnchor(a) PROVE IInv'
  <2>1. CASE pc' = "rename"
    <3>1. /\ run'.next = run.next /\ run'.prev = run.prev
          /\ run'.anchors = run.anchors /\ run'.removed = run.removed
          /\ run'.todo = run.todo \ {a} /\ run'.writing = {a}
          /\ temps' = temps \cup {a} /\ UNCHANGED <<dir, state, lost, bundle, served>>
          /\ pc = "write" /\ a \in run.todo
      BY <1>4, <2>1, <1>0 DEF writeAnchor, Locals
    <3> QED
      BY <2>1, <3>1 DEF TempsSwept, Progress, Recorded
  <2>2. CASE pc' = "salvage"
    <3>1. /\ run'.next = run.prev \cup run.next /\ run'.anchors = run.anchors
          /\ UNCHANGED <<dir, state, lost, bundle, served>> /\ pc = "write"
      BY <1>4, <2>2, <1>0 DEF writeAnchor, Locals, union
    <3> QED
      BY <2>2, <3>1 DEF TempsSwept, Progress, Recorded
  <2> QED
    BY <1>4, <2>1, <2>2 DEF writeAnchor
<1>5. CASE RenameAnchor
  <2>1. CASE pc' = "write"
    <3>1. /\ run'.next = run.next \cup run.writing /\ run'.prev = run.prev
          /\ run'.anchors = run.anchors /\ run'.removed = run.removed
          /\ run'.todo = run.todo /\ run'.writing = {}
          /\ dir' = dir \cup run.writing /\ temps' = temps \ run.writing
          /\ UNCHANGED <<state, lost, bundle, served>> /\ pc = "rename"
      BY <1>5, <2>1, <1>0 DEF RenameAnchor, Locals
    <3> QED
      BY <2>1, <3>1 DEF TempsSwept, Progress, Recorded
  <2>2. CASE pc' = "salvage"
    <3>1. /\ run'.next = run.prev \cup run.next /\ run'.anchors = run.anchors
          /\ UNCHANGED <<dir, state, lost, bundle, served>> /\ pc = "rename"
      BY <1>5, <2>2, <1>0 DEF RenameAnchor, Locals, union
    <3> QED
      BY <2>2, <3>1 DEF TempsSwept, Progress, Recorded
  <2> QED
    BY <1>5, <2>1, <2>2 DEF RenameAnchor
<1>6. ASSUME NEW a \in CAs, RemoveRetired(a) PROVE IInv'
  <2>1. CASE pc' = "remove"
    <3>1. /\ run'.next = run.next /\ run'.prev = run.prev /\ run'.anchors = run.anchors
          /\ run'.removed = run.removed \cup {a}
          /\ dir' = dir \ {a}
          /\ UNCHANGED <<state, lost, temps, bundle, served>> /\ pc = "remove"
      BY <1>6, <2>1, <1>0 DEF RemoveRetired, Locals
    <3> QED
      BY <2>1, <3>1 DEF TempsSwept, Progress, Recorded
  <2>2. CASE pc' = "salvage"
    <3>1. /\ run'.next = run.next \cup (run.prev \ run.removed) /\ run'.anchors = run.anchors
          /\ UNCHANGED <<dir, state, lost, bundle, served>> /\ pc = "remove"
      BY <1>6, <2>2, <1>0 DEF RemoveRetired, Locals
    <3> QED
      BY <2>2, <3>1 DEF TempsSwept, Progress, Recorded
  <2> QED
    BY <1>6, <2>1, <2>2 DEF RemoveRetired
<1>7. CASE WritesDone
  BY <1>7 DEF WritesDone, TempsSwept, Progress, Recorded
<1>8. CASE RemovesDone
  BY <1>8 DEF RemovesDone, Retired, TempsSwept, Progress, Recorded
<1>9. CASE Salvage
  BY <1>9 DEF Salvage, Return, WriteState, WriteStateFails, Unrecorded,
              TempsSwept, Progress, Recorded
<1>10. CASE Record
  BY <1>10 DEF Record, Return, WriteState, WriteStateFails, Unrecorded,
               TempsSwept, Progress, Recorded
<1>11. CASE RunUpdate
  BY <1>11 DEF RunUpdate, Return, TempsSwept, Progress, Recorded
<1>12. CASE Finish
  BY <1>12 DEF Finish, Return, WriteState, WriteStateFails, Unrecorded,
               TempsSwept, Progress, Recorded
<1>13. CASE Crash
  BY <1>13 DEF Crash, Return, Unrecorded, TempsSwept, Progress, Recorded
<1>14. CASE ServerChanges
  BY <1>14 DEF ServerChanges, TempsSwept, Progress, Recorded
<1>15. ASSUME NEW a \in CAs, FileVanishes(a) PROVE IInv'
  BY <1>15 DEF FileVanishes, TempsSwept, Progress, Recorded
<1> QED
  BY <1>1, <1>2, <1>3, <1>4, <1>5, <1>6, <1>7, <1>8, <1>9, <1>10, <1>11, <1>12,
     <1>13, <1>14, <1>15 DEF Next, Sync

\* The strengthened invariant holds in every reachable state.
LEMMA IInvHolds == Spec => []IInv
<1>1. Init => IInv
  BY CaTrustAssumption DEF Init, IInv, TypeOK, Anchor, StateFile, Locals, NoLocals, Steps,
     TempsSwept, Progress, Recorded
<1> QED
  BY <1>1, IInvStep, CaTrustTypes, PTL DEF Spec

\* Between two runs of Sync every anchor the agent has written is recorded in
\* its state file or lost its record to a crash or a failed write of that file,
\* whatever failed before.
THEOREM AnchorsTracked == Spec => []Tracked
<1>1. IInv => Tracked
  BY DEF IInv, Recorded, Tracked
<1> QED
  BY <1>1, IInvHolds, PTL

\* The update command is only ever run over a directory without half-written
\* anchors, without retired CAs except those that lost their record, and with
\* every foreign anchor in place.
THEOREM UpdateAppliesTheBundle == Spec => []AppliesTheBundle
<1>1. IInv => AppliesTheBundle
  BY DEF IInv, TempsSwept, Progress, Recorded, AppliesTheBundle
<1> QED
  BY <1>1, IInvHolds, PTL
=============================================================================
