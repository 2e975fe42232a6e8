------------------------------ MODULE CaTrust ------------------------------
(***************************************************************************)
(* The agent's synchronisation of the host's trust store with the CA       *)
(* bundle of the server (api-client/internal/catrust): one run of Sync, cut *)
(* at every file operation and at every command, so that each of them can   *)
(* fail and the process can die between any two.                            *)
(*                                                                         *)
(* An anchor is named by the CA it holds: the file name is a function of    *)
(* the fingerprint.  Files in the anchor directory that the agent never     *)
(* wrote are the members of Foreign.                                        *)
(***************************************************************************)
EXTENDS FiniteSets, Integers

CONSTANTS CAs,          \* the CAs the server may distribute
          Foreign,      \* anchors installed on the host by somebody else
          MaxFaults,    \* bound on failed operations, crashes and lost files
          MaxChanges    \* bound on changes of the server's bundle

ASSUME CaTrustAssumption ==
    /\ IsFiniteSet(CAs)
    /\ CAs \cap Foreign = {}
    /\ MaxFaults \in Nat
    /\ MaxChanges \in Nat

VARIABLES
    bundle,     \* the CAs the server distributes now
    dir,        \* the anchors in the anchor directory
    temps,      \* the half-written anchors in that directory
    store,      \* the anchors the host trusts since the last update command
    state,      \* the state file: the anchors owned, and the pending mark
    pc,         \* the step of Sync the agent is at
    run,        \* the locals of that call of Sync
    faults,     \* how many faults have happened
    changes,    \* how often the bundle has changed
    lost,       \* history: files of the agent that no state file recorded
                \* when the run that wrote them ended
    vanished,   \* history: anchors deleted by hand that no update command
                \* has found in their place again
    served      \* history: every bundle the server has distributed

vars == <<bundle, dir, temps, store, state, pc, run, faults, changes, lost,
          vanished, served>>

Anchor == CAs \cup Foreign

\* State, without the time of the last synchronisation.
StateFile == [certs : SUBSET CAs, pending : BOOLEAN]

\* The locals of Sync: the anchors parsed from the bundle, the set the state
\* file held at the start, the set being recorded, the anchors still to be
\* written, the one being written and the previous anchors already removed.
Locals == [anchors : SUBSET CAs, prev : SUBSET CAs, next : SUBSET CAs,
           todo : SUBSET CAs, writing : SUBSET CAs, removed : SUBSET CAs]

NoLocals == [anchors |-> {}, prev |-> {}, next |-> {}, todo |-> {},
             writing |-> {}, removed |-> {}]

Steps == {"idle", "sweep", "write", "rename", "remove", "salvage", "record",
          "update", "finish"}

Init ==
    /\ bundle \in SUBSET CAs
    /\ dir = Foreign
    /\ temps = {}
    /\ store = Foreign
    /\ state = [certs |-> {}, pending |-> FALSE]
    /\ pc = "idle"
    /\ run = NoLocals
    /\ faults = 0
    /\ changes = 0
    /\ lost = {}
    /\ vanished = {}
    /\ served = {bundle}

----------------------------------------------------------------------------
(* Faults.  The agent's own error paths return from Sync; the next run      *)
(* starts from the files alone.                                             *)

Fault == faults < MaxFaults /\ faults' = faults + 1

\* Sync returns: its locals are gone.
Return == pc' = "idle" /\ run' = NoLocals

\* WriteState: the file is replaced by a rename, as a whole or not at all.
WriteState(certs, pending) ==
    /\ state' = [certs |-> certs, pending |-> pending]
    /\ lost' = lost \ certs

\* The call ends without a record of what it has written.
Unrecorded == lost' = lost \cup ((dir \cap CAs) \ state.certs)

WriteStateFails == Fault /\ Unrecorded /\ UNCHANGED state

----------------------------------------------------------------------------
(* Sync.                                                                    *)

\* Mutant: the pending mark is ignored.
needsSyncNoPending(prev, anchors) ==
    prev.certs # anchors \/ ~ (anchors \subseteq dir)

\* needsSync: the set moved, a file we own vanished, or the last update
\* command never succeeded.  The comparison of the sizes and the lookup of
\* every anchor of the bundle come to equality of the sets.
needsSync(prev, anchors) ==
    \/ prev.pending
    \/ prev.certs # anchors
    \/ ~ (anchors \subseteq dir)

\* What arrives: the bundle, or one cut short inside a certificate, of which a
\* fragment trails the last whole block.
Response ==
    {[certs |-> bundle, trailing |-> 0]}
      \cup [certs : SUBSET bundle \ {bundle}, trailing : {1}]

\* Mutant: the complete blocks of a truncated body are accepted.
ParseBundleLenient(body) == TRUE

\* ParseBundle accepts a body only when nothing follows its last whole block.
ParseBundle(body) == body.trailing = 0

\* The bundle is fetched and parsed and the state file read; a failure of any
\* of the three returns before anything is changed, as does a run that has
\* nothing to do.
SyncBegin ==
    /\ pc = "idle"
    /\ \E body \in Response :
         /\ ParseBundle(body)
         /\ needsSync(state, body.certs)
         /\ run' = [NoLocals EXCEPT !.anchors = body.certs, !.prev = state.certs,
                                    !.todo = body.certs]
    /\ pc' = "sweep"
    /\ UNCHANGED <<bundle, dir, temps, store, state, faults, changes, lost, vanished, served>>

SyncNothing ==
    /\ pc = "idle"
    /\ ~ needsSync(state, bundle)
    /\ UNCHANGED vars

\* Mutant: the leftovers of a crashed run stay.
sweepNothing ==
    /\ pc = "sweep"
    /\ pc' = "write"
    /\ UNCHANGED <<bundle, dir, temps, store, state, run, faults, changes, lost, vanished, served>>

\* sweepStaleTempAnchors, in any order and up to the first failure.
sweepStaleTempAnchors ==
    /\ pc = "sweep"
    /\ \/ temps' = {} /\ pc' = "write" /\ UNCHANGED <<run, faults>>
       \/ temps' \in SUBSET temps /\ Return /\ Fault
    /\ UNCHANGED <<bundle, dir, store, state, changes, lost, vanished, served>>

\* Mutant: only what this run has written is recorded.
unionNext(prev, next) == next

\* union: the record of what this run installed and of everything the previous
\* run left on disk.
union(prev, next) == prev \cup next

\* writeAnchor up to the rename.  A write that fails may leave a partial file.
writeAnchor(a) ==
    /\ pc = "write" /\ a \in run.todo
    /\ \/ /\ temps' = temps \cup {a}
          /\ pc' = "rename"
          /\ run' = [run EXCEPT !.todo = @ \ {a}, !.writing = {a}]
          /\ UNCHANGED faults
       \/ /\ temps' \in {temps, temps \cup {a}}
          /\ pc' = "salvage"
          /\ run' = [run EXCEPT !.next = union(run.prev, @)]
          /\ Fault
    /\ UNCHANGED <<bundle, dir, store, state, changes, lost, vanished, served>>

\* The rename of writeAnchor, and the entry in next.Certs.
RenameAnchor ==
    /\ pc = "rename"
    /\ \/ /\ dir' = dir \cup run.writing
          /\ temps' = temps \ run.writing
          /\ pc' = "write"
          /\ run' = [run EXCEPT !.next = @ \cup run.writing, !.writing = {}]
          /\ UNCHANGED faults
       \/ /\ pc' = "salvage"
          /\ run' = [run EXCEPT !.next = union(run.prev, @)]
          /\ Fault
          /\ UNCHANGED <<dir, temps>>
    /\ UNCHANGED <<bundle, store, state, changes, lost, vanished, served>>

WritesDone ==
    /\ pc = "write" /\ run.todo = {}
    /\ pc' = "remove"
    /\ UNCHANGED <<bundle, dir, temps, store, state, run, faults, changes, lost, vanished, served>>

\* The anchors of the previous run that this bundle retires.  Only files of the
\* state file are considered: anything else is somebody else's.
Retired == run.prev \ run.next

\* One iteration of the removal loop, over a map in random order.  Removing a
\* file that is not there succeeds.  On a failure the anchors not yet removed
\* stay owned.
RemoveRetired(a) ==
    /\ pc = "remove" /\ a \in Retired \ run.removed
    /\ \/ /\ dir' = dir \ {a}
          /\ run' = [run EXCEPT !.removed = @ \cup {a}]
          /\ UNCHANGED <<pc, faults>>
       \/ /\ run' = [run EXCEPT !.next = @ \cup (run.prev \ run.removed)]
          /\ pc' = "salvage"
          /\ Fault
          /\ UNCHANGED dir
    /\ UNCHANGED <<bundle, temps, store, state, changes, lost, vanished, served>>

RemovesDone ==
    /\ pc = "remove" /\ Retired \subseteq run.removed
    /\ pc' = "record"
    /\ UNCHANGED <<bundle, dir, temps, store, state, run, faults, changes, lost, vanished, served>>

\* The best-effort WriteState of the two failure paths.
Salvage ==
    /\ pc = "salvage"
    /\ \/ WriteState(run.next, TRUE) /\ UNCHANGED faults
       \/ WriteStateFails
    /\ Return
    /\ UNCHANGED <<bundle, dir, temps, store, changes, vanished, served>>

\* Ownership is recorded before the update command runs.
Record ==
    /\ pc = "record"
    /\ \/ /\ WriteState(run.next, TRUE)
          /\ pc' = "update"
          /\ UNCHANGED <<run, faults>>
       \/ WriteStateFails /\ Return
    /\ UNCHANGED <<bundle, dir, temps, store, changes, vanished, served>>

\* The host's update command rebuilds the trust store from the directory.  The
\* loader of p11-kit reads every entry, half-written anchors included.  A
\* command that fails or is cut off by its timeout may have done its work.
UpdateCommand ==
    /\ store' = dir \cup temps
    /\ vanished' = vanished \ dir

RunUpdate ==
    /\ pc = "update"
    /\ \/ UpdateCommand /\ pc' = "finish" /\ UNCHANGED <<run, faults>>
       \/ UpdateCommand /\ Return /\ Fault
       \/ UNCHANGED <<store, vanished>> /\ Return /\ Fault
    /\ UNCHANGED <<bundle, dir, temps, state, changes, lost, served>>

Finish ==
    /\ pc = "finish"
    /\ \/ WriteState(run.next, FALSE) /\ UNCHANGED faults
       \/ WriteStateFails
    /\ Return
    /\ UNCHANGED <<bundle, dir, temps, store, changes, vanished, served>>

Sync ==
    \/ SyncBegin \/ SyncNothing \/ sweepStaleTempAnchors
    \/ \E a \in CAs : writeAnchor(a) \/ RemoveRetired(a)
    \/ RenameAnchor \/ WritesDone \/ RemovesDone
    \/ Salvage \/ Record \/ RunUpdate \/ Finish

----------------------------------------------------------------------------
(* The rest of the world.                                                   *)

\* The agent is killed, or the host goes down.
Crash ==
    /\ pc # "idle"
    /\ Fault /\ Unrecorded /\ Return
    /\ UNCHANGED <<bundle, dir, temps, store, state, changes, vanished, served>>

\* Somebody deletes an anchor of the agent by hand.
FileVanishes(a) ==
    /\ a \in dir \cap CAs
    /\ dir' = dir \ {a}
    /\ vanished' = vanished \cup {a}
    /\ Fault
    /\ UNCHANGED <<bundle, temps, store, state, pc, run, changes, lost, served>>

\* CAs are imported on the server or deleted there.
ServerChanges ==
    /\ changes < MaxChanges
    /\ changes' = changes + 1
    /\ bundle' \in SUBSET CAs \ {bundle}
    /\ served' = served \cup {bundle'}
    /\ UNCHANGED <<dir, temps, store, state, pc, run, faults, lost, vanished>>

Next == Sync \/ Crash \/ ServerChanges \/ \E a \in CAs : FileVanishes(a)

\* The scheduler calls Sync on every tick of its interval, and a call of Sync
\* runs to its end: the update command has a timeout of its own.
Spec == Init /\ [][Next]_vars /\ WF_vars(Sync)

----------------------------------------------------------------------------
TypeOK ==
    /\ bundle \subseteq CAs
    /\ dir \subseteq Anchor
    /\ temps \subseteq CAs
    /\ store \subseteq Anchor
    /\ state \in StateFile
    /\ pc \in Steps
    /\ run \in Locals
    /\ faults \in 0..MaxFaults
    /\ changes \in 0..MaxChanges
    /\ lost \subseteq CAs
    /\ vanished \subseteq CAs
    /\ served \subseteq SUBSET CAs

\* Between two runs every anchor the agent has put into the directory is
\* recorded as its own, however the runs before ended, unless the process died
\* or the state file could not be written while that anchor was unrecorded
\* (the two salvaging writes of catrust.go and the order of its last steps).
Tracked == pc = "idle" => dir \cap CAs \subseteq state.certs \cup lost

\* When the update command is run, the set it applies is a bundle the server
\* really distributed; the directory holds no half-written anchor and no CA
\* outside that bundle except one that lost its record; and the anchors of
\* somebody else are all still there.
AppliesTheBundle ==
    pc = "update" =>
        /\ run.anchors \in served
        /\ temps = {}
        /\ dir \cap CAs \subseteq run.anchors \cup lost
        /\ Foreign \subseteq dir

\* Once the server's bundle stays as it is and nothing fails any more, the host
\* ends up trusting exactly that bundle, besides the anchors of others, the ones
\* that lost their record, and the ones that were deleted by hand and put back
\* by a run that died before its update command.
Converges ==
    <>[] /\ bundle \cup Foreign \subseteq store \cup vanished
         /\ store \subseteq bundle \cup Foreign \cup lost

=============================================================================
