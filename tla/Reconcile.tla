----------------------------- MODULE Reconcile -----------------------------
(***************************************************************************)
(* The agent's reconciliation of one configured domain with a file target    *)
(* (api-client/internal/reconcile, target, store, reloader).  A pass lists     *)
(* the certificates of the server, compares the one selected with the state   *)
(* file, fetches password and archive in two requests, writes the files one   *)
(* by one, then the state file, and reloads the service.  Every step that      *)
(* leaves the process can fail, and the agent can be killed between any two;   *)
(* meanwhile the server issues, replaces and revokes.                         *)
(***************************************************************************)
EXTENDS FiniteSets, Integers, Sequences

CONSTANTS CertIds,   \* certificates with the domain's name
          Untils,    \* expiries
          Layout,    \* the files of the configured formats, in the order written
          MaxMat,    \* bound on issued certificates; each has a serial of its own
          MaxFail,   \* bound on the passes that fail or are killed, and on reloads by others
          Null

Mats == 1..MaxMat
Files == {Layout[i] : i \in 1..Len(Layout)}

ASSUME ReconcileAssumption ==
    /\ CertIds \subseteq Nat \ {0} /\ Untils \subseteq Nat
    /\ MaxMat \in Nat /\ MaxFail \in Nat
    /\ Layout \in Seq(STRING) /\ Layout # << >>
    /\ Null \notin Nat

VARIABLES
    pinned,   \* cert_id of the configuration, or Null to go by name
    server,   \* the server's certificates: id to row
    issued,   \* materials issued so far
    pc, reg,  \* the pass under way
    files,    \* file to the material in it, or Null
    state,    \* .vaultls-state.json, or Null
    loaded,   \* what the service read at its last reload
    fails,    \* passes that failed or were killed, and reloads by others
    repeated, \* history: a replacement came with an expiry its id had before
    dirty,    \* history: a pass ended after it wrote files and before the state
    missed,   \* history: a pass ended after it wrote the state, unreloaded
    torn      \* history: the last reload was another's, with files half written

marks == <<dirty, missed, torn>>

vars == <<pinned, server, issued, pc, reg, files, state, loaded, fails, repeated, marks>>

\* password: whether the archive has one that differs from the one before it.
Row == [mat : Mats, until : Untils, password : BOOLEAN, revoked : BOOLEAN,
        before : SUBSET Untils]

State == [id : CertIds, serial : Mats, until : Untils]

Labels == {"idle", "password", "download", "decode", "write", "save", "reload"}

Reg == [id : CertIds \cup {Null}, until : Untils \cup {Null}, password : BOOLEAN \cup {Null},
        archive : BOOLEAN \cup {Null}, mat : Mats \cup {Null}, next : 1..Len(Layout),
        changed : BOOLEAN]

NoReg == [id |-> Null, until |-> Null, password |-> Null, archive |-> Null, mat |-> Null,
          next |-> 1, changed |-> FALSE]

\* Types; and a state file never speaks of more than was issued.
TypeOK ==
    /\ pinned \in CertIds \cup {Null}
    /\ DOMAIN server \subseteq CertIds /\ \A c \in DOMAIN server : server[c] \in Row
    /\ issued \in 0..MaxMat
    /\ pc \in Labels /\ reg \in Reg
    /\ files \in [Files -> 1..issued \cup {Null}]
    /\ state \in State \cup {Null} /\ (state # Null => state.serial <= issued)
    /\ loaded \in [Files -> 1..issued \cup {Null}]
    /\ fails \in 0..MaxFail
    /\ repeated \in BOOLEAN /\ dirty \in BOOLEAN /\ missed \in BOOLEAN /\ torn \in BOOLEAN

NoFiles == [f \in Files |-> Null]

Init ==
    /\ pinned \in CertIds \cup {Null}
    /\ server = [c \in {} |-> c] /\ issued = 0
    /\ pc = "idle" /\ reg = NoReg
    /\ files = NoFiles /\ state = Null /\ loaded = NoFiles
    /\ fails = 0
    /\ repeated = FALSE /\ dirty = FALSE /\ missed = FALSE /\ torn = FALSE

agentVars == <<pc, reg, files, state, loaded, fails, marks>>
serverVars == <<server, issued, repeated>>

----------------------------------------------------------------------------
(* The server, as far as the agent sees it.                                  *)

\* A new certificate, or a replacement in place under the same id.
Issue(c, until, password) ==
    /\ issued < MaxMat
    /\ c \in DOMAIN server => ~server[c].revoked
    /\ issued' = issued + 1
    /\ LET before == IF c \in DOMAIN server THEN server[c].before \cup {server[c].until} ELSE {}
           row == [mat |-> issued + 1, until |-> until, password |-> password,
                   revoked |-> FALSE, before |-> before]
       IN /\ server' = [x \in DOMAIN server \cup {c} |-> IF x = c THEN row ELSE server[x]]
          /\ repeated' = (repeated \/ until \in before)
    /\ UNCHANGED <<pinned, agentVars>>

Revoke(c) ==
    /\ c \in DOMAIN server
    /\ ~server[c].revoked
    /\ server' = [server EXCEPT ![c].revoked = TRUE]
    /\ UNCHANGED <<pinned, issued, repeated, agentVars>>

----------------------------------------------------------------------------
(* A pass.                                                                  *)

Usable == {c \in DOMAIN server : ~server[c].revoked}

\* SelectForName: the latest expiry, the first in the list of those.
IsLatest(c) ==
    \A x \in Usable :
        \/ server[x].until < server[c].until
        \/ server[x].until = server[c].until /\ x >= c

\* selectCert.
IsSelected(c) ==
    /\ c \in Usable
    /\ IF pinned # Null THEN c = pinned ELSE IsLatest(c)

\* Mutant: the certificate is known by its id alone.
DeployedIdOnly(c, until) == state # Null /\ state.id = c

\* The cheap skip.
Deployed(c, until) == state # Null /\ state.id = c /\ state.until = until

\* Mutant: the service is reloaded however the pass ends.
ReloadedAnyway == files

\* An error returns before the reload.
AfterError == loaded

\* Some of the files are the new certificate's, some are not yet.
HalfWritten == pc = "write" /\ reg.next > 1

\* A pass ends.  What it leaves behind depends on how far it came.
EndPass ==
    /\ pc' = "idle"
    /\ reg' = NoReg
    /\ dirty' = (dirty \/ (pc = "save" /\ reg.changed) \/ HalfWritten)
    /\ missed' = (missed \/ pc = "reload")
    /\ loaded' = AfterError
    /\ UNCHANGED <<files, state, torn>>

\* List, selectCert, LoadState; what is deployed already is left alone.
ListAndSelect(c) ==
    /\ pc = "idle"
    /\ IsSelected(c)
    /\ ~Deployed(c, server[c].until)
    /\ pc' = "password"
    /\ reg' = [NoReg EXCEPT !.id = c, !.until = server[c].until]
    /\ UNCHANGED <<pinned, fails, serverVars, files, state, loaded, marks>>

\* The password as it is now ...
Password ==
    /\ pc = "password"
    /\ reg.id \in DOMAIN server
    /\ pc' = "download"
    /\ reg' = [reg EXCEPT !.password = server[reg.id].password]
    /\ UNCHANGED <<pinned, fails, serverVars, files, state, loaded, marks>>

\* ... and the archive as it is then, also when it was revoked meanwhile.
Download ==
    /\ pc = "download"
    /\ reg.id \in DOMAIN server
    /\ pc' = "decode"
    /\ reg' = [reg EXCEPT !.archive = server[reg.id].password, !.mat = server[reg.id].mat]
    /\ UNCHANGED <<pinned, fails, serverVars, files, state, loaded, marks>>

Changed(mat) == state = Null \/ mat # state.serial

\* Decode fails with the password of another archive; the same serial is not
\* written again.
Decode ==
    /\ pc = "decode"
    /\ reg.password = reg.archive
    /\ LET changed == Changed(reg.mat) IN
       /\ pc' = IF changed THEN "write" ELSE "save"
       /\ reg' = [reg EXCEPT !.changed = changed]
    /\ UNCHANGED <<pinned, fails, serverVars, files, state, loaded, marks>>

LastFile == reg.next = Len(Layout)

\* writeBundle: each file is put in place by a rename.
WriteFile ==
    /\ pc = "write"
    /\ files' = [files EXCEPT ![Layout[reg.next]] = reg.mat]
    /\ IF LastFile
       THEN pc' = "save" /\ UNCHANGED reg
       ELSE pc' = "write" /\ reg' = [reg EXCEPT !.next = @ + 1]
    /\ UNCHANGED <<pinned, fails, serverVars, state, loaded, marks>>

\* Mutant: the expiry recorded is that of the row as it is now.
RecordedUntilNow == server[reg.id].until

\* The expiry that was listed.
RecordedUntil == reg.until

\* Mutant: the service is reloaded for its first certificate only.
ReloadNextOnce == reg.changed /\ state = Null

ReloadNext == reg.changed

\* SaveState, by a rename too.
SaveState ==
    /\ pc = "save"
    /\ state' = [id |-> reg.id, serial |-> reg.mat, until |-> RecordedUntil]
    /\ dirty' = (dirty /\ ~reg.changed)
    /\ IF ReloadNext
       THEN pc' = "reload" /\ UNCHANGED reg
       ELSE pc' = "idle" /\ reg' = NoReg
    /\ UNCHANGED <<pinned, fails, serverVars, files, loaded, missed, torn>>

Reload ==
    /\ pc = "reload"
    /\ loaded' = files
    /\ missed' = FALSE
    /\ torn' = FALSE
    /\ pc' = "idle" /\ reg' = NoReg
    /\ UNCHANGED <<pinned, fails, serverVars, files, state, dirty>>

\* Somebody else reloads the service, whenever that is: the reload subcommand,
\* or the pass of another domain whose reload command is the same (ReconcileAll
\* goes on to it also after a pass of this one has failed).
RunReload ==
    /\ fails < MaxFail
    /\ fails' = fails + 1
    /\ loaded' = files
    /\ missed' = FALSE
    /\ torn' = (dirty \/ HalfWritten)
    /\ UNCHANGED <<pinned, serverVars, pc, reg, files, state, dirty>>

DecodeFails ==
    /\ pc = "decode"
    /\ reg.password # reg.archive
    /\ EndPass
    /\ UNCHANGED <<pinned, fails, serverVars>>

\* Any other step of the pass returns an error, or the agent is killed: the next
\* pass starts over.
Fail ==
    /\ pc # "idle"
    /\ fails < MaxFail
    /\ fails' = fails + 1
    /\ EndPass
    /\ UNCHANGED <<pinned, serverVars>>

\* A pass that selects no certificate, or one that is deployed: it writes the
\* state back, with a new time of the last check.
NothingToDo ==
    /\ pc = "idle"
    /\ \A c \in CertIds : IsSelected(c) => Deployed(c, server[c].until)
    /\ UNCHANGED vars

Pass ==
    \/ \E c \in CertIds : ListAndSelect(c)
    \/ Password \/ Download \/ Decode \/ DecodeFails \/ WriteFile \/ SaveState \/ Reload

Next ==
    \/ Pass \/ Fail \/ NothingToDo \/ RunReload
    \/ \E c \in CertIds :
         \/ \E u \in Untils, b \in BOOLEAN : Issue(c, u, b)
         \/ Revoke(c)

\* The ticker starts passes for ever; MaxFail says that they do not fail for ever.
Fairness == WF_vars(Pass)

Spec == Init /\ [][Next]_vars /\ Fairness

----------------------------------------------------------------------------
\* The state file records c as the server has it.
RecordedAs(c) ==
    state # Null /\ state.id = c /\ state.until = server[c].until

\* When the agent has nothing to do, every file holds the server's certificate,
\* however the server changed between the list, the password and the download
\* (unless a replacement came with an expiry its id had before, or a pass was
\* cut short and the server then went back to the certificate recorded).
DeployedIsCurrent ==
    \A c \in CertIds :
        pc = "idle" /\ IsSelected(c) /\ RecordedAs(c) /\ ~repeated /\ ~dirty
            => \A f \in Files : files[f] = server[c].mat

\* Between passes the service runs with what the state file records: every file
\* was reloaded together (unless a reload failed, or a pass was cut short).
ServiceIsCurrent ==
    pc = "idle" /\ state # Null /\ ~dirty /\ ~missed
        => \A f \in Files : loaded[f] = state.serial

\* The service never runs with a certificate and the key of another: the agent
\* reloads only when all files are in place (unless somebody else reloaded the
\* service while a pass was writing, or after one was cut short there).
LoadedTogether == torn \/ \A f, g \in Files : loaded[f] = loaded[g]

\* Once the server rests, its certificate gets deployed and recorded, whatever
\* failed or crashed before and whatever changed while a pass was under way.
Settles == <>[](\A c \in CertIds : IsSelected(c) => RecordedAs(c))

=============================================================================
