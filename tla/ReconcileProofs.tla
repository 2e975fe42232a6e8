-------------------------- MODULE ReconcileProofs --------------------------
(***************************************************************************)
(* What the agent deploys, and what the service runs with, for any number of  *)
(* certificates, files and failed passes.  The state file is the agent's      *)
(* memory: the invariant says what it may be relied on for at each step.      *)
(***************************************************************************)
EXTENDS Reconcile, TLAPS

\* The files hold what the pass has written so far, and a pass that writes
\* nothing has found the serial of the state file.
PassInv ==
    /\ pc \in {"password", "download", "decode"} => reg.next = 1
    /\ pc \in {"decode", "write", "save", "reload"} => reg.mat \in 1..issued
    /\ pc = "write" => reg.changed /\ \A i \in 1..Len(Layout) :
                                        i < reg.next => files[Layout[i]] = reg.mat
    /\ pc \in {"save", "reload"} /\ reg.changed => \A f \in Files : files[f] = reg.mat
    /\ pc = "save" /\ ~reg.changed => state # Null /\ state.serial = reg.mat
    /\ pc = "reload" => reg.changed /\ (state # Null => state.serial = reg.mat)

\* Nothing has been written since the state was.
Untouched == ~HalfWritten /\ ~(pc = "save" /\ reg.changed)

\* The state file speaks for the files, and for the service once it was reloaded.
StateInv ==
    state # Null /\ ~dirty =>
        /\ Untouched => \A f \in Files : files[f] = state.serial
        /\ ~missed /\ pc # "reload" /\ Untouched => \A f \in Files : loaded[f] = state.serial

\* Unless a pass is, or was cut short, between two files, they belong together.
FilesInv == ~dirty /\ ~HalfWritten => \A f, g \in Files : files[f] = files[g]

\* Material m with expiry u is what the server has under c, or c has moved on
\* from that expiry.
Known(c, u, m) ==
    /\ c \in DOMAIN server
    /\ \/ server[c].until = u /\ server[c].mat = m
       \/ u \in server[c].before

\* A record that has gone stale shows it by its expiry, as long as no expiry
\* comes back.
RecordInv ==
    /\ state # Null => Known(state.id, state.until, state.serial)
    /\ pc # "idle" => /\ reg.id \in DOMAIN server
                      /\ \/ server[reg.id].until = reg.until
                         \/ reg.until \in server[reg.id].before
    /\ pc \in {"decode", "write", "save", "reload"} => Known(reg.id, reg.until, reg.mat)
    /\ ~repeated => \A c \in DOMAIN server : server[c].until \notin server[c].before
    /\ \A c \in DOMAIN server : server[c].mat \in 1..issued

Inv == TypeOK /\ PassInv /\ StateInv /\ FilesInv /\ LoadedTogether /\ RecordInv

----------------------------------------------------------------------------
LEMMA LayoutFacts ==
    /\ Len(Layout) \in Nat \ {0}
    /\ \A i \in 1..Len(Layout) : Layout[i] \in Files
    /\ \A f \in Files : \E i \in 1..Len(Layout) : f = Layout[i]
<1>1. Len(Layout) \in Nat \ {0}
  BY ReconcileAssumption
<1> QED BY <1>1 DEF Files

LEMMA NoRegType == NoReg \in Reg
BY LayoutFacts DEF NoReg, Reg

LEMMA InitInv ==
    ASSUME Init
    PROVE  Inv
<1>1. TypeOK
  <2>1. NoFiles \in [Files -> 1..issued \cup {Null}]
    BY DEF NoFiles
  <2>2. DOMAIN server = {}
    BY DEF Init
  <2>3. issued \in 0..MaxMat /\ fails \in 0..MaxFail
    BY ReconcileAssumption DEF Init
  <2>4. repeated \in BOOLEAN /\ dirty \in BOOLEAN /\ missed \in BOOLEAN /\ torn \in BOOLEAN
    BY DEF Init
  <2> QED BY <2>1, <2>2, <2>3, <2>4, NoRegType DEF Init, TypeOK, Labels
<1>2. PassInv /\ StateInv /\ FilesInv /\ LoadedTogether
  BY DEF Init, PassInv, StateInv, FilesInv, LoadedTogether, NoFiles
<1>3. RecordInv
  BY DEF Init, RecordInv
<1> QED BY <1>1, <1>2, <1>3 DEF Inv

\* Whatever ends a pass without an answer of the server leaves the state file and
\* what it speaks for.
LEMMA EndPassInv ==
    ASSUME Inv, EndPass, UNCHANGED <<pinned, serverVars>>, fails' \in 0..MaxFail
    PROVE  Inv'
<1>1. TypeOK'
  BY NoRegType DEF Inv, EndPass, AfterError, serverVars, TypeOK, Labels
<1>2. PassInv'
  BY DEF EndPass, PassInv
<1>3. StateInv' /\ FilesInv'
  BY DEF Inv, PassInv, StateInv, Untouched, FilesInv, HalfWritten, EndPass, AfterError
<1>4. LoadedTogether'
  BY DEF Inv, LoadedTogether, EndPass, AfterError
<1>5. RecordInv'
  BY DEF Inv, RecordInv, Known, EndPass, serverVars, marks
<1> QED BY <1>1, <1>2, <1>3, <1>4, <1>5 DEF Inv

----------------------------------------------------------------------------
(* The server.                                                              *)

LEMMA IssueInv ==
    ASSUME Inv, NEW c \in CertIds, NEW u \in Untils, NEW b \in BOOLEAN, Issue(c, u, b)
    PROVE  Inv'
<1> DEFINE before == IF c \in DOMAIN server THEN server[c].before \cup {server[c].until} ELSE {}
           row == [mat |-> issued + 1, until |-> u, password |-> b, revoked |-> FALSE,
                   before |-> before]
<1>1. /\ issued \in Nat /\ issued + 1 \in Mats /\ issued' = issued + 1
      /\ 1..issued \subseteq 1..issued'
  BY ReconcileAssumption DEF Inv, TypeOK, Issue, Mats
<1>2. before \subseteq Untils
  BY DEF Inv, TypeOK, Row
<1>3. row \in Row
  BY <1>1, <1>2 DEF Row
<1>4. /\ DOMAIN server' = DOMAIN server \cup {c}
      /\ server'[c] = row
      /\ \A x \in DOMAIN server : x # c => server'[x] = server[x]
  BY DEF Issue
<1>5. UNCHANGED <<pinned, pc, reg, files, state, loaded, fails, dirty, missed, torn>>
  BY DEF Issue, agentVars, marks
<1>6. TypeOK'
  <2>1. DOMAIN server' \subseteq CertIds /\ \A x \in DOMAIN server' : server'[x] \in Row
    BY <1>3, <1>4 DEF Inv, TypeOK
  <2>2. repeated' \in BOOLEAN
    BY DEF Issue, Inv, TypeOK
  <2>3. /\ files' \in [Files -> 1..issued' \cup {Null}]
        /\ loaded' \in [Files -> 1..issued' \cup {Null}]
    BY <1>1, <1>5 DEF Inv, TypeOK
  <2>4. state' # Null => state'.serial <= issued'
    BY <1>1, <1>5 DEF Inv, TypeOK, State, Mats
  <2>5. issued' \in 0..MaxMat
    BY <1>1 DEF Mats
  <2> QED BY <1>5, <2>1, <2>2, <2>3, <2>4, <2>5 DEF Inv, TypeOK
<1>7. PassInv'
  BY <1>1, <1>5 DEF Inv, PassInv
<1>8. StateInv' /\ FilesInv' /\ LoadedTogether'
  BY <1>5 DEF Inv, StateInv, Untouched, FilesInv, HalfWritten, LoadedTogether
<1>9. RecordInv'
  <2>1. \A x, v, m : Known(x, v, m) => Known(x, v, m)'
    BY <1>4 DEF Known
  <2>2. \A x \in DOMAIN server : \A v :
           (server[x].until = v \/ v \in server[x].before)
             => (server'[x].until = v \/ v \in server'[x].before)
    BY <1>4
  <2>3. repeated' = (repeated \/ u \in before)
    BY Zenon DEF Issue
  <2>4. ~repeated' => \A x \in DOMAIN server' : server'[x].until \notin server'[x].before
    <3> SUFFICES ASSUME ~repeated', NEW x \in DOMAIN server'
                 PROVE  server'[x].until \notin server'[x].before
      OBVIOUS
    <3>1. ~repeated /\ u \notin before
      BY <2>3
    <3>2. CASE x = c
      BY <1>4, <3>1, <3>2
    <3>3. CASE x # c
      BY <1>4, <3>1, <3>3 DEF Inv, RecordInv
    <3> QED BY <3>2, <3>3
  <2>5. \A x \in DOMAIN server' : server'[x].mat \in 1..issued'
    BY <1>1, <1>4 DEF Inv, RecordInv
  <2> QED BY <1>4, <1>5, <2>1, <2>2, <2>4, <2>5 DEF Inv, RecordInv
<1> QED BY <1>6, <1>7, <1>8, <1>9 DEF Inv

LEMMA RevokeInv ==
    ASSUME Inv, NEW c \in CertIds, Revoke(c)
    PROVE  Inv'
<1>1. UNCHANGED <<pinned, issued, repeated, pc, reg, files, state, loaded, fails, dirty, missed, torn>>
  BY DEF Revoke, agentVars, marks
<1>2. /\ DOMAIN server' = DOMAIN server
      /\ \A x \in DOMAIN server : /\ server'[x] \in Row
                                  /\ server'[x].until = server[x].until
                                  /\ server'[x].before = server[x].before
                                  /\ server'[x].mat = server[x].mat
  BY DEF Revoke, Inv, TypeOK, Row
<1>3. TypeOK'
  BY <1>1, <1>2 DEF Inv, TypeOK
<1>4. PassInv' /\ StateInv' /\ FilesInv' /\ LoadedTogether'
  BY <1>1 DEF Inv, PassInv, StateInv, Untouched, FilesInv, HalfWritten, LoadedTogether
<1>5. RecordInv'
  BY <1>1, <1>2 DEF Inv, RecordInv, Known
<1> QED BY <1>3, <1>4, <1>5 DEF Inv

----------------------------------------------------------------------------
(* A pass.                                                                  *)

LEMMA ListAndSelectInv ==
    ASSUME Inv, NEW c \in CertIds, ListAndSelect(c)
    PROVE  Inv'
<1>1. UNCHANGED <<pinned, server, issued, repeated, files, state, loaded, fails, dirty, missed, torn>>
  BY DEF ListAndSelect, serverVars, marks
<1>2. /\ c \in DOMAIN server /\ server[c] \in Row
      /\ pc = "idle" /\ pc' = "password"
      /\ reg' = [NoReg EXCEPT !.id = c, !.until = server[c].until]
  BY DEF Inv, TypeOK, ListAndSelect, IsSelected, Usable
<1>3. reg' \in Reg /\ reg'.id = c /\ reg'.until = server[c].until /\ reg'.next = 1
  BY <1>2, NoRegType DEF Reg, NoReg, Row
<1>4. TypeOK'
  BY <1>1, <1>2, <1>3 DEF Inv, TypeOK, Labels
<1>5. PassInv' /\ StateInv' /\ FilesInv' /\ LoadedTogether'
  BY <1>1, <1>2, <1>3 DEF Inv, PassInv, StateInv, Untouched, FilesInv, HalfWritten, LoadedTogether
<1>6. RecordInv'
  BY <1>1, <1>2, <1>3 DEF Inv, RecordInv, Known
<1> QED BY <1>4, <1>5, <1>6 DEF Inv

LEMMA PasswordInv ==
    ASSUME Inv, Password
    PROVE  Inv'
<1>1. UNCHANGED <<pinned, server, issued, repeated, files, state, loaded, fails, dirty, missed, torn>>
  BY DEF Password, serverVars, marks
<1>2. pc = "password" /\ pc' = "download" /\ server[reg.id] \in Row
  BY DEF Password, Inv, TypeOK
<1>3. reg' \in Reg /\ reg'.id = reg.id /\ reg'.until = reg.until /\ reg'.next = reg.next
  BY <1>2 DEF Password, Inv, TypeOK, Reg, Row
<1>4. TypeOK'
  BY <1>1, <1>2, <1>3 DEF Inv, TypeOK, Labels
<1>5. PassInv' /\ StateInv' /\ FilesInv' /\ LoadedTogether'
  BY <1>1, <1>2, <1>3 DEF Inv, PassInv, StateInv, Untouched, FilesInv, HalfWritten, LoadedTogether
<1>6. RecordInv'
  BY <1>1, <1>2, <1>3 DEF Inv, RecordInv, Known
<1> QED BY <1>4, <1>5, <1>6 DEF Inv

LEMMA DownloadInv ==
    ASSUME Inv, Download
    PROVE  Inv'
<1>1. UNCHANGED <<pinned, server, issued, repeated, files, state, loaded, fails, dirty, missed, torn>>
  BY DEF Download, serverVars, marks
<1>2. /\ pc = "download" /\ pc' = "decode"
      /\ reg.id \in DOMAIN server /\ server[reg.id] \in Row
  BY DEF Download, Inv, TypeOK
<1>3. /\ reg' \in Reg /\ reg'.id = reg.id /\ reg'.until = reg.until
      /\ reg'.mat = server[reg.id].mat /\ reg'.next = reg.next
  BY <1>2 DEF Download, Inv, TypeOK, Reg, Row
<1>4. TypeOK'
  BY <1>1, <1>2, <1>3 DEF Inv, TypeOK, Labels
<1>5. PassInv'
  BY <1>1, <1>2, <1>3 DEF Inv, PassInv, RecordInv
<1>6. StateInv' /\ FilesInv' /\ LoadedTogether'
  BY <1>1, <1>2 DEF Inv, StateInv, Untouched, FilesInv, HalfWritten, LoadedTogether
<1>7. RecordInv'
  BY <1>1, <1>2, <1>3 DEF Inv, RecordInv, Known
<1> QED BY <1>4, <1>5, <1>6, <1>7 DEF Inv

LEMMA DecodeInv ==
    ASSUME Inv, Decode
    PROVE  Inv'
<1>1. UNCHANGED <<pinned, server, issued, repeated, files, state, loaded, fails, dirty, missed, torn>>
  BY DEF Decode, serverVars, marks
<1>2. /\ pc = "decode"
      /\ pc' = IF Changed(reg.mat) THEN "write" ELSE "save"
      /\ reg' = [reg EXCEPT !.changed = Changed(reg.mat)]
  BY DEF Decode
<1>3. Changed(reg.mat) \in BOOLEAN
  BY DEF Changed
<1>4. /\ reg' \in Reg /\ reg'.id = reg.id /\ reg'.until = reg.until
      /\ reg'.mat = reg.mat /\ reg'.next = reg.next /\ reg'.changed = Changed(reg.mat)
  BY <1>2, <1>3 DEF Inv, TypeOK, Reg
<1>5. TypeOK'
  BY <1>1, <1>2, <1>4 DEF Inv, TypeOK, Labels
<1>6. reg'.next = 1
  BY <1>2, <1>4 DEF Inv, PassInv
<1>7. PassInv' /\ StateInv' /\ FilesInv' /\ LoadedTogether'
  <2>1. CASE Changed(reg.mat)
    BY <1>1, <1>2, <1>4, <1>6, <2>1 DEF Inv, PassInv, StateInv, Untouched, FilesInv, HalfWritten, LoadedTogether
  <2>2. CASE ~Changed(reg.mat)
    BY <1>1, <1>2, <1>4, <1>6, <2>2
       DEF Inv, PassInv, StateInv, Untouched, FilesInv, HalfWritten, LoadedTogether, Changed
  <2> QED BY <2>1, <2>2
<1>8. RecordInv'
  BY <1>1, <1>2, <1>4 DEF Inv, RecordInv, Known
<1> QED BY <1>5, <1>7, <1>8 DEF Inv

LEMMA WriteFileInv ==
    ASSUME Inv, WriteFile
    PROVE  Inv'
<1>1. UNCHANGED <<pinned, server, issued, repeated, state, loaded, fails, dirty, missed, torn>>
  BY DEF WriteFile, serverVars, marks
<1>2. /\ pc = "write" /\ reg.mat \in 1..issued /\ reg.changed
      /\ reg.next \in 1..Len(Layout) /\ Layout[reg.next] \in Files
  BY LayoutFacts DEF WriteFile, Inv, PassInv, TypeOK, Reg
<1>3. /\ files' \in [Files -> 1..issued' \cup {Null}]
      /\ files'[Layout[reg.next]] = reg.mat
      /\ \A f \in Files : files[f] = reg.mat => files'[f] = reg.mat
  BY <1>1, <1>2 DEF WriteFile, Inv, TypeOK
<1>4. /\ reg' \in Reg /\ reg'.id = reg.id /\ reg'.until = reg.until /\ reg'.mat = reg.mat
      /\ reg'.changed = reg.changed
      /\ \/ reg'.next = reg.next /\ reg.next = Len(Layout) /\ pc' = "save"
         \/ reg'.next = reg.next + 1 /\ reg.next < Len(Layout) /\ pc' = "write"
  <2>1. reg \in Reg
    BY DEF Inv, TypeOK
  <2>2. CASE LastFile
    BY <1>2, <2>1, <2>2 DEF WriteFile, LastFile
  <2>3. CASE ~LastFile
    <3>1. reg.next + 1 \in 1..Len(Layout) /\ reg.next < Len(Layout)
      BY <1>2, <2>3, LayoutFacts DEF LastFile
    <3>2. pc' = "write" /\ reg' = [reg EXCEPT !.next = reg.next + 1]
      BY <2>3 DEF WriteFile
    <3> QED BY <2>1, <3>1, <3>2 DEF Reg
  <2> QED BY <2>2, <2>3
<1>5. TypeOK'
  BY <1>1, <1>3, <1>4 DEF Inv, TypeOK, Labels
<1>6. \A i \in 1..Len(Layout) : i <= reg.next => files'[Layout[i]] = reg.mat
  <2> SUFFICES ASSUME NEW i \in 1..Len(Layout), i <= reg.next
               PROVE  files'[Layout[i]] = reg.mat
    OBVIOUS
  <2>1. CASE i = reg.next
    BY <1>3, <2>1
  <2>2. CASE i # reg.next
    <3>1. i < reg.next
      BY <1>2, <2>2, LayoutFacts
    <3>2. files[Layout[i]] = reg.mat
      BY <1>2, <3>1 DEF Inv, PassInv
    <3> QED BY <1>3, <3>2, LayoutFacts
  <2> QED BY <2>1, <2>2
<1>7. PassInv'
  <2>1. CASE pc' = "save"
    <3>1. \A f \in Files : files'[f] = reg.mat
      BY <1>4, <1>6, <2>1, LayoutFacts
    <3> QED BY <1>1, <1>2, <1>4, <2>1, <3>1 DEF PassInv
  <2>2. CASE pc' = "write"
    <3>1. \A i \in 1..Len(Layout) : i < reg'.next => files'[Layout[i]] = reg.mat
      BY <1>2, <1>4, <1>6, <2>2, LayoutFacts
    <3> QED BY <1>1, <1>2, <1>4, <2>2, <3>1 DEF PassInv
  <2> QED BY <1>4, <2>1, <2>2
<1>8. StateInv' /\ FilesInv' /\ LoadedTogether'
  <2>1. ~Untouched'
    BY <1>2, <1>4, LayoutFacts DEF Untouched, HalfWritten
  <2>2. pc # "reload" /\ pc' # "reload"
    BY <1>2, <1>4
  <2>3. FilesInv'
    <3>1. CASE pc' = "write"
      BY <1>2, <1>4, <3>1, LayoutFacts DEF FilesInv, HalfWritten
    <3>2. CASE pc' = "save"
      BY <1>2, <1>4, <1>7, <3>2 DEF FilesInv, PassInv
    <3> QED BY <1>4, <3>1, <3>2
  <2> QED BY <1>1, <2>1, <2>2, <2>3 DEF Inv, StateInv, LoadedTogether
<1>9. RecordInv'
  BY <1>1, <1>2, <1>4 DEF Inv, RecordInv, Known
<1> QED BY <1>5, <1>7, <1>8, <1>9 DEF Inv

LEMMA SaveStateInv ==
    ASSUME Inv, SaveState
    PROVE  Inv'
<1>1. UNCHANGED <<pinned, server, issued, repeated, files, loaded, fails, missed, torn>>
  BY DEF SaveState, serverVars, marks
<1>2. /\ pc = "save" /\ reg \in Reg /\ reg.mat \in 1..issued
      /\ reg.id \in DOMAIN server /\ Known(reg.id, reg.until, reg.mat)
  BY DEF SaveState, Inv, TypeOK, PassInv, RecordInv
<1>3. reg.until \in Untils /\ reg.id \in CertIds /\ reg.mat \in Mats
  <2>1. server[reg.id] \in Row /\ reg.id \in CertIds /\ issued \in 0..MaxMat
    BY <1>2 DEF Inv, TypeOK
  <2>2. reg.until \in Untils
    BY <1>2, <2>1 DEF Known, Row
  <2>3. reg.mat \in Mats
    BY <1>2, <2>1, ReconcileAssumption DEF Mats
  <2> QED BY <2>1, <2>2, <2>3
<1>4. state' \in State /\ state'.id = reg.id /\ state'.serial = reg.mat /\ state'.until = reg.until
  BY <1>3 DEF SaveState, RecordedUntil, State
<1>5. dirty' = (dirty /\ ~reg.changed)
  BY Zenon DEF SaveState
<1>6. \/ reg.changed /\ pc' = "reload" /\ reg' = reg
      \/ ~reg.changed /\ pc' = "idle" /\ reg' = NoReg
  BY DEF SaveState, ReloadNext
<1>7. TypeOK'
  <2>1. dirty' \in BOOLEAN
    BY <1>5
  <2>2. state'.serial <= issued'
    BY <1>1, <1>2, <1>4 DEF Inv, TypeOK
  <2> QED BY <1>1, <1>2, <1>4, <1>6, <2>1, <2>2, NoRegType DEF Inv, TypeOK, Labels
<1>8. PassInv'
  BY <1>1, <1>2, <1>4, <1>6 DEF Inv, PassInv
<1>9. StateInv' /\ FilesInv' /\ LoadedTogether'
  <2>1. CASE reg.changed
    BY <1>1, <1>2, <1>4, <1>6, <2>1 DEF Inv, PassInv, StateInv, Untouched, FilesInv, HalfWritten, LoadedTogether
  <2>2. CASE ~reg.changed
    <3>1. state # Null /\ state.serial = reg.mat
      BY <1>2, <2>2 DEF Inv, PassInv
    <3>2. ~dirty' => ~dirty
      BY <1>5, <2>2
    <3> QED BY <1>1, <1>2, <1>4, <1>6, <2>2, <3>1, <3>2
            DEF Inv, StateInv, Untouched, FilesInv, HalfWritten, LoadedTogether
  <2> QED BY <2>1, <2>2
<1>10. RecordInv'
  BY <1>1, <1>2, <1>4, <1>6 DEF Inv, RecordInv, Known
<1> QED BY <1>7, <1>8, <1>9, <1>10 DEF Inv

LEMMA ReloadInv ==
    ASSUME Inv, Reload
    PROVE  Inv'
<1>1. /\ pc = "reload" /\ pc' = "idle" /\ reg' = NoReg /\ loaded' = files /\ ~missed' /\ ~torn'
      /\ UNCHANGED <<pinned, server, issued, repeated, files, state, fails, dirty>>
  BY DEF Reload, serverVars, marks
<1>2. \A f \in Files : files[f] = reg.mat
  BY <1>1 DEF Inv, PassInv
<1>3. TypeOK'
  <2>1. missed' \in BOOLEAN /\ torn' \in BOOLEAN
    BY DEF Reload
  <2> QED BY <1>1, <2>1, NoRegType DEF Inv, TypeOK, Labels
<1>4. PassInv'
  BY <1>1 DEF PassInv
<1>5. StateInv' /\ FilesInv' /\ LoadedTogether'
  BY <1>1, <1>2 DEF Inv, PassInv, StateInv, Untouched, FilesInv, HalfWritten, LoadedTogether
<1>6. RecordInv'
  BY <1>1 DEF Inv, RecordInv, Known
<1> QED BY <1>3, <1>4, <1>5, <1>6 DEF Inv

LEMMA RunReloadInv ==
    ASSUME Inv, RunReload
    PROVE  Inv'
<1>1. /\ loaded' = files /\ ~missed'
      /\ UNCHANGED <<pinned, server, issued, repeated, pc, reg, files, state, dirty>>
  BY DEF RunReload, serverVars
<1>2. torn' = (dirty \/ HalfWritten)
  BY Zenon DEF RunReload
<1>3. TypeOK'
  <2>1. missed' \in BOOLEAN /\ torn' \in BOOLEAN
    BY <1>2 DEF RunReload, HalfWritten, Inv, TypeOK
  <2>2. fails' \in 0..MaxFail
    BY ReconcileAssumption DEF RunReload, Inv, TypeOK
  <2> QED BY <1>1, <2>1, <2>2 DEF Inv, TypeOK
<1>4. PassInv' /\ FilesInv'
  BY <1>1 DEF Inv, PassInv, FilesInv, HalfWritten
<1>5. StateInv'
  BY <1>1 DEF Inv, StateInv, Untouched, HalfWritten
<1>6. LoadedTogether'
  <2>1. CASE dirty \/ HalfWritten
    BY <1>2, <2>1 DEF LoadedTogether
  <2>2. CASE ~(dirty \/ HalfWritten)
    BY <1>1, <2>2 DEF Inv, FilesInv, LoadedTogether
  <2> QED BY <2>1, <2>2
<1>7. RecordInv'
  BY <1>1 DEF Inv, RecordInv, Known
<1> QED BY <1>3, <1>4, <1>5, <1>6, <1>7 DEF Inv

LEMMA UnchangedInv ==
    ASSUME Inv, UNCHANGED vars
    PROVE  Inv'
BY DEF vars, marks, Inv, TypeOK, PassInv, StateInv, Untouched, FilesInv, HalfWritten, LoadedTogether, RecordInv, Known

LEMMA NextInv ==
    ASSUME Inv, [Next]_vars
    PROVE  Inv'
<1>1. CASE Pass
  <2>1. CASE DecodeFails
    BY <2>1, EndPassInv DEF DecodeFails, Inv, TypeOK
  <2> QED BY <1>1, <2>1, ListAndSelectInv, PasswordInv, DownloadInv, DecodeInv, WriteFileInv,
             SaveStateInv, ReloadInv DEF Pass
<1>2. CASE Fail
  <2>1. fails' \in 0..MaxFail
    BY <1>2, ReconcileAssumption DEF Fail, Inv, TypeOK
  <2> QED BY <1>2, <2>1, EndPassInv DEF Fail
<1>3. CASE NothingToDo
  BY <1>3, UnchangedInv DEF NothingToDo
<1>4. CASE \E c \in CertIds : \/ \E u \in Untils, b \in BOOLEAN : Issue(c, u, b)
                              \/ Revoke(c)
  BY <1>4, IssueInv, RevokeInv
<1>5. CASE UNCHANGED vars
  BY <1>5, UnchangedInv
<1>6. CASE RunReload
  BY <1>6, RunReloadInv
<1> QED BY <1>1, <1>2, <1>3, <1>4, <1>5, <1>6 DEF Next

----------------------------------------------------------------------------
\* The invariant of a pass of Reconciler.Domain, with any number of files in the
\* target and any number of failed and killed passes.
THEOREM ReconcileCorrect == Spec => []Inv
<1>1. Init => Inv
  BY InitInv
<1>2. Inv /\ [Next]_vars => Inv'
  BY NextInv
<1> QED BY <1>1, <1>2, PTL DEF Spec

\* The service never runs with a certificate and the key of another, wherever
\* earlier passes were cut off, unless runReload or another domain's pass reloads
\* it while this one's files are half written.
THEOREM NeverAMixedPair == Spec => []LoadedTogether
<1>1. Inv => LoadedTogether
  BY DEF Inv
<1> QED BY <1>1, ReconcileCorrect, PTL

\* Between passes the service runs with the serial of the state file, unless a
\* reload failed or a pass was cut off while it wrote.
THEOREM ServiceFollowsState == Spec => []ServiceIsCurrent
<1>1. Inv => ServiceIsCurrent
  BY DEF Inv, StateInv, Untouched, HalfWritten, ServiceIsCurrent
<1> QED BY <1>1, ReconcileCorrect, PTL

\* What the cheap skip of Domain takes for deployed is deployed: the files hold the
\* server's certificate, however the server changed between the three requests of
\* a pass, unless an expiry came back or a pass was cut off while it wrote.
THEOREM SkippedIsDeployed == Spec => []DeployedIsCurrent
<1>1. ASSUME Inv
      PROVE  DeployedIsCurrent
  <2> SUFFICES ASSUME NEW c \in CertIds, pc = "idle", IsSelected(c), RecordedAs(c),
                      ~repeated, ~dirty, NEW f \in Files
               PROVE  files[f] = server[c].mat
    BY DEF DeployedIsCurrent
  <2>1. state # Null /\ state.id = c /\ state.until = server[c].until /\ c \in DOMAIN server
    BY DEF RecordedAs, IsSelected, Usable
  <2>2. files[f] = state.serial
    BY <1>1, <2>1 DEF Inv, StateInv, Untouched, HalfWritten
  <2>3. server[c].until \notin server[c].before
    BY <1>1, <2>1 DEF Inv, RecordInv
  <2>4. server[c].mat = state.serial
    BY <1>1, <2>1, <2>3 DEF Inv, RecordInv, Known
  <2> QED BY <2>2, <2>4
<1> QED BY <1>1, ReconcileCorrect, PTL

=============================================================================
