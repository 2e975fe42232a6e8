--------------------------- MODULE SessionsProofs ---------------------------
(***************************************************************************)
(* What survives kills and restarts: the rows that requests were answered    *)
(* for, and the signing key.  Only the steps of Startup touch either, so that *)
(* invariant speaks of startupVars alone.  What a session token is good for:  *)
(* a second invariant follows the line of tokens of a login through the three *)
(* locks of a request, for any number of parallel requests.                   *)
(***************************************************************************)
EXTENDS Sessions, FiniteSetTheorems, TLAPS

\* Where the answered rows are, from one durable step of the migration to the next.
RowsSafe ==
    /\ stored \subseteq db.rows \cup temp.rows
    /\ ~cut /\ phase # "rename" => stored \subseteq db.rows
    /\ db.kind = "absent" => db.rows = {}
    /\ temp.kind \in {"absent", "partial"} => temp.rows = {}
    /\ phase \in {"up", "put"} => db.kind # "absent"
    /\ phase = "copy" => temp.kind = "partial"
    /\ phase = "remove" => temp.rows = db.rows
    /\ phase = "rename" => stored \subseteq temp.rows

\* Where the signing key is, from one write of the settings to the next.
KeySafe ==
    /\ phase \notin {"down", "load"} =>
         file.state # "absent" /\ (file.state = "ok" => file.body.key = mem.key)
    /\ firstKey # 0 =>
         /\ file.state # "absent"
         /\ file.state = "ok" => file.body.key = firstKey
         /\ phase # "down" => mem.key = firstKey
    /\ phase \in {"up", "put"} => mem.key = firstKey

StartupInv == StartupTypeOK /\ RowsSafe /\ KeySafe

LEMMA StartupInvInit ==
    ASSUME StartupInit
    PROVE  StartupInv
<1>1. NoSettings \in Settings /\ NoDatabase \in Database
      /\ NoDatabase.kind = "absent" /\ NoDatabase.rows = {}
  BY StartupAssumption DEF NoSettings, Settings, NoDatabase, Database
<1>2. file \in SettingsFile /\ file.state = "absent"
  BY <1>1 DEF StartupInit, SettingsFile
<1>3. StartupTypeOK
  <2>1. 0 \in 0..MaxKey
    BY StartupAssumption
  <2> QED BY <1>1, <1>2, <2>1 DEF StartupInit, StartupTypeOK, Phases
<1>4. RowsSafe
  BY <1>1 DEF StartupInit, RowsSafe
<1>5. KeySafe
  BY DEF StartupInit, KeySafe
<1> QED BY <1>3, <1>4, <1>5 DEF StartupInv

\* What a start that gives up leaves behind.
LEMMA DownInv ==
    ASSUME StartupInv, phase' = "down", mem' = NoSettings, cut' = (cut \/ phase = "rename"),
           UNCHANGED <<secret, file, db, temp, keys, stored, firstKey>>
    PROVE  StartupInv'
<1>1. StartupTypeOK'
  BY StartupAssumption DEF StartupInv, StartupTypeOK, Phases, Settings, NoSettings
<1>2. RowsSafe'
  BY DEF StartupInv, RowsSafe
<1>3. KeySafe'
  BY DEF StartupInv, KeySafe
<1> QED BY <1>1, <1>2, <1>3 DEF StartupInv

LEMMA PanicInv ==
    ASSUME StartupInv, Panic, phase # "rename"
    PROVE  StartupInv'
BY DownInv DEF Panic, StartupInv, StartupTypeOK

LEMMA LoadSettingsInv ==
    ASSUME StartupInv, LoadSettings
    PROVE  StartupInv'
<1>1. mem' \in Settings /\ keys' \in 0..MaxKey
  <2>1. keys \in 0..MaxKey /\ file \in SettingsFile
    BY DEF StartupInv, StartupTypeOK
  <2>2. CASE file.state = "ok"
    BY <2>1, <2>2 DEF LoadSettings, SettingsFile
  <2>3. CASE file.state # "ok"
    <3>1. keys + 1 \in 0..MaxKey
      BY <2>1, <2>3, StartupAssumption DEF LoadSettings
    <3>2. mem' = [enc |-> FALSE, key |-> keys + 1] /\ keys' = keys + 1
      BY <2>3 DEF LoadSettings
    <3>3. [enc |-> FALSE, key |-> keys + 1] \in Settings
      BY <3>1 DEF Settings
    <3> QED BY <3>1, <3>2, <3>3
  <2> QED BY <2>2, <2>3
<1>2. StartupTypeOK'
  BY <1>1 DEF LoadSettings, StartupInv, StartupTypeOK, Phases
<1>3. RowsSafe'
  BY DEF LoadSettings, StartupInv, RowsSafe
<1>4. KeySafe'
  BY DEF LoadSettings, StartupInv, StartupTypeOK, SettingsFile, KeySafe
<1> QED BY <1>2, <1>3, <1>4 DEF StartupInv

LEMMA SaveOpenInv ==
    ASSUME StartupInv, SaveOpen
    PROVE  StartupInv'
<1>1. file' \in SettingsFile /\ file'.state = "torn"
  BY DEF SaveOpen, StartupInv, StartupTypeOK, SettingsFile
<1>2. StartupTypeOK'
  BY <1>1 DEF SaveOpen, StartupInv, StartupTypeOK
<1>3. RowsSafe'
  BY DEF SaveOpen, StartupInv, RowsSafe
<1>4. KeySafe'
  BY <1>1 DEF SaveOpen, StartupInv, KeySafe
<1> QED BY <1>2, <1>3, <1>4 DEF StartupInv

LEMMA SaveWriteInv ==
    ASSUME StartupInv, SaveWrite
    PROVE  StartupInv'
<1>1. /\ file' \in SettingsFile /\ file'.state = "ok" /\ file'.body.key = mem.key
      /\ phase' \in {"branch", "open", "up"} /\ phase \in {"load", "mark", "put"}
      /\ phase' = "up" => phase = "put"
  BY DEF SaveWrite, Saving, AfterSave, StartupInv, StartupTypeOK, SettingsFile
<1>2. StartupTypeOK'
  BY <1>1 DEF SaveWrite, StartupInv, StartupTypeOK, Phases
<1>3. RowsSafe'
  BY <1>1 DEF SaveWrite, StartupInv, RowsSafe
<1>4. KeySafe'
  BY <1>1 DEF SaveWrite, StartupInv, KeySafe
<1> QED BY <1>2, <1>3, <1>4 DEF StartupInv

\* The steps that change the phase and at most the mark in memory.
LEMMA PhaseInv ==
    ASSUME StartupInv, phase \notin {"down", "load", "rename"},
           NEW ph \in {"export", "mark", "open", "put"},
           phase' = ph, ph = "put" => phase = "up",
           mem' \in Settings, mem'.key = mem.key,
           UNCHANGED <<secret, file, db, temp, keys, stored, firstKey, cut>>
    PROVE  StartupInv'
<1>1. StartupTypeOK'
  BY DEF StartupInv, StartupTypeOK, Phases
<1>2. RowsSafe'
  BY DEF StartupInv, RowsSafe
<1>3. KeySafe'
  BY DEF StartupInv, KeySafe
<1> QED BY <1>1, <1>2, <1>3 DEF StartupInv

LEMMA MarkedSettings ==
    ASSUME StartupInv
    PROVE  /\ mem \in Settings
           /\ [mem EXCEPT !.enc = TRUE] \in Settings
           /\ [mem EXCEPT !.enc = TRUE].key = mem.key
BY DEF StartupInv, StartupTypeOK, Settings

LEMMA BranchInv ==
    ASSUME StartupInv, Branch \/ PutSettings
    PROVE  StartupInv'
BY PhaseInv, MarkedSettings DEF Branch, PutSettings

LEMMA CreateEncryptDbInv ==
    ASSUME StartupInv, CreateEncryptDb
    PROVE  StartupInv'
<1>1. CASE Panic
  BY <1>1, PanicInv DEF CreateEncryptDb
<1>2. CASE ~Panic
  <2>1. temp' \in Database /\ temp'.kind = "partial" /\ temp'.rows = {} /\ temp.rows = {}
    BY <1>2 DEF CreateEncryptDb, Database, StartupInv, RowsSafe
  <2>2. StartupTypeOK'
    BY <1>2, <2>1 DEF CreateEncryptDb, StartupInv, StartupTypeOK, Phases
  <2>3. RowsSafe'
    BY <1>2, <2>1 DEF CreateEncryptDb, StartupInv, RowsSafe
  <2>4. KeySafe'
    BY <1>2 DEF CreateEncryptDb, StartupInv, KeySafe
  <2> QED BY <2>2, <2>3, <2>4 DEF StartupInv
<1> QED BY <1>1, <1>2

LEMMA ExportDoneInv ==
    ASSUME StartupInv, ExportDone
    PROVE  StartupInv'
<1>1. temp' \in Database /\ temp'.kind = "enc" /\ temp'.rows = db.rows
  BY DEF ExportDone, StartupInv, StartupTypeOK, Database
<1>2. StartupTypeOK'
  BY <1>1 DEF ExportDone, StartupInv, StartupTypeOK, Phases
<1>3. RowsSafe'
  BY <1>1 DEF ExportDone, StartupInv, RowsSafe
<1>4. KeySafe'
  BY DEF ExportDone, StartupInv, KeySafe
<1> QED BY <1>2, <1>3, <1>4 DEF StartupInv

LEMMA RemoveOldInv ==
    ASSUME StartupInv, RemoveOld
    PROVE  StartupInv'
<1>1. db' \in Database /\ db'.kind = "absent" /\ db'.rows = {}
  BY DEF RemoveOld, NoDatabase, Database
<1>2. StartupTypeOK'
  BY <1>1 DEF RemoveOld, StartupInv, StartupTypeOK, Phases
<1>3. RowsSafe'
  BY <1>1 DEF RemoveOld, StartupInv, RowsSafe
<1>4. KeySafe'
  BY DEF RemoveOld, StartupInv, KeySafe
<1> QED BY <1>2, <1>3, <1>4 DEF StartupInv

LEMMA RenameCopyInv ==
    ASSUME StartupInv, RenameCopy
    PROVE  StartupInv'
<1>1. temp' \in Database /\ temp'.kind = "absent" /\ temp'.rows = {}
  BY DEF RenameCopy, NoDatabase, Database
<1>2. StartupTypeOK'
  BY <1>1, MarkedSettings DEF RenameCopy, StartupInv, StartupTypeOK, Phases
<1>3. RowsSafe'
  BY <1>1 DEF RenameCopy, StartupInv, RowsSafe
<1>4. KeySafe'
  BY MarkedSettings DEF RenameCopy, StartupInv, KeySafe
<1> QED BY <1>2, <1>3, <1>4 DEF StartupInv

LEMMA OpenDatabaseInv ==
    ASSUME StartupInv, OpenDatabase
    PROVE  StartupInv'
<1>1. CASE Panic
  BY <1>1, PanicInv DEF OpenDatabase
<1>2. CASE ~Panic
  <2>1. db' \in Database /\ db'.kind \in {"plain", "enc"} /\ db'.rows = db.rows
    BY <1>2 DEF OpenDatabase, StartupInv, StartupTypeOK, Database
  <2>2. firstKey' \in 0..MaxKey
    BY <1>2 DEF OpenDatabase, StartupInv, StartupTypeOK, Settings
  <2>3. StartupTypeOK'
    BY <1>2, <2>1, <2>2 DEF OpenDatabase, StartupInv, StartupTypeOK, Phases
  <2>4. RowsSafe'
    BY <1>2, <2>1 DEF OpenDatabase, StartupInv, RowsSafe
  <2>5. KeySafe'
    BY <1>2 DEF OpenDatabase, StartupInv, KeySafe
  <2> QED BY <2>3, <2>4, <2>5 DEF StartupInv
<1> QED BY <1>1, <1>2

LEMMA StoreInv ==
    ASSUME StartupInv, NEW r \in Rows, Store(r)
    PROVE  StartupInv'
<1>1. db' \in Database /\ db'.kind = db.kind /\ db'.rows = db.rows \cup {r}
  BY DEF Store, StartupInv, StartupTypeOK, Database
<1>2. StartupTypeOK'
  BY <1>1 DEF Store, StartupInv, StartupTypeOK
<1>3. RowsSafe'
  BY <1>1 DEF Store, StartupInv, RowsSafe
<1>4. KeySafe'
  BY DEF Store, StartupInv, KeySafe
<1> QED BY <1>2, <1>3, <1>4 DEF StartupInv

LEMMA ConfigureInv ==
    ASSUME StartupInv, Configure
    PROVE  StartupInv'
BY DEF Configure, StartupInv, StartupTypeOK, RowsSafe, KeySafe

LEMMA KillInv ==
    ASSUME StartupInv, Kill
    PROVE  StartupInv'
BY DownInv DEF Kill

LEMMA UnchangedInv ==
    ASSUME StartupInv, UNCHANGED startupVars
    PROVE  StartupInv'
BY DEF startupVars, StartupInv, StartupTypeOK, RowsSafe, KeySafe

LEMMA StartupInvStep ==
    ASSUME StartupInv, [Next]_vars
    PROVE  StartupInv'
<1>1. CASE StartupStep
  BY <1>1, LoadSettingsInv, SaveOpenInv, SaveWriteInv, BranchInv, CreateEncryptDbInv,
     ExportDoneInv, RemoveOldInv, RenameCopyInv, OpenDatabaseInv, ConfigureInv, StoreInv
     DEF StartupStep
<1>2. CASE UNCHANGED startupVars
  BY <1>2, UnchangedInv
<1>3. CASE KillServer
  BY <1>3, KillInv DEF KillServer
<1> QED BY <1>1, <1>2, <1>3 DEF Next, vars

\* The invariant of the durable state: of every step of create_rocket, of the
\* settings' writes and of kills, with any number of rows and keys.
THEOREM StartupCorrect == Spec => []StartupInv
<1>1. Init => StartupInv
  BY StartupInvInit DEF Init
<1>2. StartupInv /\ [Next]_vars => StartupInv'
  BY StartupInvStep
<1> QED BY <1>1, <1>2, PTL DEF Spec

\* Wherever the server is killed (also between remove_file and rename of
\* migrate_to_encrypted_db), every row it has answered for is on disk, and it
\* serves all of them unless a kill fell between those two.
THEOREM DataIsKept == Spec => []DataKept
<1>1. StartupInv => DataKept
  BY DEF StartupInv, RowsSafe, DataKept
<1> QED BY <1>1, StartupCorrect, PTL

\* Every server that comes up (load_from_file, over any number of kills in the
\* middle of save_to_file) has the signing key of the first one.
THEOREM KeyIsStable == Spec => []KeyStable
<1>1. StartupInv => KeyStable
  BY DEF StartupInv, KeySafe, KeyStable
<1> QED BY <1>1, StartupCorrect, PTL

----------------------------------------------------------------------------
(* The signing key is never 0, the value that stands for no key.             *)

KeyReal ==
    /\ phase # "down" => mem.key # 0
    /\ file.state = "ok" => file.body.key # 0

LEMMA KeyRealStep ==
    ASSUME StartupInv, KeyReal, [Next]_vars
    PROVE  KeyReal'
<1>0. mem \in Settings /\ file \in SettingsFile /\ keys \in 0..MaxKey
  BY DEF StartupInv, StartupTypeOK
<1>1. CASE LoadSettings
  <2>1. keys + 1 # 0
    BY <1>0
  <2> QED BY <1>1, <2>1 DEF LoadSettings, KeyReal
<1>2. CASE SaveOpen \/ SaveWrite
  BY <1>0, <1>2 DEF SaveOpen, SaveWrite, Saving, SettingsFile, KeyReal
<1>3. CASE Branch \/ PutSettings \/ RenameCopy
  BY <1>0, <1>3 DEF Branch, PutSettings, RenameCopy, Settings, KeyReal
<1>4. CASE CreateEncryptDb \/ OpenDatabase
  BY <1>4 DEF CreateEncryptDb, OpenDatabase, Panic, KeyReal
<1>5. CASE ExportDone \/ RemoveOld \/ Configure \/ \E r \in Rows : Store(r)
  BY <1>5 DEF ExportDone, RemoveOld, Configure, Store, KeyReal
<1>6. CASE UNCHANGED startupVars
  BY <1>6 DEF startupVars, KeyReal
<1>7. CASE KillServer
  BY <1>7 DEF KillServer, Kill, KeyReal
<1> QED BY <1>1, <1>2, <1>3, <1>4, <1>5, <1>6, <1>7 DEF Next, vars, StartupStep

----------------------------------------------------------------------------
(* Sessions.  The invariant follows the line of tokens of one login: each has *)
(* at most one successor unless the login is contested, a replaced one dies   *)
(* within its grace window, and one that the browser never got is never sent. *)

\* Tokens are numbered as they are minted.
Counted == \E n \in Nat : DOMAIN minted = 1..n

\* No request is older than Latency.
Clock ==
    \A p \in Clients :
        /\ pc[p] # "idle" => reg[p].sent <= now /\ now <= reg[p].sent + Latency
        /\ pc[p] \in {"renew", "shorten", "logout"} => reg[p].sent <= reg[p].at /\ reg[p].at <= now

\* What a request carries from one lock of the store to the next.
Carried ==
    \A p \in Clients :
        /\ pc[p] = "idle" => reg[p] = NoReg
        /\ reg[p].token \in DOMAIN minted \cup {Null}
        /\ pc[p] \in {"sent", "renew", "shorten", "logout"} => reg[p].token \in DOMAIN minted
        /\ pc[p] \in {"sent", "renew", "issue"} => reg[p].fresh = Null
        /\ pc[p] = "renew" => minted[reg[p].token].exp - reg[p].at < Threshold
        /\ pc[p] = "shorten" => reg[p].fresh # Null
        /\ pc[p] = "logout" => reg[p].op = "logout"

\* A successor on its way to the browser is known to nobody else.
FreshPrivate ==
    \A p \in Clients : reg[p].fresh # Null =>
        /\ reg[p].fresh \in DOMAIN minted
        /\ reg[p].fresh # jar
        /\ \A q \in Clients : /\ reg[q].token # reg[p].fresh
                              /\ q # p => reg[q].fresh # reg[p].fresh

\* Request p has registered the successor of t and not yet shortened t.
Shortening(p, t) == pc[p] = "shorten" /\ reg[p].token = t /\ reg[p].at = replaced[t]

ReplacedInv ==
    \A t \in DOMAIN replaced :
        /\ t \in DOMAIN minted
        /\ replaced[t] <= now
        /\ minted[t].exp - replaced[t] < Threshold
        /\ t \in DOMAIN store => \/ store[t] <= replaced[t] + Grace
                                 \/ \E p \in Clients : Shortening(p, t)

Rooted ==
    /\ \A t \in DOMAIN minted : Root(t) \in DOMAIN minted
    /\ DOMAIN ended \subseteq DOMAIN minted

\* The last token of a login is the only one without a successor.
OneLeaf ==
    \A t, u \in DOMAIN minted \ DOMAIN replaced :
        Root(t) = Root(u) /\ Root(t) \notin contested => t = u

\* A token that did not reach the browser is not sent by it.
GoneUnused ==
    \A t \in gone \cap DOMAIN store :
        t # jar /\ \A p \in Clients : reg[p].token # t /\ reg[p].fresh # t

\* A logout that got past the guard holds the last token of its login.
LogoutHoldsLeaf ==
    \A p \in Clients :
        pc[p] \in {"shorten", "logout"} /\ reg[p].op = "logout" /\ Root(reg[p].token) \notin contested
            => \/ reg[p].fresh = Null /\ reg[p].token \notin DOMAIN replaced
               \/ /\ reg[p].fresh # Null /\ reg[p].fresh \notin DOMAIN replaced
                  /\ reg[p].fresh \in DOMAIN minted
                  /\ Root(reg[p].fresh) = Root(reg[p].token)

Over(t) == Root(t) \in DOMAIN ended \ contested

\* After a logout the browser has replaced tokens only, in their grace window.
EndedInv ==
    /\ \A t \in DOMAIN minted \ gone : Over(t) /\ t \in DOMAIN store =>
           t \in DOMAIN replaced /\ store[t] <= ended[Root(t)] + Grace
    /\ \A p \in Clients : pc[p] = "renew" /\ Over(reg[p].token) => reg[p].token \in DOMAIN replaced

\* A service token was asked for before the revocation.
ServiceInv ==
    /\ account = "active" => revokedAt = Null
    /\ revokedAt # Null => revokedAt <= now
    /\ \A p \in Clients : pc[p] = "issue" /\ revokedAt # Null => reg[p].sent <= revokedAt
    /\ service # Null => service.exp <= now + TTL
    /\ service # Null /\ revokedAt # Null => service.exp <= revokedAt + Latency + TTL

TokenInv ==
    /\ SessionTypeOK /\ Counted /\ Clock /\ Carried /\ FreshPrivate /\ ReplacedInv /\ Rooted
    /\ OneLeaf /\ GoneUnused /\ LogoutHoldsLeaf /\ EndedInv /\ ServiceInv

LEMMA NumberFacts ==
    /\ TTL \in Nat /\ Threshold \in Nat /\ Grace \in Nat /\ Leeway \in Nat /\ Latency \in Nat
    /\ MaxTime \in Nat /\ MaxToken \in Nat /\ Grace > Latency
    /\ Times \subseteq Nat /\ Tokens \subseteq Nat /\ Null \notin Nat
BY SessionAssumption, StartupAssumption DEF Times, Tokens

LEMMA NoRegType == NoReg \in Reg
BY NumberFacts DEF NoReg, Reg, Times

LEMMA TokenInvInit ==
    ASSUME Init
    PROVE  TokenInv
<1>1. SessionTypeOK
  <2>1. 0 \in Times
    BY NumberFacts DEF Times
  <2>2. lapsed \in BOOLEAN
    BY DEF Init
  <2>3. Partial(store, Tokens, Nat) /\ Partial(minted, Tokens, Claims)
        /\ Partial(replaced, Tokens, Times) /\ Partial(ended, Tokens, Times)
    BY DEF Init, Partial, Empty
  <2> QED BY <2>1, <2>2, <2>3, NoRegType DEF Init, SessionTypeOK, Empty
<1>2. Counted
  <2>1. DOMAIN minted = 1..0
    BY DEF Init, Empty
  <2> QED BY <2>1 DEF Counted
<1>3. Clock /\ Carried /\ FreshPrivate
  BY DEF Init, Clock, Carried, FreshPrivate, NoReg
<1>4. ReplacedInv /\ Rooted /\ OneLeaf /\ GoneUnused
  BY DEF Init, Empty, ReplacedInv, Rooted, OneLeaf, GoneUnused
<1>5. LogoutHoldsLeaf /\ EndedInv
  BY DEF Init, Empty, LogoutHoldsLeaf, EndedInv
<1>6. ServiceInv
  BY DEF Init, ServiceInv
<1> QED BY <1>1, <1>2, <1>3, <1>4, <1>5, <1>6 DEF TokenInv

\* What a token minted by generate_token is, and what it leaves alone.
LEMMA MintFacts ==
    ASSUME TokenInv, NEW t, NEW root, GenerateToken(t, root)
    PROVE  /\ t \in Tokens /\ t \notin DOMAIN minted /\ Counted'
           /\ DOMAIN minted' = DOMAIN minted \cup {t}
           /\ minted'[t] = [root |-> root, exp |-> now + TTL, key |-> mem.key]
           /\ \A u \in DOMAIN minted : minted'[u] = minted[u]
           /\ t \in DOMAIN store' /\ store'[t] = now + TTL
           /\ \A u \in DOMAIN store' : u # t => u \in DOMAIN store /\ store'[u] = store[u]
<1>1. PICK n \in Nat : DOMAIN minted = 1..n
  BY DEF TokenInv, Counted
<1>2. Cardinality(1..n) = n
  BY FS_Interval
<1>3. t = n + 1
  BY <1>1, <1>2 DEF GenerateToken
<1>4. t \in Tokens /\ t \notin DOMAIN minted
  BY <1>1, <1>3 DEF GenerateToken
<1>5. /\ DOMAIN minted' = DOMAIN minted \cup {t}
      /\ minted'[t] = [root |-> root, exp |-> now + TTL, key |-> mem.key]
      /\ \A u \in DOMAIN minted : minted'[u] = minted[u]
  BY <1>4 DEF GenerateToken, Put
<1>6. Counted'
  <2>1. DOMAIN minted' = 1..(n + 1)
    BY <1>1, <1>3, <1>5
  <2> QED BY <2>1 DEF Counted
<1>7. /\ t \in DOMAIN store' /\ store'[t] = now + TTL
      /\ \A u \in DOMAIN store' : u # t => u \in DOMAIN store /\ store'[u] = store[u]
  BY DEF GenerateToken, RegisterJti, Put, Drop
<1> QED BY <1>4, <1>5, <1>6, <1>7

\* The request that moves, and the others.
LEMMA Moved ==
    ASSUME TokenInv, NEW p \in Clients, NEW l, NEW r, Goto(p, l, r)
    PROVE  /\ pc'[p] = l /\ reg'[p] = r
           /\ \A q \in Clients : q # p => pc'[q] = pc[q] /\ reg'[q] = reg[q]
           /\ l \in {"idle", "sent", "renew", "shorten", "logout", "reply", "issue"} /\ r \in Reg =>
                /\ pc' \in [Clients -> {"idle", "sent", "renew", "shorten", "logout", "reply", "issue"}]
                /\ reg' \in [Clients -> Reg]
BY DEF TokenInv, SessionTypeOK, Goto

LEMMA SendInv ==
    ASSUME TokenInv, NEW p \in Clients, NEW op \in {"get", "logout"}, Send(p, op)
    PROVE  TokenInv'
<1> DEFINE r == [NoReg EXCEPT !.op = op, !.token = jar, !.sent = now]
<1>1. UNCHANGED <<now, store, minted, jar, account, service, replaced, contested, ended, gone,
                  seen, lapsed, revokedAt>>
  BY DEF Send
<1>2. pc[p] = "idle" /\ jar \in DOMAIN minted /\ Goto(p, "sent", r)
  BY DEF Send, TokenInv, SessionTypeOK
<1>3. /\ r.op = op /\ r.token = jar /\ r.sent = now /\ r.fresh = Null /\ r.at = 0
      /\ r \in Reg
  BY <1>2, NoRegType DEF TokenInv, SessionTypeOK, Partial, NoReg, Reg
<1> HIDE DEF r
<1>4. /\ pc'[p] = "sent" /\ reg'[p] = r
      /\ \A q \in Clients : q # p => pc'[q] = pc[q] /\ reg'[q] = reg[q]
  BY <1>2, Moved
<1>5. SessionTypeOK'
  BY <1>1, <1>2, <1>3, Moved DEF TokenInv, SessionTypeOK, Partial
<1>6. Counted' /\ Rooted' /\ OneLeaf'
  BY <1>1 DEF TokenInv, Counted, Rooted, OneLeaf, Root
<1>7. Clock'
  <2>1. now \in Nat /\ Latency \in Nat
    BY NumberFacts DEF TokenInv, SessionTypeOK
  <2>2. now <= now /\ now <= now + Latency
    BY <2>1
  <2> QED BY <1>1, <1>3, <1>4, <2>2 DEF TokenInv, Clock
<1>8. Carried'
  BY <1>1, <1>2, <1>3, <1>4 DEF TokenInv, Carried
<1>9. FreshPrivate'
  BY <1>1, <1>3, <1>4 DEF TokenInv, FreshPrivate
<1>10. ReplacedInv'
  BY <1>1, <1>2, <1>4 DEF TokenInv, ReplacedInv, Shortening
<1>11. GoneUnused'
  <2>1. \A t \in gone : t # Null
    BY NumberFacts DEF TokenInv, SessionTypeOK, Partial
  <2> QED BY <1>1, <1>3, <1>4, <2>1 DEF TokenInv, GoneUnused
<1>12. LogoutHoldsLeaf' /\ EndedInv'
  BY <1>1, <1>4 DEF TokenInv, LogoutHoldsLeaf, EndedInv, Over, Root
<1>13. ServiceInv'
  BY <1>1, <1>4 DEF TokenInv, ServiceInv
<1> QED BY <1>5, <1>6, <1>7, <1>8, <1>9, <1>10, <1>11, <1>12, <1>13 DEF TokenInv

\* A request ends without a trace in the store: its successor, if any, is gone or
\* in the jar.
LEMMA DoneInv ==
    ASSUME TokenInv, NEW p \in Clients, Done(p), pc[p] \in {"sent", "reply"},
           jar' \in {jar, reg[p].fresh, Null}, reg[p].fresh = Null => jar' \in {jar, Null},
           gone' \in {gone, gone \cup ({reg[p].fresh} \ {Null})},
           gone' # gone => jar' = jar,
           UNCHANGED <<now, store, minted, account, service, replaced, contested, ended,
                       seen, lapsed, revokedAt>>
    PROVE  TokenInv'
<1>1. /\ pc'[p] = "idle" /\ reg'[p] = NoReg
      /\ \A q \in Clients : q # p => pc'[q] = pc[q] /\ reg'[q] = reg[q]
  BY Moved DEF Done
<1>2. NoReg.token = Null /\ NoReg.fresh = Null
  BY DEF NoReg
<1>3. /\ reg[p].fresh \in DOMAIN minted \cup {Null}
      /\ \A t \in DOMAIN minted : t # Null
  BY NumberFacts DEF TokenInv, SessionTypeOK, Partial, FreshPrivate
<1>4. SessionTypeOK'
  <2>1. jar' \in DOMAIN minted \cup {Null} /\ gone' \subseteq DOMAIN minted
    BY <1>3 DEF TokenInv, SessionTypeOK
  <2> QED BY <2>1, Moved, NoRegType DEF Done, TokenInv, SessionTypeOK, Partial
<1>5. Counted' /\ Rooted' /\ OneLeaf'
  BY DEF TokenInv, Counted, Rooted, OneLeaf, Root
<1>6. Clock'
  BY <1>1 DEF TokenInv, Clock
<1>7. Carried'
  BY <1>1, <1>2 DEF TokenInv, Carried
<1>8. FreshPrivate'
  <2> SUFFICES ASSUME NEW q \in Clients, reg'[q].fresh # Null
               PROVE  /\ reg'[q].fresh \in DOMAIN minted'
                      /\ reg'[q].fresh # jar'
                      /\ \A q2 \in Clients : /\ reg'[q2].token # reg'[q].fresh
                                             /\ q2 # q => reg'[q2].fresh # reg'[q].fresh
    BY DEF FreshPrivate
  <2>1. q # p /\ reg'[q] = reg[q] /\ reg[q].fresh # Null
    BY <1>1, <1>2
  <2>2. /\ reg[q].fresh \in DOMAIN minted /\ reg[q].fresh # jar /\ reg[q].fresh # reg[p].fresh
        /\ \A q2 \in Clients : /\ reg[q2].token # reg[q].fresh
                               /\ q2 # q => reg[q2].fresh # reg[q].fresh
    BY <2>1 DEF TokenInv, FreshPrivate
  <2>3. reg[q].fresh # jar'
    BY <1>3, <2>2
  <2> QED BY <1>1, <1>2, <1>3, <2>1, <2>2, <2>3
<1>9. ReplacedInv'
  BY <1>1 DEF TokenInv, ReplacedInv, Shortening
<1>10. GoneUnused'
  <2> SUFFICES ASSUME NEW t \in gone' \cap DOMAIN store
               PROVE  t # jar' /\ \A q \in Clients : reg'[q].token # t /\ reg'[q].fresh # t
    BY DEF GoneUnused
  <2>1. t \in DOMAIN minted /\ t # Null
    BY <1>3 DEF TokenInv, SessionTypeOK
  <2>2. CASE t \in gone
    BY <1>1, <1>2, <2>1, <2>2 DEF TokenInv, GoneUnused
  <2>3. CASE t \notin gone
    <3>1. t = reg[p].fresh /\ jar' = jar
      BY <2>3
    <3>2. t # jar /\ \A q \in Clients : reg[q].token # t /\ (q # p => reg[q].fresh # t)
      BY <2>1, <3>1 DEF TokenInv, FreshPrivate
    <3> QED BY <1>1, <1>2, <2>1, <3>1, <3>2
  <2> QED BY <2>2, <2>3
<1>11. LogoutHoldsLeaf'
  BY <1>1 DEF TokenInv, LogoutHoldsLeaf, Root
<1>12. EndedInv'
  <2>1. gone \subseteq gone'
    OBVIOUS
  <2> QED BY <1>1, <2>1 DEF TokenInv, EndedInv, Over, Root
<1>13. ServiceInv'
  BY <1>1 DEF TokenInv, ServiceInv
<1> QED BY <1>4, <1>5, <1>6, <1>7, <1>8, <1>9, <1>10, <1>11, <1>12, <1>13 DEF TokenInv

LEMMA DeliverOrLoseInv ==
    ASSUME TokenInv, NEW p \in Clients, Deliver(p) \/ Lose(p)
    PROVE  TokenInv'
BY DoneInv DEF Deliver, Lose

LEMMA AuthenticateInv ==
    ASSUME TokenInv, NEW p \in Clients, Authenticate(p)
    PROVE  TokenInv'
<1> DEFINE t == reg[p].token
<1>1. UNCHANGED <<now, store, minted, jar, account, service, replaced, contested, ended, gone,
                  revokedAt>>
  BY DEF Authenticate
<1>2. pc[p] = "sent" /\ t \in DOMAIN minted /\ reg[p].fresh = Null /\ reg[p] \in Reg
  BY DEF Authenticate, TokenInv, Carried, SessionTypeOK
<1>3. /\ now \in Nat /\ minted[t].exp \in Nat
      /\ reg[p].sent <= now /\ now <= reg[p].sent + Latency
  BY <1>2, NumberFacts DEF TokenInv, SessionTypeOK, Partial, Claims, Clock
<1>4. CASE Accepted(t)
  <2> DEFINE l == IF NeedsRenewal(t) THEN "renew" ELSE Handler(p)
             r == [reg[p] EXCEPT !.at = now]
  <2>1. Goto(p, l, r) /\ seen' = now /\ lapsed' = (lapsed \/ Lapse)
    BY <1>4, Zenon DEF Authenticate
  <2>2. /\ r \in Reg /\ r.token = t /\ r.fresh = Null /\ r.op = reg[p].op /\ r.at = now
        /\ r.sent = reg[p].sent
    BY <1>2 DEF TokenInv, SessionTypeOK, Reg
  <2>3. /\ l \in {"renew", "logout", "reply"}
        /\ l = "renew" <=> NeedsRenewal(t)
        /\ l = "logout" => reg[p].op = "logout"
    BY DEF Handler
  <2> HIDE DEF l, r
  <2>4. /\ pc'[p] = l /\ reg'[p] = r
        /\ \A q \in Clients : q # p => pc'[q] = pc[q] /\ reg'[q] = reg[q]
    BY <2>1, Moved
  <2>5. SessionTypeOK'
    <3>1. /\ pc' \in [Clients -> {"idle", "sent", "renew", "shorten", "logout", "reply", "issue"}]
          /\ reg' \in [Clients -> Reg]
      BY <2>1, <2>2, <2>3, Moved
    <3>2. lapsed' \in BOOLEAN
      BY <2>1
    <3> QED BY <1>1, <2>1, <3>1, <3>2 DEF TokenInv, SessionTypeOK, Partial
  <2>6. Counted' /\ Rooted' /\ OneLeaf'
    BY <1>1 DEF TokenInv, Counted, Rooted, OneLeaf, Root
  <2>7. Clock'
    <3>1. now <= now
      BY <1>3
    <3> QED BY <1>1, <1>2, <1>3, <2>2, <2>4, <3>1 DEF TokenInv, Clock
  <2>8. Carried'
    <3>1. NeedsRenewal(t) => minted[t].exp - now < Threshold
      BY DEF NeedsRenewal
    <3> QED BY <1>1, <1>2, <2>2, <2>3, <2>4, <3>1 DEF TokenInv, Carried
  <2>9. FreshPrivate'
    BY <1>1, <1>2, <2>2, <2>4 DEF TokenInv, FreshPrivate
  <2>10. ReplacedInv'
    BY <1>1, <1>2, <2>4 DEF TokenInv, ReplacedInv, Shortening
  <2>11. GoneUnused'
    BY <1>1, <1>2, <2>2, <2>4 DEF TokenInv, GoneUnused
  <2>12. LogoutHoldsLeaf'
    <3>1. l = "logout" => t \notin DOMAIN replaced
      <4> SUFFICES ASSUME t \in DOMAIN replaced PROVE NeedsRenewal(t)
        BY <2>3
      <4>1. replaced[t] \in Nat /\ replaced[t] <= now /\ minted[t].exp - replaced[t] < Threshold
        BY NumberFacts DEF TokenInv, ReplacedInv, SessionTypeOK, Partial
      <4>2. minted[t].exp - now < Threshold
        BY <1>3, <4>1, NumberFacts
      <4> QED BY <4>2 DEF NeedsRenewal
    <3> QED BY <1>1, <2>2, <2>3, <2>4, <3>1 DEF TokenInv, LogoutHoldsLeaf, Root
  <2>13. EndedInv'
    <3>1. t \in DOMAIN store /\ t \notin gone
      BY <1>4 DEF Accepted, TokenInv, GoneUnused
    <3>2. Over(t) => t \in DOMAIN replaced
      BY <1>2, <3>1 DEF TokenInv, EndedInv
    <3> QED BY <1>1, <2>2, <2>4, <3>2 DEF TokenInv, EndedInv, Over, Root
  <2>14. ServiceInv'
    BY <1>1, <2>3, <2>4 DEF TokenInv, ServiceInv
  <2> QED BY <2>5, <2>6, <2>7, <2>8, <2>9, <2>10, <2>11, <2>12, <2>13, <2>14 DEF TokenInv
<1>5. CASE ~Accepted(t)
  <2>1. UNCHANGED <<seen, lapsed>>
    BY <1>5 DEF Authenticate
  <2>2. CASE reg[p].op # "logout"
    <3>1. Done(p)
      BY <1>5, <2>2 DEF Authenticate
    <3> QED BY <1>1, <1>2, <2>1, <3>1, DoneInv
  <2>3. CASE reg[p].op = "logout"
    <3>1. Goto(p, "reply", reg[p])
      BY <1>5, <2>3 DEF Authenticate
    <3>2. /\ pc'[p] = "reply" /\ reg'[p] = reg[p]
          /\ \A q \in Clients : q # p => pc'[q] = pc[q] /\ reg'[q] = reg[q]
      BY <3>1, Moved
    <3>3. SessionTypeOK'
      BY <1>1, <1>2, <2>1, <3>1, Moved DEF TokenInv, SessionTypeOK, Partial
    <3>4. Counted' /\ Rooted' /\ OneLeaf'
      BY <1>1 DEF TokenInv, Counted, Rooted, OneLeaf, Root
    <3>5. Clock' /\ Carried' /\ FreshPrivate'
      BY <1>1, <1>2, <1>3, <3>2 DEF TokenInv, Clock, Carried, FreshPrivate
    <3>6. ReplacedInv' /\ GoneUnused'
      BY <1>1, <1>2, <3>2 DEF TokenInv, ReplacedInv, Shortening, GoneUnused
    <3>7. LogoutHoldsLeaf' /\ EndedInv' /\ ServiceInv'
      BY <1>1, <3>2 DEF TokenInv, LogoutHoldsLeaf, EndedInv, Over, Root, ServiceInv
    <3> QED BY <3>3, <3>4, <3>5, <3>6, <3>7 DEF TokenInv
  <2> QED BY <2>2, <2>3
<1> QED BY <1>4, <1>5

LEMMA MintTypes ==
    ASSUME TokenInv, StartupInv, KeyReal, phase = "up", NEW t, NEW root \in DOMAIN minted \cup {t},
           GenerateToken(t, root)
    PROVE  /\ Partial(store', Tokens, Nat) /\ Partial(minted', Tokens, Claims)
           /\ DOMAIN store' \subseteq DOMAIN minted'
           /\ \A u \in DOMAIN minted' : minted'[u].root \in DOMAIN minted'
<1>1. /\ t \in Tokens /\ DOMAIN minted' = DOMAIN minted \cup {t}
      /\ minted'[t] = [root |-> root, exp |-> now + TTL, key |-> mem.key]
      /\ \A u \in DOMAIN minted : minted'[u] = minted[u]
      /\ t \in DOMAIN store' /\ store'[t] = now + TTL
      /\ \A u \in DOMAIN store' : u # t => u \in DOMAIN store /\ store'[u] = store[u]
  BY MintFacts
<1>2. now + TTL \in Nat
  BY NumberFacts DEF TokenInv, SessionTypeOK
<1>3. mem.key \in 1..MaxKey
  <2>1. mem.key \in 0..MaxKey /\ mem.key # 0
    BY DEF StartupInv, StartupTypeOK, Settings, KeyReal
  <2> QED BY <2>1, StartupAssumption
<1>4. minted'[t] \in Claims
  BY <1>1, <1>2, <1>3 DEF TokenInv, SessionTypeOK, Partial, Claims
<1>5. Partial(store', Tokens, Nat) /\ DOMAIN store' \subseteq DOMAIN minted'
  BY <1>1, <1>2 DEF TokenInv, SessionTypeOK, Partial
<1>6. Partial(minted', Tokens, Claims)
  BY <1>1, <1>4 DEF TokenInv, SessionTypeOK, Partial
<1>7. \A u \in DOMAIN minted' : minted'[u].root \in DOMAIN minted'
  BY <1>1 DEF TokenInv, Rooted, Root
<1> QED BY <1>5, <1>6, <1>7

LEMMA LoginInv ==
    ASSUME TokenInv, StartupInv, KeyReal, NEW t \in Tokens, Login(t)
    PROVE  TokenInv'
<1>1. /\ UNCHANGED <<now, pc, reg, account, service, replaced, contested, ended, gone, revokedAt>>
      /\ jar' = t /\ seen' = now /\ lapsed' = FALSE /\ phase = "up" /\ GenerateToken(t, t)
  BY DEF Login
<1>2. \A p \in Clients : pc[p] = "idle" /\ reg[p] = NoReg
  BY DEF Login, Busy, TokenInv, Carried
<1>3. /\ t \notin DOMAIN minted /\ Counted'
      /\ DOMAIN minted' = DOMAIN minted \cup {t}
      /\ minted'[t] = [root |-> t, exp |-> now + TTL, key |-> mem.key]
      /\ \A u \in DOMAIN minted : minted'[u] = minted[u]
      /\ \A u \in DOMAIN store' : u # t => u \in DOMAIN store /\ store'[u] = store[u]
  BY <1>1, MintFacts
<1>4. SessionTypeOK'
  <2>1. lapsed' \in BOOLEAN
    BY <1>1
  <2>2. /\ Partial(store', Tokens, Nat) /\ Partial(minted', Tokens, Claims)
        /\ DOMAIN store' \subseteq DOMAIN minted'
    BY <1>1, MintTypes
  <2> QED BY <1>1, <1>3, <2>1, <2>2 DEF TokenInv, SessionTypeOK, Partial
<1>5. Clock' /\ Carried' /\ FreshPrivate' /\ LogoutHoldsLeaf'
  BY <1>1, <1>2 DEF Clock, Carried, FreshPrivate, LogoutHoldsLeaf, NoReg
<1>6. ReplacedInv'
  BY <1>1, <1>3 DEF TokenInv, ReplacedInv, Shortening
<1>7. Rooted'
  BY <1>1, <1>3 DEF TokenInv, Rooted, Root
<1>8. \A u \in DOMAIN minted' : (u # t => minted'[u].root # t) /\ (u = t => minted'[u].root = t)
  BY <1>3 DEF TokenInv, Rooted, Root
<1>9. OneLeaf'
  <2> SUFFICES ASSUME NEW u \in DOMAIN minted' \ DOMAIN replaced, NEW v \in DOMAIN minted' \ DOMAIN replaced,
                      minted'[u].root = minted'[v].root, minted'[u].root \notin contested
               PROVE  u = v
    BY <1>1 DEF OneLeaf, Root
  <2> QED BY <1>3, <1>8 DEF TokenInv, OneLeaf, Root
<1>10. GoneUnused'
  <2>1. \A u \in gone : u \in DOMAIN minted /\ u # t /\ u # Null
    BY <1>3, NumberFacts DEF TokenInv, SessionTypeOK, Partial
  <2> QED BY <1>1, <1>2, <1>3, <2>1 DEF TokenInv, GoneUnused, NoReg
<1>11. EndedInv'
  <2>1. t \notin DOMAIN ended
    BY <1>3 DEF TokenInv, Rooted
  <2> QED BY <1>1, <1>2, <1>3, <1>8, <2>1 DEF TokenInv, EndedInv, Over, Root
<1>12. ServiceInv'
  BY <1>1 DEF TokenInv, ServiceInv
<1> QED BY <1>3, <1>4, <1>5, <1>6, <1>7, <1>9, <1>10, <1>11, <1>12 DEF TokenInv

LEMMA RenewInv ==
    ASSUME TokenInv, StartupInv, KeyReal, NEW p \in Clients, Renew(p)
    PROVE  TokenInv'
<1> DEFINE t == reg[p].token
<1>1. /\ UNCHANGED <<now, jar, account, service, ended, gone, seen, lapsed, revokedAt>>
      /\ phase = "up" /\ pc[p] = "renew"
      /\ replaced' = IF t \in DOMAIN replaced THEN replaced ELSE Put(replaced, t, reg[p].at)
      /\ contested' = IF t \in DOMAIN replaced \/ LoggingOut(p)
                      THEN contested \cup {Root(t)} ELSE contested
  BY DEF Renew
<1>2. PICK u \in Tokens : GenerateToken(u, Root(t)) /\ Goto(p, "shorten", [reg[p] EXCEPT !.fresh = u])
  BY DEF Renew
<1> DEFINE r == [reg[p] EXCEPT !.fresh = u]
<1>3. /\ t \in DOMAIN minted /\ reg[p].fresh = Null /\ reg[p] \in Reg /\ reg[p].at \in Times
      /\ minted[t].exp - reg[p].at < Threshold /\ reg[p].at <= now
      /\ reg[p].sent <= reg[p].at /\ reg[p].sent <= now /\ now <= reg[p].sent + Latency
      /\ Root(t) \in DOMAIN minted /\ Root(t) \in Tokens /\ t \in Tokens
  BY <1>1 DEF TokenInv, Carried, SessionTypeOK, Partial, Clock, Reg, Rooted
<1>4. /\ u \notin DOMAIN minted /\ Counted'
      /\ DOMAIN minted' = DOMAIN minted \cup {u}
      /\ minted'[u] = [root |-> Root(t), exp |-> now + TTL, key |-> mem.key]
      /\ \A v \in DOMAIN minted : minted'[v] = minted[v]
      /\ \A v \in DOMAIN store' : v # u => v \in DOMAIN store /\ store'[v] = store[v]
  BY <1>2, MintFacts
<1>5. /\ r \in Reg /\ r.token = t /\ r.fresh = u /\ r.op = reg[p].op /\ r.at = reg[p].at
      /\ r.sent = reg[p].sent /\ u # Null /\ u # t
  BY <1>3, <1>4, NumberFacts DEF Reg
<1> HIDE DEF r
<1>6. /\ pc'[p] = "shorten" /\ reg'[p] = r
      /\ \A q \in Clients : q # p => pc'[q] = pc[q] /\ reg'[q] = reg[q]
      /\ pc' \in [Clients -> {"idle", "sent", "renew", "shorten", "logout", "reply", "issue"}]
      /\ reg' \in [Clients -> Reg]
  BY <1>2, <1>5, Moved DEF r
<1>7. /\ DOMAIN replaced' = DOMAIN replaced \cup {t}
      /\ \A v \in DOMAIN replaced : replaced'[v] = replaced[v]
      /\ t \notin DOMAIN replaced => replaced'[t] = reg[p].at
      /\ contested \subseteq contested' /\ contested' \subseteq contested \cup {Root(t)}
      /\ t \in DOMAIN replaced => Root(t) \in contested'
      /\ LoggingOut(p) => Root(t) \in contested'
  BY <1>1 DEF Put
<1>8. SessionTypeOK'
  <2>1. /\ Partial(store', Tokens, Nat) /\ Partial(minted', Tokens, Claims)
        /\ DOMAIN store' \subseteq DOMAIN minted'
    BY <1>1, <1>2, <1>3, MintTypes
  <2>2. Partial(replaced', Tokens, Times) /\ contested' \subseteq Tokens
    BY <1>3, <1>7 DEF TokenInv, SessionTypeOK, Partial
  <2>3. jar' \in DOMAIN minted' \cup {Null} /\ gone' \subseteq DOMAIN minted'
    BY <1>1, <1>4 DEF TokenInv, SessionTypeOK
  <2> QED BY <1>1, <1>6, <2>1, <2>2, <2>3 DEF TokenInv, SessionTypeOK
<1>9. Clock'
  BY <1>1, <1>3, <1>5, <1>6 DEF TokenInv, Clock
<1>10. Carried'
  BY <1>3, <1>4, <1>5, <1>6 DEF TokenInv, Carried
<1>11. FreshPrivate'
  <2>1. \A q \in Clients : reg[q].token # u /\ reg[q].fresh # u
    BY <1>4, <1>5 DEF TokenInv, Carried, FreshPrivate
  <2>2. u # jar
    BY <1>4, <1>5 DEF TokenInv, SessionTypeOK
  <2>3. \A q \in Clients : reg'[q].token = reg[q].token /\ (q # p => reg'[q].fresh = reg[q].fresh)
    BY <1>5, <1>6
  <2>4. \A q \in Clients : q # p /\ reg[q].fresh # Null =>
            /\ reg[q].fresh \in DOMAIN minted' /\ reg[q].fresh # jar
            /\ \A q2 \in Clients : reg[q2].token # reg[q].fresh /\ (q2 # q => reg[q2].fresh # reg[q].fresh)
    BY <1>4 DEF TokenInv, FreshPrivate
  <2>5. reg'[p].fresh = u /\ u \in DOMAIN minted' /\ jar' = jar
    BY <1>1, <1>4, <1>5, <1>6
  <2> QED BY <2>1, <2>2, <2>3, <2>4, <2>5 DEF FreshPrivate
<1>12. ReplacedInv'
  <2> SUFFICES ASSUME NEW v \in DOMAIN replaced'
               PROVE  /\ v \in DOMAIN minted'
                      /\ replaced'[v] <= now
                      /\ minted'[v].exp - replaced'[v] < Threshold
                      /\ v \in DOMAIN store' => \/ store'[v] <= replaced'[v] + Grace
                                                \/ \E q \in Clients : Shortening(q, v)'
    BY <1>1 DEF ReplacedInv
  <2>1. CASE v \in DOMAIN replaced
    <3>1. /\ v \in DOMAIN minted /\ v # u
          /\ replaced[v] <= now
          /\ minted[v].exp - replaced[v] < Threshold
          /\ v \in DOMAIN store => \/ store[v] <= replaced[v] + Grace
                                   \/ \E q \in Clients : Shortening(q, v)
      BY <1>4, <2>1 DEF TokenInv, ReplacedInv
    <3>2. \A q \in Clients : Shortening(q, v) => Shortening(q, v)'
      BY <1>1, <1>6, <1>7, <2>1 DEF Shortening
    <3> QED BY <1>4, <1>7, <2>1, <3>1, <3>2
  <2>2. CASE v \notin DOMAIN replaced
    <3>1. v = t /\ replaced'[v] = reg[p].at
      BY <1>7, <2>2
    <3>2. Shortening(p, v)'
      BY <1>5, <1>6, <3>1 DEF Shortening
    <3> QED BY <1>3, <1>4, <3>1, <3>2
  <2> QED BY <2>1, <2>2
<1>13. Rooted'
  BY <1>1, <1>3, <1>4 DEF TokenInv, Rooted, Root
<1>14. OneLeaf'
  <2> SUFFICES ASSUME NEW v \in DOMAIN minted' \ DOMAIN replaced', NEW w \in DOMAIN minted' \ DOMAIN replaced',
                      minted'[v].root = minted'[w].root, minted'[v].root \notin contested'
               PROVE  v = w
    BY DEF OneLeaf, Root
  <2>1. \A x \in DOMAIN minted \ DOMAIN replaced :
            x # t /\ minted[x].root = Root(t) => Root(t) \in contested \/ t \in DOMAIN replaced
    BY <1>3 DEF TokenInv, OneLeaf, Root
  <2>2. \A x \in DOMAIN minted' \ DOMAIN replaced' : x # u =>
            x \in DOMAIN minted \ DOMAIN replaced /\ x # t /\ minted'[x].root = minted[x].root
    BY <1>4, <1>7
  <2>3. CASE v # u /\ w # u
    BY <1>7, <2>2, <2>3 DEF TokenInv, OneLeaf, Root
  <2>4. CASE v = u \/ w = u
    <3>1. minted'[v].root = Root(t) /\ minted'[w].root = Root(t)
      BY <1>4, <2>4
    <3>2. Root(t) \notin contested /\ t \notin DOMAIN replaced
      BY <1>7, <3>1
    <3> QED BY <2>1, <2>2, <3>1, <3>2
  <2> QED BY <2>3, <2>4
<1>15. GoneUnused'
  <2>1. \A v \in gone \cap DOMAIN store' : v \in DOMAIN store /\ v # u
    BY <1>4 DEF TokenInv, SessionTypeOK
  <2> QED BY <1>1, <1>5, <1>6, <2>1 DEF TokenInv, GoneUnused
<1>16. LogoutHoldsLeaf'
  <2> SUFFICES ASSUME NEW q \in Clients, pc'[q] \in {"shorten", "logout"}, reg'[q].op = "logout",
                      minted'[reg'[q].token].root \notin contested'
               PROVE  \/ reg'[q].fresh = Null /\ reg'[q].token \notin DOMAIN replaced'
                      \/ /\ reg'[q].fresh # Null /\ reg'[q].fresh \notin DOMAIN replaced'
                         /\ reg'[q].fresh \in DOMAIN minted'
                         /\ minted'[reg'[q].fresh].root = minted'[reg'[q].token].root
    BY DEF LogoutHoldsLeaf, Root
  <2>1. CASE q = p
    <3>1. u \notin DOMAIN replaced'
      BY <1>4, <1>5, <1>7 DEF TokenInv, ReplacedInv
    <3>2. minted'[u].root = minted'[t].root /\ u \in DOMAIN minted'
      BY <1>3, <1>4 DEF Root
    <3> QED BY <1>5, <1>6, <2>1, <3>1, <3>2
  <2>2. CASE q # p
    <3>1. pc'[q] = pc[q] /\ reg'[q] = reg[q] /\ LoggingOut(p)
      BY <1>6, <2>2 DEF LoggingOut, Busy
    <3>2. /\ reg[q].token \in DOMAIN minted /\ Root(reg[q].token) \notin contested
          /\ Root(reg[q].token) # Root(t)
      BY <1>4, <1>7, <3>1 DEF TokenInv, Carried, Root
    <3>3. \/ reg[q].fresh = Null /\ reg[q].token \notin DOMAIN replaced
          \/ /\ reg[q].fresh # Null /\ reg[q].fresh \notin DOMAIN replaced
             /\ reg[q].fresh \in DOMAIN minted /\ Root(reg[q].fresh) = Root(reg[q].token)
      BY <3>1, <3>2 DEF TokenInv, LogoutHoldsLeaf
    <3> QED BY <1>4, <1>7, <3>1, <3>2, <3>3 DEF Root
  <2> QED BY <2>1, <2>2
<1>17. EndedInv'
  <2>1. Root(t) \in DOMAIN ended => Root(t) \in contested'
    BY <1>1, <1>7 DEF TokenInv, EndedInv, Over
  <2>2. \A v \in DOMAIN minted : minted'[v].root = Root(v)
    BY <1>4 DEF Root
  <2>3. \A v \in DOMAIN minted' \ gone' : Over(v)' /\ v \in DOMAIN store' =>
            v \in DOMAIN replaced' /\ store'[v] <= ended'[minted'[v].root] + Grace
    <3> SUFFICES ASSUME NEW v \in DOMAIN minted' \ gone, minted'[v].root \in DOMAIN ended \ contested',
                        v \in DOMAIN store'
                 PROVE  v \in DOMAIN replaced' /\ store'[v] <= ended[minted'[v].root] + Grace
      BY <1>1 DEF Over, Root
    <3>1. v # u
      BY <1>4, <2>1
    <3> QED BY <1>1, <1>4, <1>7, <2>2, <3>1 DEF TokenInv, EndedInv, Over
  <2>4. \A q \in Clients : pc'[q] = "renew" /\ minted'[reg'[q].token].root \in DOMAIN ended' \ contested'
            => reg'[q].token \in DOMAIN replaced'
    <3> SUFFICES ASSUME NEW q \in Clients, pc'[q] = "renew",
                        minted'[reg'[q].token].root \in DOMAIN ended \ contested'
                 PROVE  reg'[q].token \in DOMAIN replaced'
      BY <1>1
    <3>1. q # p /\ pc[q] = "renew" /\ reg'[q] = reg[q] /\ reg[q].token \in DOMAIN minted
      BY <1>6 DEF TokenInv, Carried
    <3> QED BY <1>7, <2>2, <3>1 DEF TokenInv, EndedInv, Over
  <2> QED BY <2>3, <2>4 DEF EndedInv, Over, Root
<1>18. ServiceInv'
  BY <1>1, <1>6 DEF TokenInv, ServiceInv
<1> QED BY <1>4, <1>8, <1>9, <1>10, <1>11, <1>12, <1>13, <1>14, <1>15, <1>16, <1>17, <1>18 DEF TokenInv

LEMMA ShortenInv ==
    ASSUME TokenInv, NEW p \in Clients, Shorten(p)
    PROVE  TokenInv'
<1> DEFINE t == reg[p].token
           grace == reg[p].at + Grace
<1>1. /\ UNCHANGED <<now, minted, jar, account, service, replaced, contested, ended, gone, seen,
                     lapsed, revokedAt>>
      /\ pc[p] = "shorten" /\ Goto(p, Handler(p), reg[p]) /\ store' = GraceExp(t, grace)
  BY DEF Shorten
<1>2. /\ Handler(p) \in {"logout", "reply"} /\ (Handler(p) = "logout" => reg[p].op = "logout")
      /\ reg[p] \in Reg /\ t \in DOMAIN minted /\ grace \in Nat
  <2>1. reg[p] \in Reg /\ t \in DOMAIN minted
    BY <1>1 DEF TokenInv, Carried, SessionTypeOK
  <2>2. reg[p].at \in Nat
    BY <2>1, NumberFacts DEF Reg
  <2> QED BY <2>1, <2>2, NumberFacts DEF Handler
<1>3. /\ pc'[p] = Handler(p)
      /\ \A q \in Clients : reg'[q] = reg[q] /\ (q # p => pc'[q] = pc[q])
      /\ pc' \in [Clients -> {"idle", "sent", "renew", "shorten", "logout", "reply", "issue"}]
      /\ reg' \in [Clients -> Reg]
  BY <1>1, <1>2, Moved
<1> HIDE DEF grace
<1>4. /\ DOMAIN store' = DOMAIN store
      /\ \A v \in DOMAIN store : v # t => store'[v] = store[v]
      /\ \A v \in DOMAIN store : store[v] \in Nat /\ store'[v] \in Nat
      /\ \A v \in DOMAIN store : store'[v] <= store[v]
      /\ t \in DOMAIN store => store'[t] <= grace
  <2>1. \A v \in DOMAIN store : store[v] \in Nat
    BY DEF TokenInv, SessionTypeOK, Partial
  <2>2. CASE t \in DOMAIN store /\ store[t] > grace
    <3>1. store' = [x \in DOMAIN store \cup {t} |-> IF x = t THEN grace ELSE store[x]]
      BY <1>1, <2>2 DEF GraceExp, Put
    <3> QED BY <1>2, <2>1, <2>2, <3>1
  <2>3. CASE ~(t \in DOMAIN store /\ store[t] > grace)
    <3>1. store' = store
      BY <1>1, <2>3 DEF GraceExp
    <3> QED BY <1>2, <2>1, <2>3, <3>1
  <2> QED BY <2>2, <2>3
<1>5. SessionTypeOK'
  BY <1>1, <1>3, <1>4 DEF TokenInv, SessionTypeOK, Partial
<1>6. Counted' /\ Rooted' /\ OneLeaf'
  BY <1>1 DEF TokenInv, Counted, Rooted, OneLeaf, Root
<1>7. Clock' /\ Carried' /\ FreshPrivate'
  BY <1>1, <1>2, <1>3 DEF TokenInv, Clock, Carried, FreshPrivate
<1>8. ReplacedInv'
  <2> SUFFICES ASSUME NEW v \in DOMAIN replaced, v \in DOMAIN store
               PROVE  \/ store'[v] <= replaced[v] + Grace
                      \/ \E q \in Clients : Shortening(q, v)'
    BY <1>1, <1>4 DEF TokenInv, ReplacedInv
  <2>0. replaced[v] \in Nat
    BY NumberFacts DEF TokenInv, SessionTypeOK, Partial
  <2>1. store[v] \in Nat /\ store'[v] \in Nat /\ store'[v] <= store[v] /\ replaced[v] + Grace \in Nat
    BY <1>4, <2>0, NumberFacts
  <2>2. CASE store[v] <= replaced[v] + Grace
    BY <2>1, <2>2
  <2>3. CASE Shortening(p, v)
    BY <1>4, <2>3 DEF Shortening, grace
  <2>4. ASSUME NEW q \in Clients, q # p, Shortening(q, v)
        PROVE  Shortening(q, v)'
    BY <1>1, <1>3, <2>4 DEF Shortening
  <2> QED BY <2>2, <2>3, <2>4 DEF TokenInv, ReplacedInv
<1>9. GoneUnused'
  BY <1>1, <1>3, <1>4 DEF TokenInv, GoneUnused
<1>10. LogoutHoldsLeaf'
  BY <1>1, <1>3 DEF TokenInv, LogoutHoldsLeaf, Root
<1>11. EndedInv'
  <2>1. \A v \in DOMAIN minted \ gone : Over(v) /\ v \in DOMAIN store =>
            v \in DOMAIN replaced /\ store'[v] <= ended[Root(v)] + Grace
    <3> SUFFICES ASSUME NEW v \in DOMAIN minted \ gone, Over(v), v \in DOMAIN store
                 PROVE  v \in DOMAIN replaced /\ store'[v] <= ended[Root(v)] + Grace
      OBVIOUS
    <3>1. v \in DOMAIN replaced /\ store[v] <= ended[Root(v)] + Grace
      BY DEF TokenInv, EndedInv
    <3>0. ended[Root(v)] \in Nat
      BY NumberFacts DEF Over, TokenInv, SessionTypeOK, Partial
    <3>2. ended[Root(v)] + Grace \in Nat /\ store[v] \in Nat /\ store'[v] \in Nat /\ store'[v] <= store[v]
      BY <1>4, <3>0, NumberFacts
    <3> QED BY <3>1, <3>2
  <2> QED BY <1>1, <1>2, <1>3, <1>4, <2>1 DEF TokenInv, EndedInv, Over, Root
<1>12. ServiceInv'
  BY <1>1, <1>2, <1>3 DEF TokenInv, ServiceInv
<1> QED BY <1>5, <1>6, <1>7, <1>8, <1>9, <1>10, <1>11, <1>12 DEF TokenInv

LEMMA LogoutInv ==
    ASSUME TokenInv, NEW p \in Clients, Logout(p)
    PROVE  TokenInv'
<1> DEFINE t == reg[p].token
           r == [reg[p] EXCEPT !.fresh = Null]
<1>1. /\ UNCHANGED <<now, minted, jar, account, service, replaced, seen, lapsed, revokedAt>>
      /\ pc[p] = "logout" /\ Goto(p, "reply", r) /\ store' = Drop(store, {t})
      /\ ended' = Put(ended, Root(t), now)
      /\ contested' = IF Busy = {p} THEN contested ELSE contested \cup {Root(t)}
      /\ gone' = gone \cup ({reg[p].fresh} \ {Null})
  BY DEF Logout, InvalidateToken
<1>2. /\ r \in Reg /\ r.token = t /\ r.fresh = Null /\ r.sent = reg[p].sent
      /\ t \in DOMAIN minted /\ reg[p].op = "logout" /\ Root(t) \in DOMAIN minted
  BY <1>1 DEF TokenInv, Carried, SessionTypeOK, Reg, Rooted
<1> HIDE DEF r
<1>3. /\ pc'[p] = "reply" /\ reg'[p] = r
      /\ \A q \in Clients : q # p => pc'[q] = pc[q] /\ reg'[q] = reg[q]
      /\ pc' \in [Clients -> {"idle", "sent", "renew", "shorten", "logout", "reply", "issue"}]
      /\ reg' \in [Clients -> Reg]
  BY <1>1, <1>2, Moved
<1>4. /\ DOMAIN store' = DOMAIN store \ {t}
      /\ \A v \in DOMAIN store' : store'[v] = store[v]
      /\ DOMAIN ended' = DOMAIN ended \cup {Root(t)} /\ ended'[Root(t)] = now
      /\ \A x \in DOMAIN ended : x # Root(t) => ended'[x] = ended[x]
      /\ contested \subseteq contested'
      /\ gone \subseteq gone' /\ gone' \subseteq DOMAIN minted
  <2>1. gone' \subseteq DOMAIN minted
    BY <1>1 DEF TokenInv, SessionTypeOK, FreshPrivate
  <2> QED BY <1>1, <2>1 DEF Drop, Put
<1>5. SessionTypeOK'
  <2>1. Root(t) \in Tokens /\ contested' \subseteq Tokens
    BY <1>1, <1>2 DEF TokenInv, SessionTypeOK, Partial
  <2>2. Partial(ended', Tokens, Times)
    BY <1>4, <2>1 DEF TokenInv, SessionTypeOK, Partial
  <2> QED BY <1>1, <1>3, <1>4, <2>1, <2>2 DEF TokenInv, SessionTypeOK, Partial
<1>6. Counted' /\ Rooted' /\ OneLeaf'
  BY <1>1, <1>2, <1>4 DEF TokenInv, Counted, Rooted, OneLeaf, Root
<1>7. Clock' /\ Carried' /\ FreshPrivate'
  BY <1>1, <1>2, <1>3 DEF TokenInv, Clock, Carried, FreshPrivate
<1>8. ReplacedInv'
  <2>1. \A q \in Clients, v \in DOMAIN replaced : Shortening(q, v) => Shortening(q, v)'
    BY <1>1, <1>3 DEF Shortening
  <2> QED BY <1>1, <1>4, <2>1 DEF TokenInv, ReplacedInv
<1>9. GoneUnused'
  <2> SUFFICES ASSUME NEW v \in gone' \cap DOMAIN store
               PROVE  v # jar /\ \A q \in Clients : reg'[q].token # v /\ reg'[q].fresh # v
    BY <1>1, <1>4 DEF GoneUnused
  <2>1. v # Null
    BY <1>4, NumberFacts DEF TokenInv, SessionTypeOK, Partial
  <2>2. CASE v \in gone
    BY <1>2, <1>3, <2>1, <2>2 DEF TokenInv, GoneUnused
  <2>3. CASE v \notin gone
    <3>1. v = reg[p].fresh /\ reg[p].fresh # Null
      BY <1>1, <2>3
    <3>2. v # jar /\ \A q \in Clients : reg[q].token # v /\ (q # p => reg[q].fresh # v)
      BY <3>1 DEF TokenInv, FreshPrivate
    <3> QED BY <1>2, <1>3, <2>1, <3>2
  <2> QED BY <2>2, <2>3
<1>10. LogoutHoldsLeaf'
  BY <1>1, <1>3, <1>4 DEF TokenInv, LogoutHoldsLeaf, Root
<1>11. Root(t) \in contested' \/ \A q \in Clients : q # p => pc[q] = "idle"
  BY <1>1 DEF Busy
<1>12. EndedInv'
  <2>1. ASSUME NEW v \in DOMAIN minted \ gone', Root(v) = Root(t), Root(t) \notin contested',
               v \in DOMAIN store'
        PROVE  v \in DOMAIN replaced /\ store[v] <= now + Grace
    <3>1. v # t /\ v \in DOMAIN store /\ v # Null /\ Root(t) \notin contested
      BY <1>4, <2>1, NumberFacts DEF TokenInv, SessionTypeOK, Partial
    <3>2. v # reg[p].fresh
      BY <1>1, <2>1, <3>1
    <3>3. v \in DOMAIN replaced
      <4>1. CASE reg[p].fresh = Null /\ t \notin DOMAIN replaced
        BY <1>2, <2>1, <3>1, <4>1 DEF TokenInv, OneLeaf
      <4>2. CASE reg[p].fresh # Null /\ reg[p].fresh \notin DOMAIN replaced
                 /\ reg[p].fresh \in DOMAIN minted /\ Root(reg[p].fresh) = Root(t)
        BY <2>1, <3>1, <3>2, <4>2 DEF TokenInv, OneLeaf
      <4> QED BY <1>1, <1>2, <3>1, <4>1, <4>2 DEF TokenInv, LogoutHoldsLeaf
    <3>4. \A q \in Clients : pc[q] # "shorten"
      BY <1>1, <1>11, <2>1
    <3>5. store[v] <= replaced[v] + Grace /\ replaced[v] <= now
      BY <3>1, <3>3, <3>4 DEF TokenInv, ReplacedInv, Shortening
    <3>6. store[v] \in Nat /\ replaced[v] \in Nat /\ now \in Nat
      BY <3>1, <3>3, NumberFacts DEF TokenInv, SessionTypeOK, Partial
    <3> QED BY <3>3, <3>5, <3>6, NumberFacts
  <2>2. \A v \in DOMAIN minted' \ gone' : Over(v)' /\ v \in DOMAIN store' =>
            v \in DOMAIN replaced' /\ store'[v] <= ended'[Root(v)] + Grace
    <3> SUFFICES ASSUME NEW v \in DOMAIN minted \ gone', Root(v) \in DOMAIN ended' \ contested',
                        v \in DOMAIN store'
                 PROVE  v \in DOMAIN replaced /\ store'[v] <= ended'[Root(v)] + Grace
      BY <1>1 DEF Over, Root
    <3>1. CASE Root(v) = Root(t)
      BY <1>4, <2>1, <3>1
    <3>2. CASE Root(v) # Root(t)
      BY <1>4, <3>2 DEF TokenInv, EndedInv, Over
    <3> QED BY <3>1, <3>2
  <2>3. \A q \in Clients : pc'[q] = "renew" /\ Over(reg[q].token)' => reg'[q].token \in DOMAIN replaced'
    <3> SUFFICES ASSUME NEW q \in Clients, pc'[q] = "renew",
                        minted[reg'[q].token].root \in DOMAIN ended' \ contested'
                 PROVE  reg'[q].token \in DOMAIN replaced
      BY <1>1 DEF Over, Root
    <3>1. q # p /\ pc[q] = "renew" /\ reg'[q] = reg[q]
      BY <1>3
    <3>2. Root(reg[q].token) # Root(t) /\ Root(reg[q].token) \in DOMAIN ended \ contested
      BY <1>4, <1>11, <3>1 DEF Root
    <3> QED BY <3>1, <3>2 DEF TokenInv, EndedInv, Over
  <2> QED BY <1>1, <2>2, <2>3 DEF EndedInv, Root
<1>13. ServiceInv'
  BY <1>1, <1>3 DEF TokenInv, ServiceInv
<1> QED BY <1>5, <1>6, <1>7, <1>8, <1>9, <1>10, <1>12, <1>13 DEF TokenInv

----------------------------------------------------------------------------
(* Service tokens, time, and the end of the process.                         *)

LEMMA ServiceTokenReadInv ==
    ASSUME TokenInv, NEW p \in Clients, ServiceTokenRead(p)
    PROVE  TokenInv'
<1> DEFINE r == [NoReg EXCEPT !.op = "token", !.sent = now]
<1>1. /\ UNCHANGED <<now, store, minted, jar, account, service, replaced, contested, ended, gone,
                     seen, lapsed, revokedAt>>
      /\ pc[p] = "idle" /\ account = "active" /\ Goto(p, "issue", r)
  BY DEF ServiceTokenRead, MayIssueToken
<1>2. r \in Reg /\ r.token = Null /\ r.fresh = Null /\ r.sent = now
  BY NoRegType DEF TokenInv, SessionTypeOK, Reg, NoReg
<1> HIDE DEF r
<1>3. /\ pc'[p] = "issue" /\ reg'[p] = r
      /\ \A q \in Clients : q # p => pc'[q] = pc[q] /\ reg'[q] = reg[q]
  BY <1>1, Moved
<1>4. SessionTypeOK'
  BY <1>1, <1>2, Moved DEF TokenInv, SessionTypeOK, Partial
<1>5. Counted' /\ Rooted' /\ OneLeaf'
  BY <1>1 DEF TokenInv, Counted, Rooted, OneLeaf, Root
<1>6. Clock'
  <2>1. now \in Nat
    BY NumberFacts DEF TokenInv, SessionTypeOK
  <2>2. now <= now /\ now <= now + Latency
    BY <2>1, NumberFacts
  <2> QED BY <1>1, <1>2, <1>3, <2>2 DEF TokenInv, Clock
<1>7. Carried'
  BY <1>1, <1>2, <1>3 DEF TokenInv, Carried
<1>8. FreshPrivate'
  BY <1>1, <1>2, <1>3 DEF TokenInv, FreshPrivate
<1>9. ReplacedInv'
  BY <1>1, <1>3 DEF TokenInv, ReplacedInv, Shortening
<1>10. GoneUnused'
  <2>1. \A v \in gone : v # Null
    BY NumberFacts DEF TokenInv, SessionTypeOK, Partial
  <2> QED BY <1>1, <1>2, <1>3, <2>1 DEF TokenInv, GoneUnused
<1>11. LogoutHoldsLeaf' /\ EndedInv'
  BY <1>1, <1>3 DEF TokenInv, LogoutHoldsLeaf, EndedInv, Over, Root
<1>12. ServiceInv'
  BY <1>1, <1>3 DEF TokenInv, ServiceInv
<1> QED BY <1>4, <1>5, <1>6, <1>7, <1>8, <1>9, <1>10, <1>11, <1>12 DEF TokenInv

LEMMA GenerateServiceTokenInv ==
    ASSUME TokenInv, StartupInv, KeyReal, NEW p \in Clients, GenerateServiceToken(p)
    PROVE  TokenInv'
<1>1. /\ UNCHANGED <<now, store, minted, jar, account, replaced, contested, ended, gone, seen,
                     lapsed, revokedAt>>
      /\ pc[p] = "issue" /\ phase = "up" /\ Done(p)
      /\ service' = [exp |-> now + TTL, key |-> mem.key]
  BY DEF GenerateServiceToken
<1>2. NoReg.token = Null /\ NoReg.fresh = Null
  BY DEF NoReg
<1>3. /\ pc'[p] = "idle" /\ reg'[p] = NoReg
      /\ \A q \in Clients : q # p => pc'[q] = pc[q] /\ reg'[q] = reg[q]
  BY <1>1, Moved DEF Done
<1>4. now \in Nat /\ now + TTL \in Nat /\ reg[p].sent \in Nat
  <2>1. now \in Times /\ reg[p] \in Reg
    BY DEF TokenInv, SessionTypeOK
  <2>2. reg[p].sent \in Times
    BY <2>1 DEF Reg
  <2>3. now \in Nat /\ reg[p].sent \in Nat
    BY <2>1, <2>2, NumberFacts
  <2> QED BY <2>3, NumberFacts
<1>5. service' \in [exp : Nat, key : 1..MaxKey] /\ service'.exp = now + TTL
  <2>1. mem.key \in 0..MaxKey /\ mem.key # 0
    BY <1>1 DEF StartupInv, StartupTypeOK, Settings, KeyReal
  <2>2. mem.key \in 1..MaxKey
    BY <2>1, StartupAssumption
  <2> QED BY <1>1, <1>4, <2>2
<1>6. SessionTypeOK'
  BY <1>1, <1>5, Moved, NoRegType DEF Done, TokenInv, SessionTypeOK, Partial
<1>7. Counted' /\ Rooted' /\ OneLeaf'
  BY <1>1 DEF TokenInv, Counted, Rooted, OneLeaf, Root
<1>8. Clock' /\ Carried' /\ FreshPrivate'
  BY <1>1, <1>2, <1>3 DEF TokenInv, Clock, Carried, FreshPrivate
<1>9. ReplacedInv'
  BY <1>1, <1>3 DEF TokenInv, ReplacedInv, Shortening
<1>10. GoneUnused'
  <2>1. \A v \in gone : v # Null
    BY NumberFacts DEF TokenInv, SessionTypeOK, Partial
  <2> QED BY <1>1, <1>2, <1>3, <2>1 DEF TokenInv, GoneUnused
<1>11. LogoutHoldsLeaf' /\ EndedInv'
  BY <1>1, <1>3 DEF TokenInv, LogoutHoldsLeaf, EndedInv, Over, Root
<1>12. ServiceInv'
  <2>1. revokedAt # Null => now + TTL <= revokedAt + Latency + TTL
    <3> SUFFICES ASSUME revokedAt # Null PROVE now + TTL <= revokedAt + Latency + TTL
      OBVIOUS
    <3>1. revokedAt \in Nat
      BY NumberFacts DEF TokenInv, SessionTypeOK
    <3>2. reg[p].sent <= revokedAt /\ now <= reg[p].sent + Latency
      BY <1>1 DEF TokenInv, ServiceInv, Clock
    <3> QED BY <1>4, <3>1, <3>2, NumberFacts
  <2>2. service'.exp <= now + TTL
    BY <1>4, <1>5
  <2> QED BY <1>1, <1>3, <1>5, <2>1, <2>2 DEF TokenInv, ServiceInv
<1> QED BY <1>6, <1>7, <1>8, <1>9, <1>10, <1>11, <1>12 DEF TokenInv

LEMMA RevokeServiceAccountInv ==
    ASSUME TokenInv, RevokeServiceAccount
    PROVE  TokenInv'
<1>1. /\ UNCHANGED <<now, store, minted, jar, pc, reg, service, replaced, contested, ended, gone,
                     seen, lapsed>>
      /\ account' = "revoked" /\ revokedAt' = now
  BY DEF RevokeServiceAccount
<1>2. SessionTypeOK' /\ Counted' /\ Clock' /\ Carried' /\ FreshPrivate' /\ ReplacedInv'
  BY <1>1 DEF TokenInv, SessionTypeOK, Partial, Counted, Clock, Carried, FreshPrivate, ReplacedInv,
              Shortening
<1>3. Rooted' /\ OneLeaf' /\ GoneUnused' /\ LogoutHoldsLeaf' /\ EndedInv'
  BY <1>1 DEF TokenInv, Rooted, OneLeaf, GoneUnused, LogoutHoldsLeaf, EndedInv, Over, Root
<1>4. now \in Nat /\ now <= now
  BY NumberFacts DEF TokenInv, SessionTypeOK
<1>5. service # Null => service.exp <= now + TTL /\ service.exp <= now + Latency + TTL
  <2> SUFFICES ASSUME service # Null
               PROVE  service.exp <= now + TTL /\ service.exp <= now + Latency + TTL
    OBVIOUS
  <2>1. service.exp \in Nat
    BY DEF TokenInv, SessionTypeOK
  <2>2. service.exp <= now + TTL
    BY DEF TokenInv, ServiceInv
  <2> QED BY <1>4, <2>1, <2>2, NumberFacts
<1>6. ServiceInv'
  BY <1>1, <1>4, <1>5 DEF TokenInv, ServiceInv, Clock
<1> QED BY <1>2, <1>3, <1>6 DEF TokenInv

LEMMA TickInv ==
    ASSUME TokenInv, Tick
    PROVE  TokenInv'
<1>1. /\ UNCHANGED <<store, minted, jar, pc, reg, account, service, replaced, contested, ended,
                     gone, seen, lapsed, revokedAt>>
      /\ now' = now + 1 /\ now < MaxTime
  BY DEF Tick
<1>2. now \in Nat /\ now' \in Times
  <2>1. now \in Times
    BY DEF TokenInv, SessionTypeOK
  <2> QED BY <1>1, <2>1, NumberFacts DEF Times
<1>3. SessionTypeOK' /\ Counted' /\ Carried' /\ FreshPrivate'
  BY <1>1, <1>2 DEF TokenInv, SessionTypeOK, Partial, Counted, Carried, FreshPrivate
<1>4. Rooted' /\ OneLeaf' /\ GoneUnused' /\ LogoutHoldsLeaf' /\ EndedInv'
  BY <1>1 DEF TokenInv, Rooted, OneLeaf, GoneUnused, LogoutHoldsLeaf, EndedInv, Over, Root
<1>5. Clock'
  <2> SUFFICES ASSUME NEW p \in Clients
               PROVE  /\ pc[p] # "idle" => reg[p].sent <= now + 1 /\ now + 1 <= reg[p].sent + Latency
                      /\ pc[p] \in {"renew", "shorten", "logout"} =>
                           reg[p].sent <= reg[p].at /\ reg[p].at <= now + 1
    BY <1>1 DEF Clock
  <2>1. reg[p].sent \in Nat /\ reg[p].at \in Nat
    <3>1. reg[p] \in Reg
      BY DEF TokenInv, SessionTypeOK
    <3> QED BY <3>1, NumberFacts DEF Reg
  <2>2. pc[p] # "idle" => now - reg[p].sent < Latency
    BY DEF Tick, Busy
  <2>3. /\ pc[p] # "idle" => reg[p].sent <= now
        /\ pc[p] \in {"renew", "shorten", "logout"} => reg[p].sent <= reg[p].at /\ reg[p].at <= now
    BY DEF TokenInv, Clock
  <2> QED BY <1>2, <2>1, <2>2, <2>3, NumberFacts
<1>6. ReplacedInv'
  <2>1. \A t \in DOMAIN replaced : replaced[t] <= now + 1
    <3> SUFFICES ASSUME NEW t \in DOMAIN replaced PROVE replaced[t] <= now + 1
      OBVIOUS
    <3>1. replaced[t] \in Nat /\ replaced[t] <= now
      BY NumberFacts DEF TokenInv, SessionTypeOK, Partial, ReplacedInv
    <3> QED BY <1>2, <3>1
  <2> QED BY <1>1, <2>1 DEF TokenInv, ReplacedInv, Shortening
<1>7. ServiceInv'
  <2>1. revokedAt # Null => revokedAt <= now + 1
    <3>1. revokedAt # Null => revokedAt \in Nat /\ revokedAt <= now
      BY NumberFacts DEF TokenInv, SessionTypeOK, ServiceInv
    <3> QED BY <1>2, <3>1
  <2>2. service # Null => service.exp <= now + 1 + TTL
    <3>1. service # Null => service.exp \in Nat /\ service.exp <= now + TTL
      BY DEF TokenInv, SessionTypeOK, ServiceInv
    <3> QED BY <1>2, <3>1, NumberFacts
  <2> QED BY <1>1, <2>1, <2>2 DEF TokenInv, ServiceInv
<1> QED BY <1>3, <1>4, <1>5, <1>6, <1>7 DEF TokenInv

LEMMA KillServerInv ==
    ASSUME TokenInv, KillServer
    PROVE  TokenInv'
<1>1. /\ UNCHANGED <<now, minted, jar, account, service, replaced, contested, ended, seen, lapsed,
                     revokedAt>>
      /\ DOMAIN store' = {} /\ gone' = DOMAIN minted
      /\ pc' = [p \in Clients |-> "idle"] /\ reg' = [p \in Clients |-> NoReg]
  BY DEF KillServer, Empty
<1>2. NoReg.token = Null /\ NoReg.fresh = Null
  BY DEF NoReg
<1>3. SessionTypeOK'
  BY <1>1, NoRegType DEF TokenInv, SessionTypeOK, Partial
<1>4. Counted' /\ Rooted' /\ OneLeaf'
  BY <1>1 DEF TokenInv, Counted, Rooted, OneLeaf, Root
<1>5. Clock' /\ Carried' /\ FreshPrivate' /\ LogoutHoldsLeaf'
  BY <1>1, <1>2 DEF Clock, Carried, FreshPrivate, LogoutHoldsLeaf
<1>6. ReplacedInv' /\ GoneUnused' /\ EndedInv'
  BY <1>1 DEF TokenInv, ReplacedInv, GoneUnused, EndedInv
<1>7. ServiceInv'
  BY <1>1 DEF TokenInv, ServiceInv
<1> QED BY <1>3, <1>4, <1>5, <1>6, <1>7 DEF TokenInv

LEMMA SessionUnchangedInv ==
    ASSUME TokenInv, UNCHANGED sessionVars
    PROVE  TokenInv'
<1>1. SessionTypeOK' /\ Counted' /\ Clock' /\ Carried' /\ FreshPrivate' /\ ReplacedInv'
  BY DEF sessionVars, TokenInv, SessionTypeOK, Partial, Counted, Clock, Carried, FreshPrivate,
         ReplacedInv, Shortening
<1>2. Rooted' /\ OneLeaf' /\ GoneUnused' /\ LogoutHoldsLeaf' /\ EndedInv' /\ ServiceInv'
  BY DEF sessionVars, TokenInv, Rooted, OneLeaf, GoneUnused, LogoutHoldsLeaf, EndedInv, Over, Root,
         ServiceInv
<1> QED BY <1>1, <1>2 DEF TokenInv

LEMMA TokenInvStep ==
    ASSUME TokenInv, StartupInv, KeyReal, [Next]_vars
    PROVE  TokenInv'
<1>1. CASE UNCHANGED sessionVars
  BY <1>1, SessionUnchangedInv
<1>2. CASE SessionStep
  <2>1. ASSUME NEW p \in Clients, Request(p)
        PROVE  TokenInv'
    BY <2>1, SendInv, AuthenticateInv, RenewInv, ShortenInv, LogoutInv, DeliverOrLoseInv,
       ServiceTokenReadInv, GenerateServiceTokenInv DEF Request
  <2> QED BY <1>2, <2>1, LoginInv, RevokeServiceAccountInv, TickInv DEF SessionStep
<1>3. CASE KillServer
  BY <1>3, KillServerInv
<1> QED BY <1>1, <1>2, <1>3 DEF Next, vars

----------------------------------------------------------------------------
\* The invariant of the session guard (authenticate_auth_token and
\* renew_session_cookie_if_needed), of logout and of service tokens: any number
\* of parallel requests, any lifetimes that satisfy SessionAssumption.
THEOREM SessionsCorrect == Spec => []TokenInv
<1>1. Init => TokenInv /\ StartupInv /\ KeyReal
  <2> SUFFICES ASSUME Init PROVE TokenInv /\ StartupInv /\ KeyReal
    OBVIOUS
  <2>1. TokenInv /\ StartupInv
    BY TokenInvInit, StartupInvInit DEF Init
  <2>2. KeyReal
    BY DEF Init, StartupInit, KeyReal
  <2> QED BY <2>1, <2>2
<1>2. TokenInv /\ StartupInv /\ KeyReal /\ [Next]_vars => TokenInv' /\ StartupInv' /\ KeyReal'
  BY TokenInvStep, StartupInvStep, KeyRealStep
<1> QED BY <1>1, <1>2, PTL DEF Spec

\* Every variable of the server's start-up and of its sessions keeps its type.
THEOREM SessionTypes == Spec => []TypeOK
<1>1. TokenInv /\ StartupInv => TypeOK
  BY DEF TokenInv, StartupInv, TypeOK
<1> QED BY <1>1, SessionsCorrect, StartupCorrect, PTL

\* A token whose successor the guard has registered is accepted no longer than its
\* grace window, however many requests come with it, renew it again or are
\* caught between the two locks.
THEOREM ReplacedTokensDie == Spec => []ReplacedTokenDies
<1>1. ASSUME TokenInv
      PROVE  ReplacedTokenDies
  <2> SUFFICES ASSUME NEW t \in DOMAIN replaced, Accepted(t)
               PROVE  now < replaced[t] + Grace
    BY DEF ReplacedTokenDies
  <2>1. t \in DOMAIN store /\ store[t] > now
    BY DEF Accepted
  <2>2. now \in Nat /\ replaced[t] \in Nat /\ store[t] \in Nat
    BY <1>1, <2>1, NumberFacts DEF TokenInv, SessionTypeOK, Partial
  <2>3. CASE store[t] <= replaced[t] + Grace
    BY <2>1, <2>2, <2>3, NumberFacts
  <2>4. ASSUME NEW p \in Clients, Shortening(p, t)
        PROVE  now < replaced[t] + Grace
    <3>1. /\ reg[p].at = replaced[t] /\ reg[p].sent <= reg[p].at
          /\ now <= reg[p].sent + Latency
      BY <1>1, <2>4 DEF TokenInv, Clock, Shortening
    <3>2. reg[p].sent \in Nat
      <4>1. reg[p] \in Reg
        BY <1>1 DEF TokenInv, SessionTypeOK
      <4> QED BY <4>1, NumberFacts DEF Reg
    <3> QED BY <2>2, <3>1, <3>2, NumberFacts
  <2> QED BY <1>1, <2>1, <2>3, <2>4 DEF TokenInv, ReplacedInv
<1> QED BY <1>1, SessionsCorrect, PTL

\* logout ends the session: once the grace window of the token before it is over,
\* no token that the browser got from the same login is accepted, unless the
\* logout met another request or one token had been renewed twice.
THEOREM LogoutIsFinal == Spec => []LogoutFinal
<1>1. ASSUME TokenInv
      PROVE  LogoutFinal
  <2> SUFFICES ASSUME NEW t \in DOMAIN minted \ gone, Over(t), now >= ended[Root(t)] + Grace,
                      Accepted(t)
               PROVE  FALSE
    BY DEF LogoutFinal, Over
  <2>1. t \in DOMAIN store /\ store[t] > now
    BY DEF Accepted
  <2>2. store[t] <= ended[Root(t)] + Grace
    BY <1>1, <2>1 DEF TokenInv, EndedInv
  <2>3. now \in Nat /\ store[t] \in Nat /\ ended[Root(t)] \in Nat
    BY <1>1, <2>1, NumberFacts DEF TokenInv, SessionTypeOK, Partial, Over
  <2> QED BY <2>1, <2>2, <2>3, NumberFacts
<1> QED BY <1>1, SessionsCorrect, PTL

\* No token of a revoked service account is accepted once a service_token request
\* then under way has ended and the token it signed has run out.
THEOREM ServiceRevocationHolds == Spec => []ServiceRevocationBites
<1>1. ASSUME TokenInv
      PROVE  ServiceRevocationBites
  <2> SUFFICES ASSUME service # Null, revokedAt # Null, now <= service.exp + Leeway
               PROVE  now <= revokedAt + Latency + TTL + Leeway
    BY DEF ServiceRevocationBites, ServiceAccepted
  <2>1. now \in Nat /\ revokedAt \in Nat /\ service.exp \in Nat
    BY <1>1, NumberFacts DEF TokenInv, SessionTypeOK
  <2>2. service.exp <= revokedAt + Latency + TTL
    BY <1>1 DEF TokenInv, ServiceInv
  <2> QED BY <2>1, <2>2, NumberFacts
<1> QED BY <1>1, SessionsCorrect, PTL

----------------------------------------------------------------------------
(* Active users.  The jar holds a token that is whole, or one that is waning:  *)
(* its successor is on the way, and it outlives every request it is sent with. *)

\* Nothing that may drop the session of login r has happened.
Undisturbed(r) ==
    /\ \A u \in gone : Root(u) # r
    /\ r \notin DOMAIN ended
    /\ ~lapsed /\ ~Lapse

\* The browser has t, sends it or is about to get it.
Presents(t) == jar = t \/ \E p \in Clients : reg[p].token = t \/ reg[p].fresh = t

\* An answer with a new cookie, or a logout, is on its way.
Renewing(q) ==
    \/ pc[q] \in {"renew", "shorten", "logout"}
    \/ pc[q] = "reply" /\ reg[q].fresh # Null

\* A token that no request has begun to replace has the threshold left after
\* every request, also after those still under way with another token.
Whole(t) ==
    /\ t \in DOMAIN store /\ store[t] = minted[t].exp
    /\ minted[t].exp >= seen + Threshold
    /\ \A q \in Clients : reg[q].token = t => pc[q] \notin {"renew", "shorten"}
    /\ \A q \in Clients : reg[q].token # t /\ pc[q] = "sent" =>
         minted[t].exp >= reg[q].sent + Latency + Threshold

\* A token whose replacement began at a is sent until a + Latency and accepted
\* until a + 2 * Latency.
Waning(t, a) ==
    /\ a <= now
    /\ now <= a + 2 * Latency => t \in DOMAIN store /\ store[t] > a + 2 * Latency
    /\ \A q \in Clients : reg[q].token = t =>
         /\ pc[q] \in {"renew", "shorten"} => a <= reg[q].at
         /\ pc[q] = "sent" => reg[q].sent <= a + Latency
    /\ jar = t => \E q \in Clients : Renewing(q) /\ reg[q].sent <= a

JarKept == \A t \in Tokens : jar = t => Whole(t) \/ \E a \in Times : Waning(t, a)

SentWith(t) == \E p \in Clients : pc[p] = "sent" /\ reg[p].token = t

SentKept == \A t \in Tokens : SentWith(t) /\ jar # t => \E a \in Times : Waning(t, a)

FreshKept ==
    \A p \in Clients, u \in Tokens : reg[p].fresh = u =>
        /\ u \in DOMAIN store /\ store[u] = minted[u].exp
        /\ minted[u].exp >= reg[p].sent + TTL

NoLogoutLeft == \A p \in Clients : pc[p] = "reply" => reg[p].op # "logout"

Kept == JarKept /\ SentKept /\ FreshKept /\ NoLogoutLeft

\* The browser has one login at a time.
OneLogin ==
    /\ \A t, u \in Tokens : Presents(t) /\ Presents(u) => Root(t) = Root(u)
    /\ \A p \in Clients : pc[p] = "reply" => reg[p].token # Null

Timed ==
    /\ seen <= now
    /\ \A q \in Clients : Renewing(q) => reg[q].sent <= reg[q].at /\ reg[q].at <= seen

KeyCurrent == \A t \in DOMAIN minted \ gone : phase \in {"up", "put"} /\ minted[t].key = mem.key

KeptInv == \A t, r \in Tokens : Presents(t) /\ Root(t) = r /\ Undisturbed(r) => Kept

ActiveInv == OneLogin /\ Timed /\ KeyCurrent /\ KeptInv

LEMMA LifetimeFacts ==
    /\ TTL \in Nat /\ Threshold \in Nat /\ Grace \in Nat /\ Latency \in Nat
    /\ TTL >= Threshold + 2 * Latency /\ Threshold > Grace /\ Grace > 2 * Latency
BY SessionAssumption

LEMMA TokenTypes ==
    ASSUME TokenInv
    PROVE  /\ now \in Nat /\ now \in Times /\ seen \in Nat
           /\ Null \notin Tokens /\ jar \in DOMAIN minted \cup {Null}
           /\ \A q \in Clients :
                /\ reg[q].sent \in Nat /\ reg[q].at \in Nat /\ reg[q].at \in Times
                /\ reg[q].token \in DOMAIN minted \cup {Null}
                /\ reg[q].fresh \in DOMAIN minted \cup {Null}
           /\ \A t \in DOMAIN minted : t \in Tokens /\ minted[t].exp \in Nat /\ Root(t) \in Tokens
           /\ \A t \in DOMAIN store : t \in DOMAIN minted /\ store[t] \in Nat
           /\ gone \subseteq DOMAIN minted
<1>1. Times \subseteq Nat /\ Null \notin Tokens
  BY NumberFacts
<1>2. now \in Times /\ seen \in Times /\ jar \in DOMAIN minted \cup {Null} /\ gone \subseteq DOMAIN minted
  BY DEF TokenInv, SessionTypeOK
<1>3. \A q \in Clients : reg[q].sent \in Times /\ reg[q].at \in Times
  BY DEF TokenInv, SessionTypeOK, Reg
<1>4. \A q \in Clients : /\ reg[q].token \in DOMAIN minted \cup {Null}
                         /\ reg[q].fresh \in DOMAIN minted \cup {Null}
  BY DEF TokenInv, Carried, FreshPrivate
<1>5. \A t \in DOMAIN minted : t \in Tokens /\ minted[t].exp \in Nat /\ Root(t) \in Tokens
  BY DEF TokenInv, SessionTypeOK, Partial, Claims, Root
<1>6. \A t \in DOMAIN store : t \in DOMAIN minted /\ store[t] \in Nat
  BY DEF TokenInv, SessionTypeOK, Partial
<1> QED BY <1>1, <1>2, <1>3, <1>4, <1>5, <1>6

\* What is undisturbed after a step was so before it.
LEMMA UndisturbedBefore ==
    ASSUME TokenInv, NEW r \in Tokens, Undisturbed(r)',
           gone \subseteq gone', DOMAIN ended \subseteq DOMAIN ended',
           \A u \in DOMAIN minted : minted'[u] = minted[u],
           lapsed' = FALSE /\ ~Lapse' => lapsed = FALSE /\ ~Lapse
    PROVE  Undisturbed(r)
<1>1. \A u \in gone : minted'[u] = minted[u]
  BY TokenTypes
<1>2. ~lapsed' /\ ~Lapse'
  BY DEF Undisturbed
<1>3. ~lapsed /\ ~Lapse
  BY <1>2
<1>4. \A u \in gone : Root(u) # r
  BY <1>1 DEF Undisturbed, Root
<1> QED BY <1>3, <1>4 DEF Undisturbed

\* The guard refuses no request of an undisturbed login.
LEMMA NeverRefused ==
    ASSUME TokenInv, ActiveInv, NEW p \in Clients, pc[p] = "sent", phase = "up",
           NEW t, t = reg[p].token, Undisturbed(Root(t))
    PROVE  Accepted(t)
<1>1. t \in DOMAIN minted
  BY DEF TokenInv, Carried
<1>2. t \notin gone /\ minted[t].key = mem.key
  BY <1>1 DEF Undisturbed, ActiveInv, KeyCurrent
<1>3. Kept
  BY <1>1, TokenTypes DEF ActiveInv, KeptInv, Presents
<1>4. reg[p].sent \in Nat /\ now \in Nat /\ now <= reg[p].sent + Latency
  BY TokenTypes DEF TokenInv, Clock
<1>5. CASE \E a \in Times : Waning(t, a)
  <2>1. PICK a \in Times : Waning(t, a)
    BY <1>5
  <2>2. reg[p].sent <= a + Latency
    BY <2>1 DEF Waning
  <2>3. a \in Nat /\ now <= a + 2 * Latency
    BY <1>4, <2>2, NumberFacts
  <2>4. t \in DOMAIN store /\ store[t] > a + 2 * Latency
    BY <2>1, <2>3 DEF Waning
  <2>5. store[t] > now
    BY <1>4, <2>3, <2>4, TokenTypes, LifetimeFacts
  <2> QED BY <1>2, <2>4, <2>5 DEF Accepted
<1>6. CASE Whole(t)
  <2>1. now - seen < Threshold - 2 * Latency /\ seen \in Nat
    BY TokenTypes, LifetimeFacts DEF Undisturbed, Lapse
  <2>2. t \in DOMAIN store /\ store[t] >= seen + Threshold
    BY <1>6 DEF Whole
  <2>3. store[t] > now
    BY <1>4, <2>1, <2>2, TokenTypes, LifetimeFacts
  <2> QED BY <1>2, <2>2, <2>3 DEF Accepted
<1> QED BY <1>1, <1>3, <1>5, <1>6, TokenTypes DEF Kept, JarKept, SentKept, SentWith

\* A request that has no new cookie ends, or one for a service token begins.
LEMMA QuietKept ==
    ASSUME TokenInv, Kept, NEW p \in Clients, ~Renewing(p),
           pc'[p] \in {"idle", "issue", "reply"}, pc'[p] = "reply" => reg'[p].op # "logout",
           reg'[p].fresh = Null,
           \A q \in Clients : q # p => pc'[q] = pc[q] /\ reg'[q] = reg[q],
           UNCHANGED <<now, store, minted, jar, seen>>
    PROVE  Kept'
<1>1. ASSUME NEW t \in Tokens, Whole(t)
      PROVE  Whole(t)'
  BY <1>1 DEF Whole
<1>2. ASSUME NEW t \in Tokens, NEW a \in Times, Waning(t, a)
      PROVE  Waning(t, a)'
  <2>1. jar = t => \E q \in Clients : Renewing(q)' /\ reg'[q].sent <= a
    BY <1>2 DEF Waning, Renewing
  <2> QED BY <1>2, <2>1 DEF Waning
<1>3. JarKept'
  BY <1>1, <1>2 DEF Kept, JarKept
<1>4. \A t \in Tokens : SentWith(t)' => SentWith(t)
  BY DEF SentWith
<1>5. SentKept'
  BY <1>2, <1>4 DEF Kept, SentKept
<1>6. FreshKept'
  BY TokenTypes DEF Kept, FreshKept
<1>7. NoLogoutLeft'
  BY DEF Kept, NoLogoutLeft
<1> QED BY <1>3, <1>5, <1>6, <1>7 DEF Kept

LEMMA TickKept ==
    ASSUME TokenInv, TokenInv', Kept, Tick
    PROVE  Kept'
<1>1. UNCHANGED <<store, minted, jar, pc, reg, seen>> /\ now' = now + 1 /\ now \in Nat
  BY TokenTypes DEF Tick
<1>2. ASSUME NEW t \in Tokens, Whole(t)
      PROVE  Whole(t)'
  BY <1>1, <1>2 DEF Whole
<1>3. ASSUME NEW t \in Tokens, NEW a \in Times, Waning(t, a)
      PROVE  Waning(t, a)'
  <2>1. a \in Nat /\ a <= now /\ 2 * Latency \in Nat
    BY <1>3, NumberFacts, LifetimeFacts DEF Waning
  <2>2. a <= now' /\ (now' <= a + 2 * Latency => now <= a + 2 * Latency)
    BY <1>1, <2>1
  <2>3. jar = t => \E q \in Clients : Renewing(q)' /\ reg'[q].sent <= a
    BY <1>1, <1>3 DEF Waning, Renewing
  <2> QED BY <1>1, <1>3, <2>2, <2>3 DEF Waning
<1>4. JarKept' /\ SentKept'
  BY <1>1, <1>2, <1>3 DEF Kept, JarKept, SentKept, SentWith
<1>5. FreshKept' /\ NoLogoutLeft'
  BY <1>1 DEF Kept, FreshKept, NoLogoutLeft
<1> QED BY <1>4, <1>5 DEF Kept

\* A request leaves with the cookie of the jar.
LEMMA SendKept ==
    ASSUME TokenInv, Kept, NEW p \in Clients, NEW op \in {"get", "logout"}, Send(p, op)
    PROVE  Kept'
<1> DEFINE r == [NoReg EXCEPT !.op = op, !.token = jar, !.sent = now]
<1>1. UNCHANGED <<now, store, minted, jar, seen>> /\ pc[p] = "idle" /\ jar # Null /\ Goto(p, "sent", r)
  BY DEF Send
<1>2. r.token = jar /\ r.sent = now /\ r.fresh = Null
  BY DEF NoReg
<1> HIDE DEF r
<1>3. /\ pc'[p] = "sent" /\ reg'[p] = r
      /\ \A q \in Clients : q # p => pc'[q] = pc[q] /\ reg'[q] = reg[q]
  BY <1>1, Moved
<1>4. ASSUME NEW t \in Tokens, Whole(t), jar = t
      PROVE  Whole(t)'
  BY <1>1, <1>2, <1>3, <1>4 DEF Whole
<1>5. ASSUME NEW t \in Tokens, NEW a \in Times, Waning(t, a)
      PROVE  Waning(t, a)'
  <2>1. jar = t => \E q \in Clients : Renewing(q)' /\ reg'[q].sent <= a
    <3>1. ~Renewing(p)
      BY <1>1 DEF Renewing
    <3>2. \A q \in Clients : Renewing(q) => Renewing(q)' /\ reg'[q] = reg[q]
      BY <1>3, <3>1 DEF Renewing
    <3> QED BY <1>5, <3>2 DEF Waning
  <2>2. jar = t => now <= a + Latency
    <3> SUFFICES ASSUME jar = t PROVE now <= a + Latency
      OBVIOUS
    <3>1. PICK q \in Clients : Renewing(q) /\ reg[q].sent <= a
      BY <1>5 DEF Waning
    <3>2. now <= reg[q].sent + Latency
      BY <3>1 DEF TokenInv, Clock, Renewing
    <3> QED BY <3>1, <3>2, TokenTypes, NumberFacts
  <2> QED BY <1>1, <1>2, <1>3, <1>5, <2>1, <2>2 DEF Waning
<1>6. JarKept'
  BY <1>1, <1>4, <1>5 DEF Kept, JarKept
<1>7. \A t \in Tokens : SentWith(t)' => SentWith(t) \/ jar = t
  BY <1>2, <1>3 DEF SentWith
<1>8. SentKept'
  BY <1>1, <1>5, <1>7 DEF Kept, SentKept
<1>9. FreshKept'
  BY <1>1, <1>2, <1>3, TokenTypes DEF Kept, FreshKept
<1>10. NoLogoutLeft'
  BY <1>3 DEF Kept, NoLogoutLeft
<1> QED BY <1>6, <1>8, <1>9, <1>10 DEF Kept

\* What the guard does with a request it accepts.
LEMMA GuardFacts ==
    ASSUME TokenInv, NEW p \in Clients, Authenticate(p), NEW t, t = reg[p].token, Accepted(t)
    PROVE  /\ UNCHANGED <<now, store, minted, jar, ended, gone>>
           /\ seen' = now /\ lapsed' = (lapsed \/ Lapse)
           /\ pc[p] = "sent" /\ t \in DOMAIN minted
           /\ now <= reg[p].sent + Latency /\ reg[p].sent <= now
           /\ pc'[p] = IF NeedsRenewal(t) THEN "renew" ELSE Handler(p)
           /\ reg'[p].token = t /\ reg'[p].fresh = Null /\ reg'[p].op = reg[p].op
           /\ reg'[p].at = now /\ reg'[p].sent = reg[p].sent
           /\ \A q \in Clients : q # p => pc'[q] = pc[q] /\ reg'[q] = reg[q]
<1> DEFINE l == IF NeedsRenewal(t) THEN "renew" ELSE Handler(p)
           r == [reg[p] EXCEPT !.at = now]
<1>1. /\ UNCHANGED <<now, store, minted, jar, ended, gone>>
      /\ pc[p] = "sent"
  BY DEF Authenticate
<1>2. Goto(p, l, r) /\ seen' = now /\ lapsed' = (lapsed \/ Lapse)
  BY Zenon DEF Authenticate
<1>3. t \in DOMAIN minted /\ reg[p].fresh = Null /\ reg[p] \in Reg
      /\ now <= reg[p].sent + Latency /\ reg[p].sent <= now
  BY <1>1 DEF TokenInv, Carried, SessionTypeOK, Clock
<1>4. /\ r.token = t /\ r.fresh = Null /\ r.op = reg[p].op /\ r.at = now /\ r.sent = reg[p].sent
  BY <1>3 DEF Reg
<1>5. /\ pc'[p] = l /\ reg'[p] = r
      /\ \A q \in Clients : q # p => pc'[q] = pc[q] /\ reg'[q] = reg[q]
  <2> HIDE DEF l, r
  <2> QED BY <1>2, Moved
<1> QED BY <1>1, <1>2, <1>3, <1>4, <1>5

LEMMA GuardPassesKept ==
    ASSUME TokenInv, Kept, NEW p \in Clients, Authenticate(p), NEW t, t = reg[p].token,
           Accepted(t), ~NeedsRenewal(t)
    PROVE  Kept'
<1>1. /\ UNCHANGED <<now, store, minted, jar>> /\ seen' = now
      /\ pc[p] = "sent" /\ t \in DOMAIN minted /\ now <= reg[p].sent + Latency
      /\ pc'[p] = Handler(p) /\ reg'[p].token = t /\ reg'[p].fresh = Null
      /\ reg'[p].op = reg[p].op
      /\ \A q \in Clients : q # p => pc'[q] = pc[q] /\ reg'[q] = reg[q]
  BY GuardFacts
<1>2. pc'[p] \in {"logout", "reply"} /\ (pc'[p] = "reply" => reg'[p].op # "logout")
  BY <1>1 DEF Handler
<1>3. minted[t].exp >= now + Threshold
  BY <1>1, TokenTypes, LifetimeFacts DEF NeedsRenewal
<1>4. ASSUME NEW j \in Tokens, Whole(j)
      PROVE  Whole(j)'
  <2>1. minted[j].exp >= now + Threshold
    <3>1. CASE j = t
      BY <1>3, <3>1
    <3>2. CASE j # t
      <4>1. minted[j].exp >= reg[p].sent + Latency + Threshold /\ j \in DOMAIN minted
        BY <1>1, <1>4, <3>2, TokenTypes DEF Whole
      <4> QED BY <1>1, <4>1, TokenTypes, LifetimeFacts
    <3> QED BY <3>1, <3>2
  <2> QED BY <1>1, <1>2, <1>4, <2>1 DEF Whole
<1>5. ASSUME NEW j \in Tokens, NEW a \in Times, Waning(j, a)
      PROVE  Waning(j, a)'
  <2>1. \A q \in Clients : Renewing(q) => Renewing(q)' /\ reg'[q] = reg[q]
    BY <1>1 DEF Renewing
  <2>2. jar = j => \E q \in Clients : Renewing(q)' /\ reg'[q].sent <= a
    BY <1>5, <2>1 DEF Waning
  <2> QED BY <1>1, <1>2, <1>5, <2>2 DEF Waning
<1>6. JarKept'
  BY <1>1, <1>4, <1>5 DEF Kept, JarKept
<1>7. \A j \in Tokens : SentWith(j)' => SentWith(j)
  BY <1>1, <1>2 DEF SentWith
<1>8. SentKept'
  BY <1>1, <1>5, <1>7 DEF Kept, SentKept
<1>9. FreshKept'
  BY <1>1, TokenTypes DEF Kept, FreshKept
<1>10. NoLogoutLeft'
  BY <1>1, <1>2 DEF Kept, NoLogoutLeft
<1> QED BY <1>6, <1>8, <1>9, <1>10 DEF Kept

\* The first request that renews makes the token of the jar wane.
LEMMA GuardRenewsKept ==
    ASSUME TokenInv, Kept, NEW p \in Clients, Authenticate(p), NEW t, t = reg[p].token,
           Accepted(t), NeedsRenewal(t), ~Lapse
    PROVE  Kept'
<1>1. /\ UNCHANGED <<now, store, minted, jar>> /\ seen' = now
      /\ pc[p] = "sent" /\ t \in DOMAIN minted /\ reg[p].sent <= now
      /\ pc'[p] = "renew" /\ reg'[p].token = t /\ reg'[p].fresh = Null
      /\ reg'[p].at = now /\ reg'[p].sent = reg[p].sent
      /\ \A q \in Clients : q # p => pc'[q] = pc[q] /\ reg'[q] = reg[q]
  BY GuardFacts
<1>2. Renewing(p)' /\ \A q \in Clients : Renewing(q) => Renewing(q)' /\ reg'[q] = reg[q]
  BY <1>1 DEF Renewing
<1>3. ASSUME NEW j \in Tokens, Whole(j)
      PROVE  Waning(j, now)'
  <2>1. j \in DOMAIN store /\ store[j] >= seen + Threshold
    BY <1>3 DEF Whole
  <2>2. store[j] > now + 2 * Latency
    BY <2>1, TokenTypes, LifetimeFacts DEF Lapse
  <2>3. \A q \in Clients : reg'[q].token = j =>
          /\ pc'[q] \in {"renew", "shorten"} => now <= reg'[q].at
          /\ pc'[q] = "sent" => reg'[q].sent <= now + Latency
    <3> SUFFICES ASSUME NEW q \in Clients, reg'[q].token = j
                 PROVE  /\ pc'[q] \in {"renew", "shorten"} => now <= reg'[q].at
                        /\ pc'[q] = "sent" => reg'[q].sent <= now + Latency
      OBVIOUS
    <3>1. CASE q = p
      BY <1>1, <3>1, TokenTypes
    <3>2. CASE q # p
      <4>1. pc[q] = "sent" => reg[q].sent <= now
        BY DEF TokenInv, Clock
      <4>2. pc[q] = "sent" => reg[q].sent <= now + Latency
        BY <4>1, TokenTypes, LifetimeFacts
      <4> QED BY <1>1, <1>3, <3>2, <4>2 DEF Whole
    <3> QED BY <3>1, <3>2
  <2>4. jar' = j => \E q \in Clients : Renewing(q)' /\ reg'[q].sent <= now
    BY <1>1, <1>2
  <2>5. now <= now /\ now' = now /\ store' = store
    BY <1>1, TokenTypes
  <2> QED BY <2>1, <2>2, <2>3, <2>4, <2>5 DEF Waning
<1>4. ASSUME NEW j \in Tokens, NEW a \in Times, Waning(j, a)
      PROVE  Waning(j, a)'
  <2>1. jar = j => \E q \in Clients : Renewing(q)' /\ reg'[q].sent <= a
    BY <1>2, <1>4 DEF Waning
  <2> QED BY <1>1, <1>4, <2>1 DEF Waning
<1>5. now \in Times
  BY TokenTypes
<1>6. JarKept'
  BY <1>1, <1>3, <1>4, <1>5 DEF Kept, JarKept
<1>7. \A j \in Tokens : SentWith(j)' => SentWith(j)
  BY <1>1 DEF SentWith
<1>8. SentKept'
  BY <1>1, <1>4, <1>7 DEF Kept, SentKept
<1>9. FreshKept'
  BY <1>1, TokenTypes DEF Kept, FreshKept
<1>10. NoLogoutLeft'
  BY <1>1 DEF Kept, NoLogoutLeft
<1> QED BY <1>6, <1>8, <1>9, <1>10 DEF Kept

\* register_jti drops no live entry.
LEMMA LiveEntriesStay ==
    ASSUME TokenInv, NEW u, NEW root, GenerateToken(u, root), NEW v \in DOMAIN store, store[v] > now
    PROVE  v \in DOMAIN store' /\ store'[v] = store[v]
<1>1. v # u
  BY MintFacts, TokenTypes
<1>2. ~(store[v] <= now)
  BY TokenTypes
<1> QED BY <1>1, <1>2 DEF GenerateToken, RegisterJti, Put, Drop

LEMMA RenewKept ==
    ASSUME TokenInv, Timed, Kept, NEW p \in Clients, Renew(p)
    PROVE  Kept'
<1> DEFINE t == reg[p].token
<1>1. /\ pc[p] = "renew" /\ UNCHANGED <<now, jar, seen>>
      /\ \E u \in Tokens : GenerateToken(u, Root(t)) /\ Goto(p, "shorten", [reg[p] EXCEPT !.fresh = u])
  BY DEF Renew
<1>2. PICK u \in Tokens : GenerateToken(u, Root(t)) /\ Goto(p, "shorten", [reg[p] EXCEPT !.fresh = u])
  BY <1>1
<1> DEFINE r == [reg[p] EXCEPT !.fresh = u]
<1>3. reg[p] \in Reg /\ reg[p].fresh = Null
  BY <1>1 DEF TokenInv, SessionTypeOK, Carried
<1>4. r.token = t /\ r.fresh = u /\ r.op = reg[p].op /\ r.at = reg[p].at /\ r.sent = reg[p].sent
  BY <1>3 DEF Reg
<1>5. /\ pc'[p] = "shorten" /\ reg'[p] = r
      /\ \A q \in Clients : q # p => pc'[q] = pc[q] /\ reg'[q] = reg[q]
  <2> HIDE DEF r
  <2> QED BY <1>2, Moved DEF r
<1> HIDE DEF r
<1>6. \A q \in Clients : /\ reg'[q].token = reg[q].token /\ reg'[q].at = reg[q].at
                         /\ reg'[q].sent = reg[q].sent /\ reg'[q].op = reg[q].op
                         /\ q # p => reg'[q].fresh = reg[q].fresh
                         /\ pc'[q] = "sent" <=> pc[q] = "sent"
                         /\ pc'[q] = "reply" <=> pc[q] = "reply"
                         /\ pc'[q] \in {"renew", "shorten"} <=> pc[q] \in {"renew", "shorten"}
                         /\ Renewing(q) => Renewing(q)'
  BY <1>1, <1>4, <1>5 DEF Renewing
<1>7. /\ u \notin DOMAIN minted /\ u \in DOMAIN store' /\ store'[u] = now + TTL
      /\ minted'[u].exp = now + TTL /\ \A v \in DOMAIN minted : minted'[v] = minted[v]
  <2>1. PICK root : root = Root(t)
    OBVIOUS
  <2>2. GenerateToken(u, root)
    BY <1>2, <2>1
  <2>3. /\ u \notin DOMAIN minted /\ u \in DOMAIN store' /\ store'[u] = now + TTL
        /\ minted'[u] = [root |-> root, exp |-> now + TTL, key |-> mem.key]
        /\ \A v \in DOMAIN minted : minted'[v] = minted[v]
    BY <2>2, MintFacts
  <2> QED BY <2>3
<1>8. \A v \in DOMAIN store : store[v] > now => v \in DOMAIN store' /\ store'[v] = store[v]
  BY <1>2, LiveEntriesStay
<1>9. now < seen + Threshold /\ reg[p].sent <= now
  <2>1. /\ reg[p].sent <= now /\ now <= reg[p].sent + Latency
        /\ reg[p].sent <= reg[p].at /\ reg[p].at <= seen
    BY <1>1 DEF TokenInv, Clock, Timed, Renewing
  <2> QED BY <2>1, TokenTypes, LifetimeFacts
<1>10. ASSUME NEW j \in Tokens, Whole(j)
       PROVE  Whole(j)'
  <2>1. j \in DOMAIN store /\ j \in DOMAIN minted /\ store[j] > now
    BY <1>9, <1>10, TokenTypes, LifetimeFacts DEF Whole
  <2>2. j \in DOMAIN store' /\ store'[j] = store[j] /\ minted'[j] = minted[j]
    BY <1>7, <1>8, <2>1
  <2> QED BY <1>1, <1>6, <1>10, <2>2 DEF Whole
<1>11. ASSUME NEW j \in Tokens, NEW a \in Times, Waning(j, a)
       PROVE  Waning(j, a)'
  <2>1. now <= a + 2 * Latency => j \in DOMAIN store' /\ store'[j] > a + 2 * Latency
    <3> SUFFICES ASSUME now <= a + 2 * Latency
                 PROVE  j \in DOMAIN store' /\ store'[j] > a + 2 * Latency
      OBVIOUS
    <3>1. j \in DOMAIN store /\ store[j] > a + 2 * Latency
      BY <1>11 DEF Waning
    <3>2. store[j] > now
      BY <3>1, TokenTypes, NumberFacts
    <3> QED BY <1>8, <3>1, <3>2
  <2>2. jar = j => \E q \in Clients : Renewing(q)' /\ reg'[q].sent <= a
    BY <1>6, <1>11 DEF Waning
  <2> QED BY <1>1, <1>6, <1>11, <2>1, <2>2 DEF Waning
<1>12. JarKept'
  BY <1>1, <1>10, <1>11 DEF Kept, JarKept
<1>13. SentKept'
  BY <1>1, <1>6, <1>11 DEF Kept, SentKept, SentWith
<1>14. FreshKept'
  <2> SUFFICES ASSUME NEW q \in Clients, NEW v \in Tokens, reg'[q].fresh = v
               PROVE  /\ v \in DOMAIN store' /\ store'[v] = minted'[v].exp
                      /\ minted'[v].exp >= reg'[q].sent + TTL
    BY DEF FreshKept
  <2>1. CASE q = p
    <3>1. v = u
      BY <1>4, <1>5, <2>1
    <3>2. now + TTL >= reg[p].sent + TTL
      BY <1>9, TokenTypes, LifetimeFacts
    <3> QED BY <1>6, <1>7, <2>1, <3>1, <3>2
  <2>2. CASE q # p
    <3>1. reg[q].fresh = v /\ v # Null
      BY <1>6, <2>2, TokenTypes
    <3>2. v \in DOMAIN store /\ store[v] = minted[v].exp /\ minted[v].exp >= reg[q].sent + TTL
      BY <3>1 DEF Kept, FreshKept
    <3>3. pc[q] # "idle"
      BY <3>1 DEF TokenInv, Carried, NoReg
    <3>4. now <= reg[q].sent + Latency
      BY <3>3 DEF TokenInv, Clock
    <3>5. v \in DOMAIN minted /\ store[v] > now
      BY <3>2, <3>4, TokenTypes, LifetimeFacts
    <3> QED BY <1>6, <1>7, <1>8, <3>2, <3>5
  <2> QED BY <2>1, <2>2
<1>15. NoLogoutLeft'
  BY <1>6 DEF Kept, NoLogoutLeft
<1> QED BY <1>12, <1>13, <1>14, <1>15 DEF Kept

LEMMA ShortenKept ==
    ASSUME TokenInv, Kept, NEW p \in Clients, Shorten(p)
    PROVE  Kept'
<1> DEFINE t == reg[p].token
           g == reg[p].at + Grace
<1>1. /\ pc[p] = "shorten" /\ UNCHANGED <<now, minted, jar, seen>>
      /\ store' = GraceExp(t, g) /\ Goto(p, Handler(p), reg[p])
  BY DEF Shorten
<1>2. /\ pc'[p] = Handler(p) /\ reg'[p] = reg[p] /\ reg' = reg
      /\ \A q \in Clients : q # p => pc'[q] = pc[q]
  <2>1. reg' = reg
    BY <1>1 DEF Goto, TokenInv, SessionTypeOK
  <2> QED BY <1>1, <2>1, Moved
<1>3. pc'[p] \in {"logout", "reply"} /\ (pc'[p] = "reply" => reg[p].op # "logout")
  BY <1>2 DEF Handler
<1>4. reg[p].fresh # Null
  BY <1>1 DEF TokenInv, Carried
<1>5. \A q \in Clients : Renewing(q) => Renewing(q)'
  BY <1>2, <1>3, <1>4 DEF Renewing
<1>6. /\ DOMAIN store' = DOMAIN store
      /\ \A v \in DOMAIN store : v # t => store'[v] = store[v]
      /\ t \in DOMAIN store => store'[t] = store[t] \/ store'[t] = g
  BY <1>1 DEF GraceExp, Put
<1>7. ASSUME NEW j \in Tokens, Whole(j)
      PROVE  Whole(j)'
  <2>1. j # t
    BY <1>1, <1>7 DEF Whole
  <2> QED BY <1>1, <1>2, <1>3, <1>6, <1>7, <2>1 DEF Whole
<1>8. ASSUME NEW j \in Tokens, NEW a \in Times, Waning(j, a)
      PROVE  Waning(j, a)'
  <2>1. now <= a + 2 * Latency => j \in DOMAIN store' /\ store'[j] > a + 2 * Latency
    <3> SUFFICES ASSUME now <= a + 2 * Latency
                 PROVE  j \in DOMAIN store' /\ store'[j] > a + 2 * Latency
      OBVIOUS
    <3>1. j \in DOMAIN store /\ store[j] > a + 2 * Latency
      BY <1>8 DEF Waning
    <3>2. j = t => g > a + 2 * Latency
      <4>1. j = t => a <= reg[p].at
        BY <1>1, <1>8 DEF Waning
      <4> QED BY <4>1, TokenTypes, NumberFacts, LifetimeFacts
    <3> HIDE DEF g
    <3> QED BY <1>6, <3>1, <3>2
  <2>2. jar = j => \E q \in Clients : Renewing(q)' /\ reg'[q].sent <= a
    BY <1>2, <1>5, <1>8 DEF Waning
  <2> QED BY <1>1, <1>2, <1>3, <1>8, <2>1, <2>2 DEF Waning
<1>9. JarKept'
  BY <1>1, <1>7, <1>8 DEF Kept, JarKept
<1>10. SentKept'
  <2>1. \A j \in Tokens : SentWith(j)' => SentWith(j)
    BY <1>2, <1>3 DEF SentWith
  <2> QED BY <1>1, <1>8, <2>1 DEF Kept, SentKept
<1>11. FreshKept'
  <2>1. \A q \in Clients : reg[q].fresh # Null => reg[q].fresh # t
    BY DEF TokenInv, FreshPrivate
  <2> QED BY <1>1, <1>2, <1>6, <2>1, TokenTypes DEF Kept, FreshKept
<1>12. NoLogoutLeft'
  BY <1>2, <1>3 DEF Kept, NoLogoutLeft
<1> QED BY <1>9, <1>10, <1>11, <1>12 DEF Kept

\* The answer with the new cookie arrives.
LEMMA DeliverKept ==
    ASSUME TokenInv, Timed, Kept, NEW p \in Clients, Deliver(p), reg[p].fresh # Null
    PROVE  Kept'
<1>1. PICK u \in Tokens : u = reg[p].fresh
  BY TokenTypes
<1>2. /\ pc[p] = "reply" /\ jar' = u /\ Done(p) /\ UNCHANGED <<now, store, minted, seen>>
  BY <1>1 DEF Deliver, Kept, NoLogoutLeft
<1>3. /\ pc'[p] = "idle" /\ reg'[p] = NoReg /\ NoReg.token = Null /\ NoReg.fresh = Null
      /\ \A q \in Clients : q # p => pc'[q] = pc[q] /\ reg'[q] = reg[q]
  BY <1>2, Moved DEF Done, NoReg
<1>4. /\ u \in DOMAIN minted /\ u # jar /\ u # Null
      /\ \A q \in Clients : reg[q].token # u
  BY <1>1, TokenTypes DEF TokenInv, FreshPrivate
<1>5. /\ u \in DOMAIN store /\ store[u] = minted[u].exp /\ minted[u].exp >= reg[p].sent + TTL
  BY <1>1 DEF Kept, FreshKept
<1>6. /\ now <= reg[p].sent + Latency /\ seen <= now
      /\ reg[p].sent <= reg[p].at /\ reg[p].at <= seen
  BY <1>2 DEF TokenInv, Clock, Timed, Renewing
<1>7. Whole(u)'
  <2>1. minted[u].exp >= seen + Threshold
    BY <1>4, <1>5, <1>6, TokenTypes, LifetimeFacts
  <2>2. \A q \in Clients : pc[q] = "sent" => minted[u].exp >= reg[q].sent + Latency + Threshold
    <3>1. \A q \in Clients : pc[q] = "sent" => reg[q].sent <= now
      BY DEF TokenInv, Clock
    <3> QED BY <1>4, <1>5, <1>6, <3>1, TokenTypes, LifetimeFacts
  <2> QED BY <1>2, <1>3, <1>4, <1>5, <2>1, <2>2 DEF Whole
<1>8. ASSUME NEW t \in Tokens, Whole(t), t # u
      PROVE  \E a \in Times : Waning(t, a)'
  <2>1. PICK a \in Times : a = reg[p].at
    BY TokenTypes
  <2>2. a <= now /\ now <= a + Latency
    BY <1>6, <2>1, TokenTypes, LifetimeFacts
  <2>3. t \in DOMAIN store /\ store[t] > a + 2 * Latency
    BY <1>6, <1>8, <2>1, TokenTypes, LifetimeFacts DEF Whole
  <2>4. \A q \in Clients : pc[q] = "sent" => reg[q].sent <= a + Latency
    <3>1. \A q \in Clients : pc[q] = "sent" => reg[q].sent <= now
      BY DEF TokenInv, Clock
    <3> QED BY <2>2, <3>1, TokenTypes, NumberFacts
  <2>5. Waning(t, a)'
    BY <1>2, <1>3, <1>8, <2>2, <2>3, <2>4 DEF Waning, Whole
  <2> QED BY <2>5
<1>9. ASSUME NEW t \in Tokens, NEW a \in Times, Waning(t, a), t # u
      PROVE  Waning(t, a)'
  BY <1>2, <1>3, <1>9 DEF Waning
<1>10. JarKept'
  BY <1>2, <1>7 DEF JarKept
<1>11. SentKept'
  <2> SUFFICES ASSUME NEW t \in Tokens, SentWith(t)', jar' # t
               PROVE  \E a \in Times : Waning(t, a)'
    BY DEF SentKept
  <2>1. SentWith(t) /\ t # u
    BY <1>2, <1>3 DEF SentWith
  <2>2. Whole(t) \/ \E a \in Times : Waning(t, a)
    BY <2>1 DEF Kept, JarKept, SentKept
  <2> QED BY <1>8, <1>9, <2>1, <2>2
<1>12. FreshKept'
  BY <1>2, <1>3, TokenTypes DEF Kept, FreshKept
<1>13. NoLogoutLeft'
  BY <1>3 DEF Kept, NoLogoutLeft
<1> QED BY <1>10, <1>11, <1>12, <1>13 DEF Kept

LEMMA LoginKept ==
    ASSUME TokenInv, NEW t \in Tokens, Login(t)
    PROVE  Kept'
<1>1. /\ GenerateToken(t, t) /\ jar' = t /\ seen' = now /\ UNCHANGED <<now, pc, reg>>
      /\ Busy = {}
  BY DEF Login
<1>2. \A q \in Clients : /\ pc'[q] = "idle" /\ reg'[q].token = Null /\ reg'[q].fresh = Null
  BY <1>1 DEF Busy, TokenInv, Carried, NoReg
<1>3. /\ t \in DOMAIN store' /\ store'[t] = now + TTL
      /\ minted'[t] = [root |-> t, exp |-> now + TTL, key |-> mem.key]
  BY <1>1, MintFacts
<1>4. Whole(t)'
  <2>1. now + TTL >= now + Threshold
    BY TokenTypes, LifetimeFacts
  <2> QED BY <1>1, <1>2, <1>3, <2>1 DEF Whole
<1>5. JarKept' /\ NoLogoutLeft'
  BY <1>1, <1>2, <1>4 DEF JarKept, NoLogoutLeft
<1>6. SentKept' /\ FreshKept'
  BY <1>2, TokenTypes DEF SentKept, SentWith, FreshKept
<1> QED BY <1>5, <1>6 DEF Kept

LEMMA ActiveInvInit ==
    ASSUME Init
    PROVE  ActiveInv
<1>1. /\ jar = Null /\ minted = Empty /\ seen = 0 /\ now = 0 /\ Null \notin Tokens
      /\ \A q \in Clients : pc[q] = "idle" /\ reg[q].token = Null /\ reg[q].fresh = Null
  BY NumberFacts DEF Init, NoReg
<1>2. \A t \in Tokens : ~Presents(t)
  BY <1>1 DEF Presents
<1>3. OneLogin /\ Timed /\ KeptInv
  BY <1>1, <1>2 DEF OneLogin, Timed, Renewing, KeptInv
<1>4. KeyCurrent
  BY <1>1 DEF KeyCurrent, Empty
<1> QED BY <1>3, <1>4 DEF ActiveInv

\* A step that mints nothing and shows the browser no other token leaves the
\* login as it is.
LEMMA SameLogin ==
    ASSUME TokenInv, ActiveInv, UNCHANGED minted, gone \subseteq gone',
           DOMAIN ended \subseteq DOMAIN ended',
           lapsed' = FALSE /\ ~Lapse' => lapsed = FALSE /\ ~Lapse,
           \A v \in Tokens : Presents(v)' => Presents(v),
           \A p \in Clients : pc'[p] = "reply" => reg'[p].token # Null
    PROVE  /\ OneLogin'
           /\ UNCHANGED <<phase, mem>> => KeyCurrent'
           /\ \A v, r \in Tokens : Presents(v)' /\ Root(v)' = r /\ Undisturbed(r)' =>
                Presents(v) /\ Root(v) = r /\ Undisturbed(r) /\ Kept
<1>1. OneLogin'
  BY DEF ActiveInv, OneLogin, Root
<1>2. UNCHANGED <<phase, mem>> => KeyCurrent'
  BY DEF ActiveInv, KeyCurrent
<1>3. ASSUME NEW v \in Tokens, NEW r \in Tokens, Presents(v)', Root(v)' = r, Undisturbed(r)'
      PROVE  Presents(v) /\ Root(v) = r /\ Undisturbed(r) /\ Kept
  <2>1. Presents(v) /\ Root(v) = r
    BY <1>3 DEF Root
  <2>2. Undisturbed(r)
    BY <1>3, UndisturbedBefore
  <2> QED BY <2>1, <2>2 DEF ActiveInv, KeptInv
<1> QED BY <1>1, <1>2, <1>3

\* Lapse and the marks of the login, where they do not change.
LEMMA SameClock ==
    ASSUME UNCHANGED <<now, seen, lapsed>>
    PROVE  lapsed' = FALSE /\ ~Lapse' => lapsed = FALSE /\ ~Lapse
BY DEF Lapse

LEMMA SendActive ==
    ASSUME TokenInv, ActiveInv, NEW p \in Clients, NEW op \in {"get", "logout"}, Send(p, op),
           UNCHANGED startupVars
    PROVE  ActiveInv'
<1> DEFINE r == [NoReg EXCEPT !.op = op, !.token = jar, !.sent = now]
<1>1. /\ UNCHANGED <<now, minted, jar, ended, gone, seen, lapsed, phase, mem>>
      /\ pc[p] = "idle" /\ Goto(p, "sent", r)
  BY DEF Send, startupVars
<1>2. r.token = jar /\ r.fresh = Null
  BY DEF NoReg
<1> HIDE DEF r
<1>3. /\ pc'[p] = "sent" /\ reg'[p] = r
      /\ \A q \in Clients : q # p => pc'[q] = pc[q] /\ reg'[q] = reg[q]
  BY <1>1, Moved
<1>4. \A v \in Tokens : Presents(v)' => Presents(v)
  BY <1>1, <1>2, <1>3, TokenTypes DEF Presents
<1>5. \A q \in Clients : pc'[q] = "reply" => reg'[q].token # Null
  BY <1>3 DEF ActiveInv, OneLogin
<1>6. Timed'
  BY <1>1, <1>3 DEF ActiveInv, Timed, Renewing
<1>7. /\ OneLogin' /\ KeyCurrent'
      /\ \A v, s \in Tokens : Presents(v)' /\ Root(v)' = s /\ Undisturbed(s)' => Kept
  BY <1>1, <1>4, <1>5, SameLogin, SameClock
<1>8. KeptInv'
  BY <1>7, SendKept DEF KeptInv
<1> QED BY <1>6, <1>7, <1>8 DEF ActiveInv

LEMMA AuthenticateActive ==
    ASSUME TokenInv, ActiveInv, NEW p \in Clients, Authenticate(p), UNCHANGED startupVars
    PROVE  ActiveInv'
<1>1. PICK t : t = reg[p].token
  OBVIOUS
<1>2. /\ UNCHANGED <<now, store, minted, jar, ended, gone, phase, mem>>
      /\ pc[p] = "sent" /\ phase = "up" /\ t \in DOMAIN minted /\ t \in Tokens /\ reg[p].fresh = Null
  BY <1>1, TokenTypes DEF Authenticate, startupVars, TokenInv, Carried
<1>3. CASE Accepted(t)
  <2>1. /\ seen' = now /\ lapsed' = (lapsed \/ Lapse) /\ reg[p].sent <= now
        /\ pc'[p] = IF NeedsRenewal(t) THEN "renew" ELSE Handler(p)
        /\ reg'[p].token = t /\ reg'[p].fresh = Null /\ reg'[p].at = now /\ reg'[p].sent = reg[p].sent
        /\ \A q \in Clients : q # p => pc'[q] = pc[q] /\ reg'[q] = reg[q]
    BY <1>1, <1>3, GuardFacts
  <2>2. \A v \in Tokens : Presents(v)' => Presents(v)
    BY <1>1, <1>2, <2>1, TokenTypes DEF Presents
  <2>3. \A q \in Clients : pc'[q] = "reply" => reg'[q].token # Null
    BY <1>2, <2>1, TokenTypes DEF ActiveInv, OneLogin
  <2>4. Timed'
    <3>1. seen <= now /\ now <= now
      BY TokenTypes DEF ActiveInv, Timed
    <3>2. \A q \in Clients : q # p /\ Renewing(q)' => Renewing(q)
      BY <2>1 DEF Renewing
    <3>3. \A q \in Clients : q # p /\ Renewing(q)' => reg[q].sent <= reg[q].at /\ reg[q].at <= now
      BY <3>1, <3>2, TokenTypes DEF ActiveInv, Timed
    <3> QED BY <1>2, <2>1, <3>1, <3>3 DEF Timed
  <2>5. /\ OneLogin' /\ KeyCurrent'
        /\ \A v, s \in Tokens : Presents(v)' /\ Root(v)' = s /\ Undisturbed(s)' =>
             Kept /\ Undisturbed(s)
    <3>1. lapsed \in BOOLEAN
      BY DEF TokenInv, SessionTypeOK
    <3>2. lapsed' = FALSE => lapsed = FALSE /\ ~Lapse
      BY <2>1, <3>1, Zenon
    <3> QED BY <1>2, <2>2, <2>3, <3>2, SameLogin
  <2>6. KeptInv'
    <3> SUFFICES ASSUME Kept, ~Lapse
                 PROVE  Kept'
      BY <2>5 DEF KeptInv, Undisturbed
    <3> QED BY <1>1, <1>3, GuardPassesKept, GuardRenewsKept
  <2> QED BY <2>4, <2>5, <2>6 DEF ActiveInv
<1>4. CASE ~Accepted(t)
  <2>1. /\ IF reg[p].op = "logout" THEN Goto(p, "reply", reg[p]) ELSE Done(p)
        /\ UNCHANGED <<seen, lapsed>>
    BY <1>1, <1>4, Zenon DEF Authenticate
  <2>2. PICK r : /\ r = reg'[p] /\ r.fresh = Null /\ r.token \in {t, Null}
                 /\ pc'[p] \in {"reply", "idle"} /\ (pc'[p] = "reply" => r.token = t)
                 /\ \A q \in Clients : q # p => pc'[q] = pc[q] /\ reg'[q] = reg[q]
    BY <1>1, <1>2, <2>1, Moved DEF Done, NoReg
  <2>3. \A v \in Tokens : Presents(v)' => Presents(v)
    BY <1>1, <1>2, <2>2, TokenTypes DEF Presents
  <2>4. \A q \in Clients : pc'[q] = "reply" => reg'[q].token # Null
    BY <1>2, <2>2, TokenTypes DEF ActiveInv, OneLogin
  <2>5. Timed'
    BY <1>2, <2>1, <2>2 DEF ActiveInv, Timed, Renewing
  <2>6. /\ OneLogin' /\ KeyCurrent'
        /\ \A v, s \in Tokens : Presents(v)' /\ Root(v)' = s /\ Undisturbed(s)' =>
             Presents(v) /\ Root(v) = s /\ Undisturbed(s)
    BY <1>2, <2>1, <2>3, <2>4, SameLogin, SameClock
  <2>7. \A v \in Tokens : Presents(v) => Root(v) = Root(t)
    BY <1>1, <1>2 DEF ActiveInv, OneLogin, Presents
  <2>8. ~Undisturbed(Root(t))
    BY <1>1, <1>2, <1>4, NeverRefused
  <2>9. KeptInv'
    BY <2>6, <2>7, <2>8 DEF KeptInv
  <2> QED BY <2>5, <2>6, <2>9 DEF ActiveInv
<1> QED BY <1>3, <1>4

LEMMA RenewActive ==
    ASSUME TokenInv, ActiveInv, NEW p \in Clients, Renew(p), UNCHANGED startupVars
    PROVE  ActiveInv'
<1>1. /\ pc[p] = "renew" /\ phase = "up"
      /\ UNCHANGED <<now, jar, ended, gone, seen, lapsed, phase, mem>>
      /\ \E u \in Tokens : /\ GenerateToken(u, Root(reg[p].token))
                           /\ Goto(p, "shorten", [reg[p] EXCEPT !.fresh = u])
  BY DEF Renew, startupVars
<1>2. PICK t \in Tokens : t = reg[p].token /\ t \in DOMAIN minted
  BY <1>1, TokenTypes DEF TokenInv, Carried
<1>3. PICK root : root = Root(t)
  OBVIOUS
<1>4. PICK u \in Tokens : GenerateToken(u, root) /\ Goto(p, "shorten", [reg[p] EXCEPT !.fresh = u])
  BY <1>1, <1>2, <1>3
<1> DEFINE r == [reg[p] EXCEPT !.fresh = u]
<1>5. reg[p] \in Reg
  BY DEF TokenInv, SessionTypeOK
<1>6. r.token = t /\ r.fresh = u /\ r.at = reg[p].at /\ r.sent = reg[p].sent
  BY <1>2, <1>5 DEF Reg
<1>7. Goto(p, "shorten", r)
  BY <1>4
<1> HIDE DEF r
<1>8. /\ pc'[p] = "shorten" /\ reg'[p] = r
      /\ \A q \in Clients : q # p => pc'[q] = pc[q] /\ reg'[q] = reg[q]
  BY <1>7, Moved
<1>9. /\ u \notin DOMAIN minted /\ DOMAIN minted' = DOMAIN minted \cup {u}
      /\ minted'[u] = [root |-> root, exp |-> now + TTL, key |-> mem.key]
      /\ \A v \in DOMAIN minted : minted'[v] = minted[v]
  BY <1>4, MintFacts
<1>10. Presents(t) /\ \A v \in Tokens : Presents(v) => v \in DOMAIN minted /\ Root(v) = root
  BY <1>2, <1>3, TokenTypes DEF Presents, ActiveInv, OneLogin
<1>11. \A v \in Tokens : Presents(v)' => Presents(v) \/ v = u
  BY <1>1, <1>2, <1>6, <1>8 DEF Presents
<1>12. \A v \in Tokens : Presents(v)' => Root(v)' = root
  BY <1>9, <1>10, <1>11 DEF Root
<1>13. OneLogin'
  BY <1>8, <1>12 DEF ActiveInv, OneLogin
<1>14. Timed'
  <2>1. Renewing(p) /\ \A q \in Clients : q # p /\ Renewing(q)' => Renewing(q)
    BY <1>1, <1>8 DEF Renewing
  <2> QED BY <1>1, <1>6, <1>8, <2>1 DEF ActiveInv, Timed
<1>15. KeyCurrent'
  BY <1>1, <1>9 DEF ActiveInv, KeyCurrent
<1>16. KeptInv'
  <2> SUFFICES ASSUME NEW v \in Tokens, NEW s \in Tokens, Presents(v)', Root(v)' = s, Undisturbed(s)'
               PROVE  Kept'
    BY DEF KeptInv
  <2>1. s = root
    BY <1>12
  <2>2. Undisturbed(s)
    BY <1>1, <1>9, UndisturbedBefore, SameClock
  <2>3. Kept
    BY <1>3, <1>10, <2>1, <2>2 DEF ActiveInv, KeptInv
  <2> QED BY <2>3, RenewKept DEF ActiveInv
<1> QED BY <1>13, <1>14, <1>15, <1>16 DEF ActiveInv

LEMMA ShortenActive ==
    ASSUME TokenInv, ActiveInv, NEW p \in Clients, Shorten(p), UNCHANGED startupVars
    PROVE  ActiveInv'
<1>1. /\ pc[p] = "shorten" /\ Goto(p, Handler(p), reg[p])
      /\ UNCHANGED <<now, minted, jar, ended, gone, seen, lapsed, phase, mem>>
  BY DEF Shorten, startupVars
<1>2. /\ reg' = reg /\ pc'[p] = Handler(p) /\ \A q \in Clients : q # p => pc'[q] = pc[q]
  BY <1>1, Moved DEF Goto, TokenInv, SessionTypeOK
<1>3. \A v \in Tokens : Presents(v)' => Presents(v)
  BY <1>1, <1>2 DEF Presents
<1>4. reg[p].token # Null
  BY <1>1, TokenTypes DEF TokenInv, Carried
<1>5. \A q \in Clients : pc'[q] = "reply" => reg'[q].token # Null
  BY <1>2, <1>4 DEF ActiveInv, OneLogin
<1>6. Timed'
  <2>1. \A q \in Clients : Renewing(q)' => Renewing(q)
    BY <1>1, <1>2 DEF Renewing
  <2> QED BY <1>1, <1>2, <2>1 DEF ActiveInv, Timed
<1>7. /\ OneLogin' /\ KeyCurrent'
      /\ \A v, s \in Tokens : Presents(v)' /\ Root(v)' = s /\ Undisturbed(s)' => Kept
  BY <1>1, <1>3, <1>5, SameLogin, SameClock
<1>8. KeptInv'
  BY <1>7, ShortenKept DEF KeptInv
<1> QED BY <1>6, <1>7, <1>8 DEF ActiveInv

\* A logout ends the login.
LEMMA LogoutActive ==
    ASSUME TokenInv, ActiveInv, NEW p \in Clients, Logout(p), UNCHANGED startupVars
    PROVE  ActiveInv'
<1>1. PICK t \in Tokens : t = reg[p].token /\ t \in DOMAIN minted
  BY TokenTypes DEF Logout, TokenInv, Carried
<1>2. /\ pc[p] = "logout" /\ Goto(p, "reply", [reg[p] EXCEPT !.fresh = Null])
      /\ UNCHANGED <<now, minted, jar, seen, lapsed, phase, mem>>
      /\ gone \subseteq gone'
      /\ DOMAIN ended' = DOMAIN ended \cup {Root(t)}
  BY <1>1 DEF Logout, startupVars, Put
<1> DEFINE r == [reg[p] EXCEPT !.fresh = Null]
<1>3. r.token = t /\ r.fresh = Null
  BY <1>1 DEF TokenInv, SessionTypeOK, Reg
<1>4. Goto(p, "reply", r)
  BY <1>2
<1> HIDE DEF r
<1>5. /\ pc'[p] = "reply" /\ reg'[p] = r
      /\ \A q \in Clients : q # p => pc'[q] = pc[q] /\ reg'[q] = reg[q]
  BY <1>4, Moved
<1>6. \A v \in Tokens : Presents(v)' => Presents(v)
  BY <1>1, <1>2, <1>3, <1>5, TokenTypes DEF Presents
<1>7. \A q \in Clients : pc'[q] = "reply" => reg'[q].token # Null
  BY <1>1, <1>3, <1>5, TokenTypes DEF ActiveInv, OneLogin
<1>8. Timed'
  BY <1>2, <1>3, <1>5 DEF ActiveInv, Timed, Renewing
<1>9. /\ OneLogin' /\ KeyCurrent'
      /\ \A v, s \in Tokens : Presents(v)' /\ Root(v)' = s /\ Undisturbed(s)' => Presents(v) /\ Root(v) = s
  BY <1>2, <1>6, <1>7, SameLogin, SameClock
<1>10. \A v \in Tokens : Presents(v) => Root(v) = Root(t)
  BY <1>1 DEF ActiveInv, OneLogin, Presents
<1>11. \A s \in Tokens : s = Root(t) => ~Undisturbed(s)'
  BY <1>2 DEF Undisturbed
<1>12. KeptInv'
  BY <1>9, <1>10, <1>11 DEF KeptInv
<1> QED BY <1>8, <1>9, <1>12 DEF ActiveInv

\* A request that ends, or one for a service token.
LEMMA QuietActive ==
    ASSUME TokenInv, ActiveInv, NEW p \in Clients, ~Renewing(p),
           pc'[p] \in {"idle", "issue"}, reg'[p].token = Null, reg'[p].fresh = Null,
           \A q \in Clients : q # p => pc'[q] = pc[q] /\ reg'[q] = reg[q],
           UNCHANGED <<now, store, minted, jar, ended, gone, seen, lapsed, phase, mem>>
    PROVE  ActiveInv'
<1>1. \A v \in Tokens : Presents(v)' => Presents(v)
  BY TokenTypes DEF Presents
<1>2. \A q \in Clients : pc'[q] = "reply" => reg'[q].token # Null
  BY DEF ActiveInv, OneLogin
<1>3. Timed'
  BY DEF ActiveInv, Timed, Renewing
<1>4. /\ OneLogin' /\ KeyCurrent'
      /\ \A v, s \in Tokens : Presents(v)' /\ Root(v)' = s /\ Undisturbed(s)' => Kept
  BY <1>1, <1>2, SameLogin, SameClock
<1>5. KeptInv'
  BY <1>4, QuietKept DEF KeptInv
<1> QED BY <1>3, <1>4, <1>5 DEF ActiveInv

\* An answer arrives or is lost.
LEMMA AnswerActive ==
    ASSUME TokenInv, ActiveInv, NEW p \in Clients, Deliver(p) \/ Lose(p), UNCHANGED startupVars
    PROVE  ActiveInv'
<1>1. /\ pc[p] = "reply" /\ Done(p) /\ gone \subseteq gone'
      /\ jar' \in {jar, reg[p].fresh, Null}
      /\ UNCHANGED <<now, store, minted, ended, seen, lapsed, phase, mem>>
  BY DEF Deliver, Lose, startupVars
<1>2. /\ pc'[p] = "idle" /\ reg'[p].token = Null /\ reg'[p].fresh = Null
      /\ \A q \in Clients : q # p => pc'[q] = pc[q] /\ reg'[q] = reg[q]
  BY <1>1, Moved DEF Done, NoReg
<1>3. \A v \in Tokens : Presents(v)' => Presents(v)
  BY <1>1, <1>2, TokenTypes DEF Presents
<1>4. \A q \in Clients : pc'[q] = "reply" => reg'[q].token # Null
  BY <1>2 DEF ActiveInv, OneLogin
<1>5. Timed'
  BY <1>1, <1>2 DEF ActiveInv, Timed, Renewing
<1>6. /\ OneLogin' /\ KeyCurrent'
      /\ \A v, s \in Tokens : Presents(v)' /\ Root(v)' = s /\ Undisturbed(s)' =>
           Presents(v) /\ Root(v) = s /\ Kept
  BY <1>1, <1>3, <1>4, SameLogin, SameClock
<1>7. ASSUME NEW v \in Tokens, NEW s \in Tokens, Presents(v)', Root(v)' = s, Undisturbed(s)'
      PROVE  Kept'
  <2>1. Presents(v) /\ Root(v) = s /\ Kept
    BY <1>6, <1>7
  <2>2. CASE reg[p].fresh = Null
    <3>1. jar' = jar
      BY <1>1, <2>1, <2>2 DEF Deliver, Lose, Kept, NoLogoutLeft
    <3>2. ~Renewing(p)
      BY <1>1, <2>2 DEF Renewing
    <3> QED BY <1>1, <1>2, <2>1, <3>1, <3>2, QuietKept
  <2>3. CASE reg[p].fresh # Null /\ Deliver(p)
    BY <2>1, <2>3, DeliverKept DEF ActiveInv
  <2>4. CASE reg[p].fresh # Null /\ Lose(p)
    <3>1. PICK u \in Tokens : u = reg[p].fresh
      BY <2>4, TokenTypes
    <3>2. Root(u) = s
      BY <2>1, <3>1 DEF ActiveInv, OneLogin, Presents
    <3>3. u \in gone'
      BY <2>4, <3>1 DEF Lose
    <3> QED BY <1>1, <1>7, <3>2, <3>3 DEF Undisturbed, Root
  <2> QED BY <2>2, <2>3, <2>4
<1>8. KeptInv'
  BY <1>7 DEF KeptInv
<1> QED BY <1>5, <1>6, <1>8 DEF ActiveInv

LEMMA ServiceActive ==
    ASSUME TokenInv, ActiveInv, NEW p \in Clients, ServiceTokenRead(p) \/ GenerateServiceToken(p),
           UNCHANGED startupVars
    PROVE  ActiveInv'
<1>1. /\ pc[p] \in {"idle", "issue"}
      /\ UNCHANGED <<now, store, minted, jar, ended, gone, seen, lapsed, phase, mem>>
  BY DEF ServiceTokenRead, GenerateServiceToken, startupVars
<1>2. ~Renewing(p)
  BY <1>1 DEF Renewing
<1> DEFINE r == [NoReg EXCEPT !.op = "token", !.sent = now]
<1>3. r.token = Null /\ r.fresh = Null /\ NoReg.token = Null /\ NoReg.fresh = Null
  BY DEF NoReg
<1>4. Goto(p, "issue", r) \/ Goto(p, "idle", NoReg)
  BY DEF ServiceTokenRead, GenerateServiceToken, Done
<1> HIDE DEF r
<1>5. /\ pc'[p] \in {"idle", "issue"} /\ reg'[p].token = Null /\ reg'[p].fresh = Null
      /\ \A q \in Clients : q # p => pc'[q] = pc[q] /\ reg'[q] = reg[q]
  BY <1>3, <1>4, Moved
<1> QED BY <1>1, <1>2, <1>5, QuietActive

LEMMA TickActive ==
    ASSUME TokenInv, TokenInv', ActiveInv, Tick, UNCHANGED startupVars
    PROVE  ActiveInv'
<1>1. /\ UNCHANGED <<store, minted, jar, pc, reg, ended, gone, seen, lapsed, phase, mem>>
      /\ now' = now + 1 /\ now \in Nat /\ seen \in Nat
  BY TokenTypes DEF Tick, startupVars
<1>2. \A v \in Tokens : Presents(v)' => Presents(v)
  BY <1>1 DEF Presents
<1>3. \A q \in Clients : pc'[q] = "reply" => reg'[q].token # Null
  BY <1>1 DEF ActiveInv, OneLogin
<1>4. Timed'
  BY <1>1 DEF ActiveInv, Timed, Renewing
<1>5. ~Lapse' => ~Lapse
  BY <1>1, LifetimeFacts DEF Lapse
<1>6. /\ OneLogin' /\ KeyCurrent'
      /\ \A v, s \in Tokens : Presents(v)' /\ Root(v)' = s /\ Undisturbed(s)' => Kept
  BY <1>1, <1>2, <1>3, <1>5, SameLogin
<1>7. KeptInv'
  BY <1>6, TickKept DEF KeptInv
<1> QED BY <1>4, <1>6, <1>7 DEF ActiveInv

\* A login takes the place of the one before.
LEMMA LoginActive ==
    ASSUME TokenInv, ActiveInv, NEW t \in Tokens, Login(t), UNCHANGED startupVars
    PROVE  ActiveInv'
<1>1. /\ phase = "up" /\ GenerateToken(t, t) /\ jar' = t /\ seen' = now /\ Busy = {}
      /\ UNCHANGED <<now, pc, reg, gone, phase, mem>>
  BY DEF Login, startupVars
<1>2. \A q \in Clients : pc'[q] = "idle" /\ reg'[q].token = Null /\ reg'[q].fresh = Null
  BY <1>1 DEF Busy, TokenInv, Carried, NoReg
<1>3. \A v \in Tokens : Presents(v)' => v = t
  BY <1>1, <1>2, TokenTypes DEF Presents
<1>4. OneLogin'
  BY <1>2, <1>3 DEF OneLogin
<1>5. Timed'
  BY <1>1, <1>2, TokenTypes DEF Timed, Renewing
<1>6. KeyCurrent'
  <2>1. /\ DOMAIN minted' = DOMAIN minted \cup {t}
        /\ minted'[t] = [root |-> t, exp |-> now + TTL, key |-> mem.key]
        /\ \A u \in DOMAIN minted : minted'[u] = minted[u]
    BY <1>1, MintFacts
  <2> QED BY <1>1, <2>1 DEF ActiveInv, KeyCurrent
<1>7. KeptInv'
  BY LoginKept DEF KeptInv
<1> QED BY <1>4, <1>5, <1>6, <1>7 DEF ActiveInv

\* A kill leaves no token that could be accepted.
LEMMA KillActive ==
    ASSUME TokenInv, ActiveInv, KillServer
    PROVE  ActiveInv'
<1>1. /\ UNCHANGED <<now, minted, jar, seen>> /\ gone' = DOMAIN minted
      /\ \A q \in Clients : pc'[q] = "idle" /\ reg'[q].token = Null /\ reg'[q].fresh = Null
  BY DEF KillServer, NoReg
<1>2. \A v \in Tokens : Presents(v)' => v = jar /\ v \in DOMAIN minted
  BY <1>1, TokenTypes DEF Presents
<1>3. OneLogin' /\ Timed' /\ KeyCurrent'
  BY <1>1, <1>2 DEF ActiveInv, OneLogin, Timed, Renewing, KeyCurrent
<1>4. KeptInv'
  BY <1>1, <1>2 DEF KeptInv, Undisturbed, Root
<1> QED BY <1>3, <1>4 DEF ActiveInv

\* The sessions stand still.
LEMMA StillActive ==
    ASSUME TokenInv, ActiveInv,
           UNCHANGED <<now, store, minted, jar, pc, reg, ended, gone, seen, lapsed>>, KeyCurrent'
    PROVE  ActiveInv'
<1>1. \A v \in Tokens : Presents(v)' => Presents(v)
  BY DEF Presents
<1>2. \A q \in Clients : pc'[q] = "reply" => reg'[q].token # Null
  BY DEF ActiveInv, OneLogin
<1>3. Timed'
  BY DEF ActiveInv, Timed, Renewing
<1>4. /\ OneLogin'
      /\ \A v, s \in Tokens : Presents(v)' /\ Root(v)' = s /\ Undisturbed(s)' => Kept
  BY <1>1, <1>2, SameLogin, SameClock
<1>5. Kept => Kept'
  <2>1. \A t \in Tokens : Whole(t) => Whole(t)'
    BY DEF Whole
  <2>2. \A t \in Tokens, a \in Times : Waning(t, a) => Waning(t, a)'
    BY DEF Waning, Renewing
  <2> QED BY <2>1, <2>2 DEF Kept, JarKept, SentKept, SentWith, FreshKept, NoLogoutLeft
<1>6. KeptInv'
  BY <1>4, <1>5 DEF KeptInv
<1> QED BY <1>3, <1>4, <1>6 DEF ActiveInv

LEMMA ActiveInvStep ==
    ASSUME TokenInv, TokenInv', ActiveInv, [Next]_vars
    PROVE  ActiveInv'
<1>1. CASE StartupStep /\ UNCHANGED sessionVars
  <2>1. UNCHANGED <<now, store, minted, jar, pc, reg, ended, gone, seen, lapsed>>
    BY <1>1 DEF sessionVars
  <2>2. phase \in {"up", "put"} => phase' \in {"up", "put"} /\ mem' = mem
    <3> SUFFICES ASSUME phase \in {"up", "put"}
                 PROVE  phase' \in {"up", "put"} /\ mem' = mem
      OBVIOUS
    <3>1. SaveOpen \/ SaveWrite \/ PutSettings \/ \E r \in Rows : Store(r)
      BY <1>1 DEF StartupStep, LoadSettings, Branch, CreateEncryptDb, ExportDone, RemoveOld,
           RenameCopy, OpenDatabase, Configure
    <3>2. CASE SaveWrite
      BY <3>2 DEF SaveWrite, AfterSave, Saving
    <3>3. CASE SaveOpen \/ PutSettings \/ \E r \in Rows : Store(r)
      BY <3>3 DEF SaveOpen, PutSettings, Store
    <3> QED BY <3>1, <3>2, <3>3
  <2>3. KeyCurrent'
    BY <2>1, <2>2 DEF ActiveInv, KeyCurrent
  <2> QED BY <2>1, <2>3, StillActive
<1>2. CASE SessionStep /\ UNCHANGED startupVars
  <2>1. CASE RevokeServiceAccount
    <3>1. UNCHANGED <<now, store, minted, jar, pc, reg, ended, gone, seen, lapsed, phase, mem>>
      BY <1>2, <2>1 DEF RevokeServiceAccount, startupVars
    <3>2. KeyCurrent'
      BY <3>1 DEF ActiveInv, KeyCurrent
    <3> QED BY <3>1, <3>2, StillActive
  <2>2. CASE Tick
    BY <1>2, <2>2, TickActive
  <2>3. CASE \E t \in Tokens : Login(t)
    BY <1>2, <2>3, LoginActive
  <2>4. CASE \E p \in Clients : Request(p)
    <3>1. PICK p \in Clients : Request(p)
      BY <2>4
    <3> QED BY <1>2, <3>1, SendActive, AuthenticateActive, RenewActive, ShortenActive,
               LogoutActive, AnswerActive, ServiceActive DEF Request
  <2> QED BY <1>2, <2>1, <2>2, <2>3, <2>4 DEF SessionStep
<1>3. CASE KillServer
  BY <1>3, KillActive
<1>4. CASE UNCHANGED vars
  <2>1. UNCHANGED <<now, store, minted, jar, pc, reg, ended, gone, seen, lapsed, phase, mem>>
    BY <1>4 DEF vars, sessionVars, startupVars
  <2>2. KeyCurrent'
    BY <2>1 DEF ActiveInv, KeyCurrent
  <2> QED BY <2>1, <2>2, StillActive
<1> QED BY <1>1, <1>2, <1>3, <1>4 DEF Next

----------------------------------------------------------------------------
\* The sliding renewal of renew_session_cookie_if_needed: for any number of
\* parallel requests and tokens and any lifetimes that satisfy SessionAssumption,
\* the guard refuses no request of a user whose requests come less than the
\* threshold apart, unless an answer was lost, the process was killed or the user
\* logged out.
THEOREM ActiveUsersStay == Spec => ActiveKept
<1>1. Init => ActiveInv
  BY ActiveInvInit
<1>2. TokenInv /\ TokenInv' /\ ActiveInv /\ [Next]_vars => ActiveInv'
  BY ActiveInvStep
<1> DEFINE Refused(p) == pc[p] = "sent" /\ reg[p].op = "get" /\ pc'[p] = "idle" /\ phase' = phase
           Excused(p) == LET r == Root(reg[p].token) IN
                         \/ \E u \in gone : Root(u) = r
                         \/ r \in DOMAIN ended
                         \/ lapsed \/ Lapse
<1>3. TokenInv /\ ActiveInv /\ [Next]_vars => [\A p \in Clients : Refused(p) => Excused(p)]_vars
  <2> SUFFICES ASSUME TokenInv, ActiveInv, Next, NEW p \in Clients, Refused(p)
               PROVE  Excused(p)
    OBVIOUS
  <2>1. Authenticate(p)
    <3>1. pc' # pc
      OBVIOUS
    <3>2. ~KillServer
      BY DEF KillServer, Kill
    <3>3. PICK q \in Clients : Request(q)
      BY <3>1, <3>2 DEF Next, sessionVars, SessionStep, Login, RevokeServiceAccount, Tick
    <3>4. \A l, r : Goto(q, l, r) /\ q # p => pc'[p] = pc[p]
      BY Moved
    <3>5. q = p
      <4>1. Authenticate(q) => \E l, r : Goto(q, l, r)
        BY Zenon DEF Authenticate, Done
      <4>2. \E l, r : Goto(q, l, r)
        BY <3>3, <4>1 DEF Request, Send, Renew, Shorten, Logout, Deliver, Lose, Done,
             ServiceTokenRead, GenerateServiceToken
      <4> QED BY <3>4, <4>2
    <3>6. ~\E op \in {"get", "logout"} : Send(p, op)
      BY DEF Send
    <3> QED BY <3>3, <3>5, <3>6 DEF Request, Renew, Shorten, Logout, Deliver, Lose,
                 ServiceTokenRead, GenerateServiceToken
  <2>2. PICK t : t = reg[p].token
    OBVIOUS
  <2>3. ~Accepted(t)
    <3> SUFFICES ASSUME Accepted(t) PROVE FALSE
      OBVIOUS
    <3>1. pc'[p] = IF NeedsRenewal(t) THEN "renew" ELSE Handler(p)
      BY <2>1, <2>2, GuardFacts
    <3> QED BY <3>1 DEF Handler
  <2>4. ~Undisturbed(Root(t))
    BY <2>1, <2>2, <2>3, NeverRefused DEF Authenticate
  <2> QED BY <2>2, <2>4 DEF Undisturbed
<1>4. [][\A p \in Clients : Refused(p) => Excused(p)]_vars => ActiveKept
  BY PTL DEF ActiveKept
<1> QED BY <1>1, <1>2, <1>3, <1>4, SessionsCorrect, PTL DEF Spec

=============================================================================
