--------------------------- MODULE AccountsProofs ---------------------------
(***************************************************************************)
(* The safety properties of Accounts, for any number of users, browsers,      *)
(* service accounts and certificates.                                       *)
(*                                                                         *)
(* AccountsInv says, beside the properties, what a request under way still    *)
(* knows when it writes: the row it looked at, the rights it was checked for   *)
(* and the password it is about to store.                                   *)
(***************************************************************************)
EXTENDS Accounts, TLAPS

Writers == {"migrate", "change"}
Setups == {"setup_cas", "setup_insert"}

\* What a request under way carries.
RegOK(p) ==
    /\ pc[p] \in Writers => reg[p].id \in UserIds /\ reg[p].password \in Password
    /\ pc[p] = "service_insert" => reg[p].id \in UserIds
    /\ pc[p] = "service_write" => reg[p].id \in ServiceIds /\ reg[p].op \in {"revoke", "delete"}

\* What setup has seen still holds, unless the request was marked.
SetupOK(p) ==
    /\ pc[p] \in Setups /\ ~reg[p].stale => users = Empty
    /\ pc[p] = "setup_insert" /\ ~reg[p].stale => cas = 0

\* The migration of a hash writes the password that the user has.
MigrateOK(p) ==
    pc[p] = "migrate" /\ reg[p].id \in DOMAIN users \ disturbed
        => reg[p].password.secret = intended[reg[p].id]

\* The rights that were checked are still those of the session and of the row.
RightsOK(p) ==
    /\ pc[p] = "service_insert" =>
          /\ claims[p] # Null
          /\ CanManage(claims[p], reg[p].id)
          /\ reg[p].issue => claims[p].role = "Admin"
    /\ pc[p] = "service_write" /\ ~reg[p].stale =>
          /\ claims[p] # Null
          /\ reg[p].id \in DOMAIN services
          /\ CanManage(claims[p], services[reg[p].id].owner)

RequestOK(p) == RegOK(p) /\ SetupOK(p) /\ MigrateOK(p) /\ RightsOK(p)

RequestInv == \A p \in Clients : RequestOK(p)

\* No two requests write the password of the same undisturbed user.
OneWriter ==
    \A p, q \in Clients :
        pc[p] \in Writers /\ pc[q] \in Writers /\ p # q /\ reg[p].id = reg[q].id
            => reg[p].id \notin DOMAIN users \ disturbed

\* No subject has two accounts.
LinkInv ==
    \A u, v \in DOMAIN users : users[u].oidc = users[v].oidc /\ users[u].oidc # Null => u = v

AccountsInv ==
    /\ TypeOK /\ NoOrphans /\ PasswordSticks
    /\ RequestInv /\ OneWriter /\ LinkInv

----------------------------------------------------------------------------
(* The operators.                                                           *)

LEMMA NextIdFresh ==
    ASSUME NEW f, NEW id \in Nat, IsNextId(f, id)
    PROVE  id \notin DOMAIN f
BY DEF IsNextId

LEMMA IdsAreNat == UserIds \subseteq Nat /\ ServiceIds \subseteq Nat /\ Null \notin UserIds
                   /\ Null \notin ServiceIds
BY AccountsAssumption DEF UserIds, ServiceIds

LEMMA PasswordTypes ==
    ASSUME NEW x \in Secrets, NEW form \in Forms
    PROVE  /\ ServerHash(x, form) \in Password
           /\ ServerHash(x, form).secret = x
           /\ NewPassword(x, form) \in Password \cup {Null}
           /\ NoReg \in Reg
BY DEF ServerHash, NewPassword, Password, Forms, NoReg, Reg

\* Which requests are marked, and that they are not changed otherwise.
LEMMA StaleKeeps ==
    ASSUME TypeOK, NEW q \in Clients
    PROVE  /\ Stale[q] \in Reg
           /\ Stale[q].id = reg[q].id /\ Stale[q].password = reg[q].password
           /\ Stale[q].issue = reg[q].issue /\ Stale[q].op = reg[q].op
           /\ pc[q] \notin {"setup_cas", "setup_insert"} => Stale[q] = reg[q]
           /\ pc[q] \in {"setup_cas", "setup_insert"} => Stale[q].stale = TRUE
BY DEF Stale, TypeOK, Reg

LEMMA StaleServicesKeeps ==
    ASSUME TypeOK, NEW q \in Clients, NEW S
    PROVE  /\ StaleServices(S)[q] \in Reg
           /\ StaleServices(S)[q].id = reg[q].id /\ StaleServices(S)[q].password = reg[q].password
           /\ StaleServices(S)[q].issue = reg[q].issue /\ StaleServices(S)[q].op = reg[q].op
           /\ pc[q] # "service_write" => StaleServices(S)[q] = reg[q]
           /\ reg[q].id \notin S => StaleServices(S)[q] = reg[q]
           /\ pc[q] = "service_write" /\ reg[q].id \in S => StaleServices(S)[q].stale = TRUE
BY DEF StaleServices, TypeOK, Reg

----------------------------------------------------------------------------
(* The steps.                                                               *)

\* A new row, by setup, by OIDC or by an administrator.
LEMMA InsertUserInv ==
    ASSUME AccountsInv, NEW u \in UserIds, NEW row \in User, InsertUser(u, row),
           row.oidc # Null => \A v \in DOMAIN users : users[v].oidc # row.oidc,
           UNCHANGED <<services, owner, groupVars>>
    PROVE  /\ Partial(users', UserIds, User)
           /\ DOMAIN intended' = DOMAIN users' /\ disturbed' \subseteq DOMAIN users'
           /\ DOMAIN users' = DOMAIN users \cup {u}
           /\ u \notin DOMAIN users
           /\ \A v \in DOMAIN users : users'[v] = users[v] /\ intended'[v] = intended[v]
           /\ disturbed' \in {disturbed, disturbed \cup {u}}
           /\ (\E p \in Clients : pc[p] \in Writers /\ reg[p].id = u) => u \in disturbed'
           /\ NoOrphans' /\ PasswordSticks' /\ LinkInv'
<1> USE DEF AccountsInv
<1>1. u \notin DOMAIN users
  BY NextIdFresh, IdsAreNat DEF InsertUser
<1>2. /\ DOMAIN users' = DOMAIN users \cup {u}
      /\ DOMAIN intended' = DOMAIN users'
      /\ users'[u] = row /\ intended'[u] = SecretOf(row.password)
      /\ \A v \in DOMAIN users : users'[v] = users[v] /\ intended'[v] = intended[v]
  BY <1>1 DEF InsertUser, Put, TypeOK
<1>3. /\ disturbed' \in {disturbed, disturbed \cup {u}}
      /\ disturbed' \subseteq DOMAIN users'
  BY <1>2 DEF InsertUser, TypeOK
<1>4. (\E p \in Clients : pc[p] \in Writers /\ reg[p].id = u) => u \in disturbed'
  BY DEF InsertUser, Writing, Writers
<1>5. Partial(users', UserIds, User)
  BY <1>2 DEF Partial, TypeOK
<1>6. NoOrphans'
  BY <1>2 DEF NoOrphans, groupVars
<1>7. PasswordSticks'
  BY <1>1, <1>2, <1>3 DEF PasswordSticks
<1>8. LinkInv'
  BY <1>1, <1>2 DEF LinkInv
<1> QED BY <1>1, <1>2, <1>3, <1>4, <1>5, <1>6, <1>7, <1>8

\* The requests of the other clients while one client takes a step: they may be
\* marked, and nothing else.
Kept(q) ==
    /\ pc'[q] = pc[q] /\ claims'[q] = claims[q]
    /\ reg'[q].id = reg[q].id /\ reg'[q].password = reg[q].password
    /\ reg'[q].issue = reg[q].issue /\ reg'[q].op = reg[q].op
    /\ ~reg'[q].stale => ~reg[q].stale

\* What the step of one client must leave of the tables for another one, q.
Respected(q) ==
    /\ pc[q] \in Setups /\ ~reg'[q].stale => users' = users
    /\ pc[q] = "setup_insert" /\ ~reg'[q].stale => cas' = cas
    /\ pc[q] = "service_write" /\ ~reg'[q].stale /\ reg[q].id \in DOMAIN services =>
          /\ reg[q].id \in DOMAIN services'
          /\ services'[reg[q].id].owner = services[reg[q].id].owner
    /\ pc[q] \in Writers /\ reg[q].id \in DOMAIN users' \ disturbed' =>
          /\ reg[q].id \in DOMAIN users \ disturbed
          /\ intended'[reg[q].id] = intended[reg[q].id]

LEMMA OtherRequestKept ==
    ASSUME NEW q \in Clients, RequestOK(q), Kept(q), Respected(q)
    PROVE  RequestOK(q)'
<1>1. RegOK(q)'
  BY DEF RequestOK, RegOK, Kept
<1>2. SetupOK(q)'
  BY DEF RequestOK, SetupOK, Kept, Respected, Setups
<1>3. MigrateOK(q)'
  BY DEF RequestOK, MigrateOK, Kept, Respected, Writers
<1>4. RightsOK(q)'
  <2>1. (pc[q] = "service_insert" =>
          /\ claims[q] # Null
          /\ CanManage(claims[q], reg[q].id)
          /\ reg[q].issue => claims[q].role = "Admin")'
    BY DEF RequestOK, RightsOK, Kept, CanManage
  <2>2. (pc[q] = "service_write" /\ ~reg[q].stale =>
          /\ claims[q] # Null
          /\ reg[q].id \in DOMAIN services
          /\ CanManage(claims[q], services[reg[q].id].owner))'
    BY DEF RequestOK, RightsOK, Kept, Respected, CanManage
  <2> QED BY <2>1, <2>2 DEF RightsOK
<1> QED BY <1>1, <1>2, <1>3, <1>4 DEF RequestOK

LEMMA IdleOK ==
    ASSUME NEW p \in Clients, pc'[p] \in {"idle", "setup_ca"}
    PROVE  RequestOK(p)'
BY DEF RequestOK, RegOK, SetupOK, MigrateOK, RightsOK, Writers, Setups

\* The step of client p.
LEMMA RequestsCarryOn ==
    ASSUME AccountsInv, NEW p \in Clients,
           \A q \in Clients \ {p} : Kept(q) /\ Respected(q),
           RequestOK(p)',
           pc'[p] \in Writers =>
               \/ reg'[p].id \in disturbed'
               \/ \A q \in Clients \ {p} : pc[q] \in Writers => reg[q].id # reg'[p].id
    PROVE  RequestInv' /\ OneWriter'
<1>1. RequestInv'
  BY OtherRequestKept DEF AccountsInv, RequestInv
<1>2. OneWriter'
  <2> SUFFICES ASSUME NEW q \in Clients, NEW r \in Clients, q # r,
                      pc'[q] \in Writers, pc'[r] \in Writers, reg'[q].id = reg'[r].id,
                      reg'[q].id \in DOMAIN users' \ disturbed'
               PROVE  FALSE
    BY DEF OneWriter
  <2>1. CASE q # p /\ r # p
    BY <2>1 DEF AccountsInv, OneWriter, Kept, Respected
  <2>2. CASE q = p
    BY <2>2 DEF Kept
  <2>3. CASE r = p
    BY <2>3 DEF Kept
  <2> QED BY <2>1, <2>2, <2>3
<1> QED BY <1>1, <1>2

\* What a step does to the requests, in the forms the actions have.
LEMMA GotoKeeps ==
    ASSUME TypeOK, NEW p \in Clients, NEW l \in Labels, NEW r \in Reg, Goto(p, l, r)
    PROVE  /\ pc' \in [Clients -> Labels] /\ reg' \in [Clients -> Reg]
           /\ pc'[p] = l /\ reg'[p] = r
           /\ \A q \in Clients \ {p} : claims'[q] = claims[q] => Kept(q) /\ reg'[q] = reg[q]
BY DEF Goto, TypeOK, Kept

LEMMA StaleOthers ==
    ASSUME TypeOK, NEW p \in Clients, NEW l \in Labels,
           pc' = [pc EXCEPT ![p] = l], reg' = [Stale EXCEPT ![p] = NoReg]
    PROVE  /\ pc' \in [Clients -> Labels] /\ reg' \in [Clients -> Reg]
           /\ pc'[p] = l
           /\ \A q \in Clients \ {p} : reg'[q] = Stale[q]
           /\ \A q \in Clients \ {p} : claims'[q] = claims[q] => Kept(q)
<1>1. /\ pc' \in [Clients -> Labels] /\ pc'[p] = l
      /\ \A q \in Clients \ {p} : pc'[q] = pc[q] /\ reg'[q] = Stale[q]
  BY DEF TypeOK, Stale
<1>2. NoReg \in Reg
  BY DEF NoReg, Reg
<1>3. reg' \in [Clients -> Reg]
  BY <1>2, StaleKeeps DEF Stale
<1>4. \A q \in Clients \ {p} : claims'[q] = claims[q] => Kept(q)
  <2> SUFFICES ASSUME NEW q \in Clients \ {p}, claims'[q] = claims[q]
               PROVE  Kept(q)
    OBVIOUS
  <2>1. pc'[q] = pc[q] /\ reg'[q] = Stale[q]
    BY <1>1
  <2>2. ~Stale[q].stale => ~reg[q].stale
    BY StaleKeeps
  <2> QED BY <2>1, <2>2, StaleKeeps DEF Kept
<1> QED BY <1>1, <1>3, <1>4

LEMMA StaleAll ==
    ASSUME TypeOK, pc' = pc, reg' = Stale
    PROVE  /\ pc' \in [Clients -> Labels] /\ reg' \in [Clients -> Reg]
           /\ \A q \in Clients : claims'[q] = claims[q] => Kept(q)
<1>1. pc' \in [Clients -> Labels]
  BY DEF TypeOK
<1>2. reg' \in [Clients -> Reg]
  BY StaleKeeps DEF Stale
<1>3. \A q \in Clients : claims'[q] = claims[q] => Kept(q)
  <2> SUFFICES ASSUME NEW q \in Clients, claims'[q] = claims[q]
               PROVE  Kept(q)
    OBVIOUS
  <2>1. ~Stale[q].stale => ~reg[q].stale
    BY StaleKeeps
  <2> QED BY <2>1, StaleKeeps DEF Kept
<1> QED BY <1>1, <1>2, <1>3

\* A step that leaves the tables alone, and may only add to the disturbed users.
LEMMA TablesStay ==
    ASSUME AccountsInv, UNCHANGED <<users, services, owner, groupVars, cas, intended>>,
           disturbed \subseteq disturbed'
    PROVE  /\ NoOrphans' /\ PasswordSticks' /\ LinkInv'
           /\ \A q \in Clients : Respected(q)
<1>1. NoOrphans'
  BY DEF AccountsInv, NoOrphans, groupVars
<1>2. PasswordSticks'
  BY DEF AccountsInv, PasswordSticks
<1>3. LinkInv'
  BY DEF AccountsInv, LinkInv
<1>4. \A q \in Clients : Respected(q)
  BY DEF Respected
<1> QED BY <1>1, <1>2, <1>3, <1>4

LEMMA SetupUsersInv ==
    ASSUME AccountsInv, NEW p \in Clients, SetupUsers(p)
    PROVE  AccountsInv'
<1>1. NoReg \in Reg /\ "setup_cas" \in Labels
  BY DEF NoReg, Reg, Labels
<1>2. /\ pc' \in [Clients -> Labels] /\ reg' \in [Clients -> Reg]
      /\ pc'[p] = "setup_cas" /\ reg'[p] = NoReg
      /\ \A q \in Clients \ {p} : Kept(q)
  BY <1>1, GotoKeeps DEF SetupUsers, AccountsInv
<1>3. NoOrphans' /\ PasswordSticks' /\ LinkInv' /\ \A q \in Clients : Respected(q)
  BY TablesStay DEF SetupUsers
<1>4. RequestOK(p)'
  BY <1>2 DEF RequestOK, RegOK, SetupOK, MigrateOK, RightsOK, Writers, Setups, SetupUsers
<1>5. RequestInv' /\ OneWriter'
  BY <1>2, <1>3, <1>4, RequestsCarryOn DEF Writers
<1>6. TypeOK'
  BY <1>2 DEF AccountsInv, TypeOK, SetupUsers, groupVars, oidcVars
<1> QED BY <1>3, <1>5, <1>6 DEF AccountsInv

LEMMA SetupCasInv ==
    ASSUME AccountsInv, NEW p \in Clients, SetupCas(p)
    PROVE  AccountsInv'
<1>1. NoReg \in Reg /\ reg[p] \in Reg /\ "setup_insert" \in Labels /\ "idle" \in Labels
  BY DEF NoReg, Reg, Labels, AccountsInv, TypeOK
<1>2. /\ pc' \in [Clients -> Labels] /\ reg' \in [Clients -> Reg]
      /\ \A q \in Clients \ {p} : Kept(q)
      /\ \/ pc'[p] = "setup_insert" /\ reg'[p] = reg[p] /\ cas = 0
         \/ pc'[p] = "idle" /\ reg'[p] = NoReg
  BY <1>1, GotoKeeps DEF SetupCas, AccountsInv, Done, NotSetup
<1>3. NoOrphans' /\ PasswordSticks' /\ LinkInv' /\ \A q \in Clients : Respected(q)
  BY TablesStay DEF SetupCas
<1>4. RequestOK(p)'
  BY <1>2 DEF RequestOK, RegOK, SetupOK, MigrateOK, RightsOK, Writers, Setups, SetupCas,
              AccountsInv, RequestInv
<1>5. RequestInv' /\ OneWriter'
  BY <1>2, <1>3, <1>4, RequestsCarryOn DEF Writers
<1>6. TypeOK'
  BY <1>2 DEF AccountsInv, TypeOK, SetupCas, groupVars, oidcVars
<1> QED BY <1>3, <1>5, <1>6 DEF AccountsInv

LEMMA SetupInsertInv ==
    ASSUME AccountsInv, NEW p \in Clients, NEW u \in UserIds, NEW e \in Emails,
           NEW x \in Secrets, NEW f \in Forms, SetupInsert(p, u, e, x, f)
    PROVE  AccountsInv'
<1> DEFINE row == [email |-> e, password |-> NewPassword(x, f), oidc |-> Null, role |-> "Admin"]
<1>1. row \in User /\ row.oidc = Null
  BY PasswordTypes DEF User
<1>2. InsertUser(u, row) /\ UNCHANGED <<services, owner, groupVars, cas, claims, oidcVars>>
  BY DEF SetupInsert
<1> HIDE DEF row
<1>3. /\ Partial(users', UserIds, User)
      /\ DOMAIN intended' = DOMAIN users' /\ disturbed' \subseteq DOMAIN users'
      /\ DOMAIN users' = DOMAIN users \cup {u}
      /\ \A v \in DOMAIN users : intended'[v] = intended[v]
      /\ disturbed' \in {disturbed, disturbed \cup {u}}
      /\ (\E q \in Clients : pc[q] \in Writers /\ reg[q].id = u) => u \in disturbed'
      /\ NoOrphans' /\ PasswordSticks' /\ LinkInv'
  BY <1>1, <1>2, InsertUserInv
<1>4. /\ pc' = [pc EXCEPT ![p] = "setup_ca"] /\ reg' = [Stale EXCEPT ![p] = NoReg]
      /\ passwordEnabled' \in BOOLEAN
  BY DEF SetupInsert
<1>5. /\ pc' \in [Clients -> Labels] /\ reg' \in [Clients -> Reg]
      /\ pc'[p] = "setup_ca"
      /\ \A q \in Clients \ {p} : reg'[q] = Stale[q] /\ Kept(q)
  BY <1>2, <1>4, StaleOthers DEF AccountsInv, Labels
<1>6. \A q \in Clients \ {p} : Respected(q)
  BY <1>2, <1>3, <1>5, StaleKeeps DEF AccountsInv, Respected, Setups
<1>7. RequestInv' /\ OneWriter'
  BY <1>5, <1>6, IdleOK, RequestsCarryOn DEF Writers
<1>8. TypeOK'
  BY <1>2, <1>3, <1>4, <1>5 DEF AccountsInv, TypeOK, groupVars, oidcVars
<1> QED BY <1>3, <1>7, <1>8 DEF AccountsInv

\* A step of client p that ends its request, or has none, with the tables as they were.
LEMMA QuietStep ==
    ASSUME AccountsInv, NEW p \in Clients,
           UNCHANGED <<users, services, owner, groupVars, cas, intended, disturbed>>,
           \/ Done(p)
           \/ UNCHANGED <<pc, reg>> /\ pc[p] = "idle"
           \/ UNCHANGED <<pc, reg, claims>>,
           claims' \in [Clients -> Claims \cup {Null}],
           \A q \in Clients \ {p} : claims'[q] = claims[q],
           passwordEnabled' \in BOOLEAN, discovered' \in BOOLEAN, flow' \subseteq Clients
    PROVE  AccountsInv'
<1>1. NoReg \in Reg /\ "idle" \in Labels
  BY DEF NoReg, Reg, Labels
<1>2. NoOrphans' /\ PasswordSticks' /\ LinkInv' /\ \A q \in Clients : Respected(q)
  BY TablesStay
<1>3. /\ pc' \in [Clients -> Labels] /\ reg' \in [Clients -> Reg]
      /\ \A q \in Clients \ {p} : Kept(q)
      /\ \/ pc'[p] = "idle"
         \/ Kept(p)
  <2>1. CASE Done(p)
    BY <1>1, <2>1, GotoKeeps DEF Done, AccountsInv
  <2>2. CASE UNCHANGED <<pc, reg>> /\ pc[p] = "idle"
    BY <2>2 DEF Kept, AccountsInv, TypeOK
  <2>3. CASE UNCHANGED <<pc, reg, claims>>
    BY <2>3 DEF Kept, AccountsInv, TypeOK
  <2> QED BY <2>1, <2>2, <2>3
<1>4. RequestOK(p)'
  BY <1>2, <1>3, IdleOK, OtherRequestKept DEF AccountsInv, RequestInv
<1>5. RequestInv' /\ OneWriter'
  <2>1. CASE pc'[p] = "idle"
    BY <1>2, <1>3, <1>4, <2>1, RequestsCarryOn DEF Writers
  <2>2. CASE Kept(p)
    <3>1. RequestInv'
      BY <1>2, <1>3, <2>2, OtherRequestKept DEF AccountsInv, RequestInv
    <3>2. OneWriter'
      BY <1>2, <1>3, <2>2 DEF AccountsInv, OneWriter, Kept, Respected
    <3> QED BY <3>1, <3>2
  <2> QED BY <1>3, <2>1, <2>2
<1>6. TypeOK'
  BY <1>3 DEF AccountsInv, TypeOK, groupVars
<1> QED BY <1>2, <1>5, <1>6 DEF AccountsInv

LEMMA QuietActions ==
    ASSUME AccountsInv, NEW p \in Clients,
           \/ \E e \in Emails, x \in Secrets, f \in Forms : SetupRefused(p, e, x, f)
           \/ OidcLogin(p) \/ OidcCallbackFails(p) \/ EndSession(p) \/ UpdateSettings(p)
    PROVE  AccountsInv'
<1> USE DEF oidcVars
<1>0. /\ discovered \in BOOLEAN /\ flow \subseteq Clients /\ passwordEnabled \in BOOLEAN
      /\ claims \in [Clients -> Claims \cup {Null}]
  BY DEF AccountsInv, TypeOK
<1>1. ASSUME NEW e \in Emails, NEW x \in Secrets, NEW f \in Forms, SetupRefused(p, e, x, f)
      PROVE  AccountsInv'
  BY <1>0, <1>1, QuietStep DEF SetupRefused
<1>2. CASE OidcLogin(p)
  <2>1. discovered' \in BOOLEAN
    BY <1>0, <1>2 DEF OidcLogin, Discover
  <2> QED BY <1>0, <1>2, <2>1, QuietStep DEF OidcLogin
<1>3. CASE OidcCallbackFails(p)
  BY <1>0, <1>3, QuietStep DEF OidcCallbackFails
<1>4. CASE EndSession(p)
  BY <1>0, <1>4, QuietStep DEF EndSession
<1>5. CASE UpdateSettings(p)
  BY <1>0, <1>5, QuietStep DEF UpdateSettings, Discover
<1> QED BY <1>1, <1>2, <1>3, <1>4, <1>5

LEMMA CaActions ==
    ASSUME AccountsInv, NEW p \in Clients, SetupCa(p) \/ DeleteCa(p)
    PROVE  AccountsInv'
<1>1. UNCHANGED <<users, services, owner, group, members, shared, intended, disturbed, claims,
                  passwordEnabled, discovered, flow>>
  BY DEF SetupCa, DeleteCa, groupVars, oidcVars
<1>2. NoOrphans' /\ PasswordSticks' /\ LinkInv'
  BY <1>1 DEF AccountsInv, NoOrphans, PasswordSticks, LinkInv
<1>3. cas' \in 0..MaxCa
  BY AccountsAssumption DEF AccountsInv, TypeOK, SetupCa, DeleteCa
<1>4. /\ pc' \in [Clients -> Labels] /\ reg' \in [Clients -> Reg]
      /\ pc'[p] = "idle"
      /\ \A q \in Clients \ {p} : Kept(q) /\ Respected(q)
  <2>1. CASE SetupCa(p)
    <3>1. /\ pc' \in [Clients -> Labels] /\ reg' \in [Clients -> Reg]
          /\ pc'[p] = "idle"
          /\ \A q \in Clients \ {p} : reg'[q] = Stale[q] /\ Kept(q)
      BY <1>1, <2>1, StaleOthers DEF SetupCa, AccountsInv, Labels
    <3>2. \A q \in Clients \ {p} : Respected(q)
      BY <1>1, <3>1, StaleKeeps DEF AccountsInv, Respected, Setups
    <3> QED BY <3>1, <3>2
  <2>2. CASE DeleteCa(p)
    <3>1. /\ UNCHANGED <<pc, reg>> /\ pc[p] = "idle" /\ cas > 0
          /\ pc \in [Clients -> Labels] /\ reg \in [Clients -> Reg]
      BY <2>2 DEF DeleteCa, AccountsInv, TypeOK
    <3>2. \A q \in Clients : pc[q] = "setup_insert" => reg[q].stale
      BY <3>1 DEF AccountsInv, RequestInv, RequestOK, SetupOK, TypeOK
    <3>3. \A q \in Clients \ {p} : Kept(q)
      BY <1>1, <3>1 DEF Kept
    <3>4. \A q \in Clients \ {p} : Respected(q)
      BY <1>1, <3>1, <3>2 DEF Respected
    <3> QED BY <3>1, <3>3, <3>4
  <2> QED BY <2>1, <2>2
<1>5. RequestInv' /\ OneWriter'
  BY <1>4, IdleOK, RequestsCarryOn DEF Writers
<1>6. TypeOK'
  BY <1>1, <1>3, <1>4 DEF AccountsInv, TypeOK
<1> QED BY <1>2, <1>5, <1>6 DEF AccountsInv

\* A step of a session without a request under way that leaves the tables alone
\* which requests rely on.
LEMMA IdleStep ==
    ASSUME AccountsInv, NEW p \in Clients, pc[p] = "idle",
           UNCHANGED <<services, cas, intended, disturbed, claims, pc, reg>>,
           DOMAIN users' = DOMAIN users, users = Empty => users' = users
    PROVE  RequestInv' /\ OneWriter'
<1>1. \A q \in Clients \ {p} : Kept(q)
  BY DEF Kept
<1>2. \A q \in Clients \ {p} : Respected(q)
  BY DEF Respected, AccountsInv, RequestInv, RequestOK, SetupOK
<1> QED BY <1>1, <1>2, IdleOK, RequestsCarryOn DEF Writers

LEMMA SharingInv ==
    ASSUME AccountsInv, NEW p \in Clients, Sharing(p)
    PROVE  AccountsInv'
<1>1. /\ pc[p] = "idle"
      /\ UNCHANGED <<users, services, cas, passwordEnabled, claims, pc, reg, intended,
                     disturbed, oidcVars>>
  BY DEF Sharing, IssueCert, CreateGroup, DeleteGroup, SetGroupUsers, SetGroupCerts
<1>2. RequestInv' /\ OneWriter'
  BY <1>1, IdleStep
<1>3. PasswordSticks' /\ LinkInv'
  BY <1>1 DEF AccountsInv, PasswordSticks, LinkInv
<1> DEFINE SharingOK ==
               /\ owner \in [Certs -> UserIds \cup {Null}]
               /\ group \in BOOLEAN /\ members \subseteq UserIds /\ shared \subseteq Certs
               /\ NoOrphans
<1>4. SharingOK'
  <2>0. /\ owner \in [Certs -> UserIds \cup {Null}]
        /\ group \in BOOLEAN /\ members \subseteq UserIds /\ shared \subseteq Certs
        /\ DOMAIN users \subseteq UserIds
        /\ NoOrphans
    BY DEF AccountsInv, TypeOK, Partial
  <2>1. ASSUME NEW c \in Certs, NEW u \in UserIds, IssueCert(p, c, u)
        PROVE  SharingOK'
    BY <1>1, <2>0, <2>1, IdsAreNat DEF IssueCert, NoOrphans, groupVars
  <2>2. CASE CreateGroup(p)
    BY <1>1, <2>0, <2>2 DEF CreateGroup, InsertGroup, NoOrphans
  <2>3. CASE DeleteGroup(p)
    BY <1>1, <2>0, <2>3 DEF DeleteGroup, DeleteGroupRows, NoOrphans
  <2>4. ASSUME NEW S \in SUBSET UserIds, SetGroupUsers(p, S)
        PROVE  SharingOK'
    BY <1>1, <2>0, <2>4 DEF SetGroupUsers, ReplaceMembers, NoOrphans
  <2>5. ASSUME NEW S \in SUBSET Certs, SetGroupCerts(p, S)
        PROVE  SharingOK'
    BY <1>1, <2>0, <2>5 DEF SetGroupCerts, ReplaceShared, NoOrphans
  <2> QED BY <2>1, <2>2, <2>3, <2>4, <2>5 DEF Sharing
<1>5. TypeOK'
  BY <1>1, <1>4 DEF AccountsInv, TypeOK, oidcVars
<1> QED BY <1>2, <1>3, <1>4, <1>5 DEF AccountsInv

\* A request that is going to write the password of user u: the user is disturbed
\* when another one does, too.
LEMMA StartWriting ==
    ASSUME AccountsInv, NEW p \in Clients, NEW u \in DOMAIN users, NEW l \in Writers,
           NEW password \in Password,
           Goto(p, l, [NoReg EXCEPT !.id = u, !.password = password]),
           disturbed' = IF Writing(u) = {} THEN disturbed ELSE disturbed \cup {u},
           l = "migrate" => SecretOf(users[u].password) = password.secret,
           UNCHANGED <<users, services, owner, groupVars, cas, passwordEnabled, intended,
                       oidcVars>>,
           \A q \in Clients \ {p} : claims'[q] = claims[q],
           claims' \in [Clients -> Claims \cup {Null}]
    PROVE  AccountsInv'
<1> DEFINE r == [NoReg EXCEPT !.id = u, !.password = password]
<1>1. u \in UserIds
  BY DEF AccountsInv, TypeOK, Partial
<1>2. r \in Reg /\ r.id = u /\ r.password = password
  BY <1>1 DEF NoReg, Reg
<1>3. Goto(p, l, r) /\ l \in Labels
  BY DEF Writers, Labels
<1> HIDE DEF r
<1>4. /\ pc' \in [Clients -> Labels] /\ reg' \in [Clients -> Reg]
      /\ pc'[p] = l /\ reg'[p] = r
      /\ \A q \in Clients \ {p} : Kept(q)
  BY <1>2, <1>3, GotoKeeps DEF AccountsInv
<1>5. disturbed \subseteq disturbed' /\ disturbed' \subseteq DOMAIN users
  BY DEF AccountsInv, TypeOK
<1>6. NoOrphans' /\ PasswordSticks' /\ LinkInv' /\ \A q \in Clients : Respected(q)
  BY <1>5, TablesStay
<1>7. RequestOK(p)'
  <2>1. RegOK(p)'
    BY <1>1, <1>2, <1>4 DEF RegOK, Writers
  <2>2. MigrateOK(p)'
    BY <1>2, <1>4, <1>5 DEF MigrateOK, AccountsInv, PasswordSticks
  <2> QED BY <1>4, <2>1, <2>2 DEF RequestOK, SetupOK, RightsOK, Writers, Setups
<1>8. u \in disturbed' \/ \A q \in Clients \ {p} : pc[q] \in Writers => reg[q].id # u
  BY DEF Writing, Writers
<1>9. RequestInv' /\ OneWriter'
  BY <1>2, <1>4, <1>6, <1>7, <1>8, RequestsCarryOn
<1>10. TypeOK'
  BY <1>4, <1>5 DEF AccountsInv, TypeOK, groupVars, oidcVars
<1> QED BY <1>6, <1>9, <1>10 DEF AccountsInv

LEMMA LoginReadInv ==
    ASSUME AccountsInv, NEW p \in Clients, NEW u \in UserIds, NEW x \in Secrets,
           NEW f \in Forms, LoginRead(p, u, x, f)
    PROVE  AccountsInv'
<1>1. /\ u \in DOMAIN users /\ users[u] \in User
      /\ claims \in [Clients -> Claims \cup {Null}]
      /\ passwordEnabled \in BOOLEAN /\ discovered \in BOOLEAN /\ flow \subseteq Clients
  BY DEF LoginRead, AccountsInv, TypeOK, Partial
<1>2. [id |-> u, role |-> users[u].role, local |-> TRUE] \in Claims
  BY <1>1 DEF Claims, User
<1>3. /\ claims' \in [Clients -> Claims \cup {Null}]
      /\ \A q \in Clients \ {p} : claims'[q] = claims[q]
  BY <1>1, <1>2 DEF LoginRead
<1>4. SecretOf(users[u].password) = x
  BY DEF LoginRead, VerifyLogin, Verify, SecretOf
<1>5. CASE users[u].password.v = 1
  <2>1. [v |-> 2, secret |-> x] \in Password
    BY DEF Password
  <2>2. Goto(p, "migrate", [NoReg EXCEPT !.id = u, !.password = [v |-> 2, secret |-> x]])
    BY <1>5 DEF LoginRead
  <2> QED BY <1>1, <1>3, <1>4, <1>5, <2>1, <2>2, StartWriting DEF LoginRead, Writers
<1>6. CASE users[u].password.v # 1
  BY <1>1, <1>3, <1>6, QuietStep DEF LoginRead, oidcVars
<1> QED BY <1>5, <1>6

LEMMA ChangePasswordReadInv ==
    ASSUME AccountsInv, NEW p \in Clients, NEW x \in Secrets, NEW y \in Secrets,
           NEW f \in Forms, NEW g \in Forms, ChangePasswordRead(p, x, f, y, g)
    PROVE  AccountsInv'
<1>1. ServerHash(y, g) \in Password
  BY PasswordTypes
<1>2. claims \in [Clients -> Claims \cup {Null}]
  BY DEF AccountsInv, TypeOK
<1> QED BY <1>1, <1>2, StartWriting DEF ChangePasswordRead, Writers

\* A password is written: the one that migration found, or a new one.
LEMMA WritePasswordInv ==
    ASSUME AccountsInv, NEW p \in Clients, LoginMigrate(p) \/ ChangePasswordWrite(p)
    PROVE  AccountsInv'
<1> DEFINE u == reg[p].id
           password == reg[p].password
<1>1. /\ pc[p] \in Writers /\ Done(p) /\ SetUserPassword(u, password)
      /\ pc[p] = "migrate" => UNCHANGED intended
      /\ UNCHANGED <<services, owner, group, members, shared, cas, passwordEnabled, claims,
                     disturbed, discovered, flow>>
  BY DEF LoginMigrate, ChangePasswordWrite, Writers, groupVars, oidcVars
<1>2. password \in Password /\ password # Null
  BY <1>1, AccountsAssumption DEF AccountsInv, RequestInv, RequestOK, RegOK
<1>3. NoReg \in Reg /\ "idle" \in Labels
  BY DEF NoReg, Reg, Labels
<1>4. /\ pc' \in [Clients -> Labels] /\ reg' \in [Clients -> Reg]
      /\ pc'[p] = "idle"
      /\ \A q \in Clients \ {p} : Kept(q) /\ reg'[q] = reg[q]
  BY <1>1, <1>3, GotoKeeps DEF AccountsInv, Done
<1>5. /\ DOMAIN users' = DOMAIN users
      /\ \A v \in DOMAIN users : /\ users'[v].oidc = users[v].oidc
                                 /\ users'[v] \in User
                                 /\ v # u => users'[v] = users[v]
                                 /\ v = u => users'[v].password = password
      /\ u \notin DOMAIN users => users' = users
  <2>1. \A v \in DOMAIN users : users[v] \in User
    BY DEF AccountsInv, TypeOK, Partial
  <2>2. CASE u \in DOMAIN users
    <3>1. users' = [users EXCEPT ![u].password = password]
      BY <1>1, <2>2 DEF SetUserPassword
    <3> QED BY <1>2, <2>1, <2>2, <3>1 DEF User
  <2>3. CASE u \notin DOMAIN users
    BY <1>1, <2>1, <2>3 DEF SetUserPassword
  <2> QED BY <2>2, <2>3
<1>6. /\ DOMAIN intended' = DOMAIN intended
      /\ \A v \in DOMAIN users : v # u => intended'[v] = intended[v]
      /\ u \in DOMAIN users /\ pc[p] = "change" => intended'[u] = password.secret
  BY <1>1 DEF LoginMigrate, ChangePasswordWrite, Writers, AccountsInv, TypeOK
<1>7. TypeOK'
  BY <1>1, <1>4, <1>5, <1>6 DEF AccountsInv, TypeOK, Partial
<1>8. NoOrphans'
  BY <1>1, <1>5 DEF AccountsInv, NoOrphans
<1>9. PasswordSticks'
  <2> SUFFICES ASSUME NEW v \in DOMAIN users \ disturbed
               PROVE  SecretOf(users'[v].password) = intended'[v]
    BY <1>1, <1>5 DEF PasswordSticks
  <2>1. CASE v # u
    BY <1>5, <1>6, <2>1 DEF AccountsInv, PasswordSticks
  <2>2. CASE v = u
    <3>1. intended'[u] = password.secret
      BY <1>1, <1>6, <2>2 DEF AccountsInv, RequestInv, RequestOK, MigrateOK, Writers
    <3> QED BY <1>2, <1>5, <2>2, <3>1 DEF SecretOf
  <2> QED BY <2>1, <2>2
<1>10. LinkInv'
  BY <1>5 DEF AccountsInv, LinkInv
<1>11. \A q \in Clients \ {p} : Respected(q)
  <2> SUFFICES ASSUME NEW q \in Clients \ {p}
               PROVE  Respected(q)
    OBVIOUS
  <2>1. pc[q] \in Setups /\ ~reg'[q].stale => users' = users
    BY <1>4, <1>5 DEF AccountsInv, RequestInv, RequestOK, SetupOK, Empty
  <2>2. pc[q] \in Writers /\ reg[q].id \in DOMAIN users' \ disturbed' =>
          /\ reg[q].id \in DOMAIN users \ disturbed
          /\ intended'[reg[q].id] = intended[reg[q].id]
    BY <1>1, <1>5, <1>6 DEF AccountsInv, OneWriter
  <2> QED BY <1>1, <2>1, <2>2 DEF Respected
<1>12. RequestInv' /\ OneWriter'
  BY <1>4, <1>11, IdleOK, RequestsCarryOn DEF Writers
<1> QED BY <1>7, <1>8, <1>9, <1>10, <1>12 DEF AccountsInv

\* A new row for a client without a request under way: by OIDC or an administrator.
LEMMA NewUserInv ==
    ASSUME AccountsInv, NEW p \in Clients, NEW u \in UserIds, NEW row \in User,
           pc[p] = "idle", InsertUser(u, row),
           row.oidc # Null => \A v \in DOMAIN users : users[v].oidc # row.oidc,
           pc' = pc, reg' = Stale,
           UNCHANGED <<services, owner, groupVars, cas, passwordEnabled, discovered>>,
           flow' \subseteq Clients, claims' \in [Clients -> Claims \cup {Null}],
           \A q \in Clients \ {p} : claims'[q] = claims[q]
    PROVE  AccountsInv'
<1>1. /\ Partial(users', UserIds, User)
      /\ DOMAIN intended' = DOMAIN users' /\ disturbed' \subseteq DOMAIN users'
      /\ DOMAIN users' = DOMAIN users \cup {u}
      /\ \A v \in DOMAIN users : intended'[v] = intended[v]
      /\ disturbed' \in {disturbed, disturbed \cup {u}}
      /\ (\E q \in Clients : pc[q] \in Writers /\ reg[q].id = u) => u \in disturbed'
      /\ NoOrphans' /\ PasswordSticks' /\ LinkInv'
  BY InsertUserInv
<1>2. /\ pc' \in [Clients -> Labels] /\ reg' \in [Clients -> Reg]
      /\ \A q \in Clients \ {p} : Kept(q)
  BY StaleAll DEF AccountsInv
<1>3. \A q \in Clients \ {p} : Respected(q)
  BY <1>1, <1>2, StaleKeeps DEF AccountsInv, Respected, Setups
<1>4. RequestInv' /\ OneWriter'
  BY <1>2, <1>3, IdleOK, RequestsCarryOn DEF Writers
<1>5. TypeOK'
  BY <1>1, <1>2 DEF AccountsInv, TypeOK, groupVars
<1> QED BY <1>1, <1>4, <1>5 DEF AccountsInv

LEMMA CreateUserInv ==
    ASSUME AccountsInv, NEW p \in Clients, NEW u \in UserIds, NEW e \in Emails,
           NEW role \in {"User", "Admin"}, NEW x \in Secrets, NEW f \in Forms,
           CreateUser(p, u, e, role, x, f)
    PROVE  AccountsInv'
<1> DEFINE row == [email |-> e, password |-> NewPassword(x, f), oidc |-> Null, role |-> role]
<1>1. row \in User /\ row.oidc = Null
  BY PasswordTypes DEF User
<1>2. /\ flow \subseteq Clients /\ claims \in [Clients -> Claims \cup {Null}]
  BY DEF AccountsInv, TypeOK
<1>3. InsertUser(u, row) /\ pc[p] = "idle" /\ pc' = pc /\ reg' = Stale
      /\ UNCHANGED <<services, owner, groupVars, cas, passwordEnabled, discovered, flow, claims>>
  BY DEF CreateUser, oidcVars
<1> HIDE DEF row
<1> QED BY <1>1, <1>2, <1>3, NewUserInv

\* A row changes, but for its password: an update, or a link.
LEMMA RowChanges ==
    ASSUME AccountsInv, NEW p \in Clients, NEW u \in DOMAIN users, pc[p] = "idle",
           DOMAIN users' = DOMAIN users, users'[u] \in User,
           \A v \in DOMAIN users : v # u => users'[v] = users[v],
           users'[u].password = users[u].password,
           LinkInv',
           pc' = pc, reg' \in {reg, Stale},
           UNCHANGED <<services, owner, groupVars, cas, passwordEnabled, discovered,
                       intended, disturbed>>,
           flow' \subseteq Clients, claims' \in [Clients -> Claims \cup {Null}],
           \A q \in Clients \ {p} : claims'[q] = claims[q]
    PROVE  AccountsInv'
<1>1. NoOrphans'
  BY DEF AccountsInv, NoOrphans, groupVars
<1>2. PasswordSticks'
  BY DEF AccountsInv, PasswordSticks, SecretOf
<1>3. /\ pc' \in [Clients -> Labels] /\ reg' \in [Clients -> Reg]
      /\ \A q \in Clients \ {p} : Kept(q)
  <2>1. CASE reg' = reg
    BY <2>1 DEF AccountsInv, TypeOK, Kept
  <2>2. CASE reg' = Stale
    BY <2>2, StaleAll DEF AccountsInv
  <2> QED BY <2>1, <2>2
<1>4. \A q \in Clients \ {p} : Respected(q)
  <2> SUFFICES ASSUME NEW q \in Clients \ {p}
               PROVE  Respected(q)
    OBVIOUS
  <2>1. users # Empty
    BY DEF Empty
  <2>2. pc[q] \in Setups => reg'[q].stale
    BY <1>3, <2>1 DEF AccountsInv, RequestInv, RequestOK, SetupOK, Kept
  <2> QED BY <2>2 DEF Respected, Setups
<1>5. RequestInv' /\ OneWriter'
  BY <1>3, <1>4, IdleOK, RequestsCarryOn DEF Writers
<1>6. TypeOK'
  BY <1>3 DEF AccountsInv, TypeOK, groupVars, Partial
<1> QED BY <1>1, <1>2, <1>5, <1>6 DEF AccountsInv

LEMMA UpdateUserInv ==
    ASSUME AccountsInv, NEW p \in Clients, NEW u \in UserIds, NEW e \in Emails,
           NEW role \in {"User", "Admin"}, UpdateUser(p, u, e, role)
    PROVE  AccountsInv'
<1>1. u \in DOMAIN users /\ users[u] \in User
  BY DEF UpdateUser, AccountsInv, TypeOK, Partial
<1>2. users' = [users EXCEPT ![u] = [@ EXCEPT !.email = e, !.role = role]]
  BY <1>1 DEF UpdateUser, UpdateUserRow
<1>3. /\ DOMAIN users' = DOMAIN users /\ users'[u] \in User
      /\ \A v \in DOMAIN users : v # u => users'[v] = users[v]
      /\ users'[u].password = users[u].password
      /\ users'[u].oidc = users[u].oidc
  BY <1>1, <1>2 DEF User
<1>4. LinkInv'
  BY <1>1, <1>3 DEF AccountsInv, LinkInv
<1>5. flow \subseteq Clients /\ claims \in [Clients -> Claims \cup {Null}]
  BY DEF AccountsInv, TypeOK
<1> QED BY <1>1, <1>3, <1>4, <1>5, RowChanges DEF UpdateUser, oidcVars

LEMMA OidcCallbackInv ==
    ASSUME AccountsInv, NEW p \in Clients, NEW u \in UserIds, NEW s \in Subjects,
           NEW e \in Emails, OidcCallback(p, u, s, e)
    PROVE  AccountsInv'
<1>1. /\ pc[p] = "idle" /\ pc' = pc /\ reg' = Stale /\ flow' \subseteq Clients
      /\ UNCHANGED <<services, owner, groupVars, cas, passwordEnabled, discovered>>
      /\ \A q \in Clients \ {p} : claims'[q] = claims[q]
  BY DEF OidcCallback, AccountsInv, TypeOK
<1> DEFINE Known == /\ u \in DOMAIN users
                    /\ users[u].oidc = s
                    /\ UNCHANGED <<users, intended, disturbed>>
           Linked == /\ \A v \in DOMAIN users : users[v].oidc # s
                     /\ u \in DOMAIN users
                     /\ OidcLink(u, e)
                     /\ users' = [users EXCEPT ![u].oidc = s]
                     /\ UNCHANGED <<intended, disturbed>>
           New == /\ \A v \in DOMAIN users : users[v].oidc # s
                  /\ InsertUser(u, OidcUser(s, e))
<1>2. Known \/ Linked \/ New
  BY DEF OidcCallback
<1>3. OidcUser(s, e) \in User /\ OidcUser(s, e).oidc = s
  BY DEF OidcUser, User
<1>4. users'[u] \in User
  <2>1. \A v \in DOMAIN users : users[v] \in User
    BY DEF AccountsInv, TypeOK, Partial
  <2>2. CASE Known
    BY <2>1, <2>2
  <2>3. CASE Linked
    BY <2>1, <2>3 DEF User
  <2>4. CASE New
    BY <1>3, <2>4 DEF InsertUser, Put
  <2> QED BY <1>2, <2>2, <2>3, <2>4
<1>5. claims' \in [Clients -> Claims \cup {Null}]
  BY <1>4 DEF OidcCallback, AccountsInv, TypeOK, Claims, User
<1>6. CASE Known
  BY <1>1, <1>4, <1>5, <1>6, RowChanges DEF AccountsInv, LinkInv
<1>7. CASE Linked
  <2>1. users[u] \in User
    BY <1>7 DEF AccountsInv, TypeOK, Partial
  <2>2. /\ DOMAIN users' = DOMAIN users /\ users'[u].oidc = s
        /\ \A v \in DOMAIN users : v # u => users'[v] = users[v]
        /\ users'[u].password = users[u].password
    BY <1>7, <2>1 DEF User
  <2>3. LinkInv'
    BY <1>7, <2>2 DEF AccountsInv, LinkInv
  <2> QED BY <1>1, <1>4, <1>5, <1>7, <2>2, <2>3, RowChanges
<1>8. CASE New
  BY <1>1, <1>3, <1>5, <1>8, NewUserInv
<1> QED BY <1>2, <1>6, <1>7, <1>8

LEMMA DeleteUserInv ==
    ASSUME AccountsInv, NEW p \in Clients, NEW u \in UserIds, DeleteUser(p, u)
    PROVE  AccountsInv'
<1>1. /\ pc[p] = "idle" /\ pc' = pc /\ u \in DOMAIN users
      /\ reg' = StaleServices(ServicesOf(u))
      /\ group' = group /\ members' = members \ {u} /\ shared' = shared \ CertsOf(u)
      /\ UNCHANGED <<cas, passwordEnabled, claims, discovered, flow>>
      /\ disturbed' = disturbed \ {u}
  BY DEF DeleteUser, DeleteUserRows, oidcVars
<1>2. /\ DOMAIN users' = DOMAIN users \ {u} /\ DOMAIN intended' = DOMAIN users'
      /\ \A v \in DOMAIN users' : users'[v] = users[v] /\ intended'[v] = intended[v]
  BY DEF DeleteUser, DeleteUserRows, Drop, AccountsInv, TypeOK
<1>3. /\ DOMAIN services' = DOMAIN services \ ServicesOf(u)
      /\ \A s \in DOMAIN services' : services'[s] = services[s] /\ services[s].owner # u
  BY DEF DeleteUser, DeleteUserRows, Drop, ServicesOf
<1>4. /\ owner' \in [Certs -> UserIds \cup {Null}]
      /\ \A c \in Certs : owner'[c] = IF owner[c] = u THEN Null ELSE owner[c]
  BY DEF DeleteUser, DeleteUserRows, AccountsInv, TypeOK
<1>5. /\ pc' \in [Clients -> Labels] /\ reg' \in [Clients -> Reg]
      /\ \A q \in Clients : Kept(q) /\ reg'[q] = StaleServices(ServicesOf(u))[q]
  <2>1. pc' \in [Clients -> Labels] /\ reg' \in [Clients -> Reg]
    BY <1>1, StaleServicesKeeps DEF AccountsInv, TypeOK, StaleServices
  <2>2. ASSUME NEW q \in Clients
        PROVE  Kept(q) /\ reg'[q] = StaleServices(ServicesOf(u))[q]
    <3>1. ~reg'[q].stale => ~reg[q].stale
      BY <1>1, StaleServicesKeeps DEF AccountsInv
    <3> QED BY <1>1, <3>1, StaleServicesKeeps DEF Kept, AccountsInv
  <2> QED BY <2>1, <2>2
<1>6. \A q \in Clients \ {p} : Respected(q)
  <2> SUFFICES ASSUME NEW q \in Clients \ {p}
               PROVE  Respected(q)
    OBVIOUS
  <2>1. users # Empty
    BY <1>1 DEF Empty
  <2>2. pc[q] \in Setups => reg'[q].stale
    BY <1>5, <2>1 DEF AccountsInv, RequestInv, RequestOK, SetupOK, Kept
  <2>3. pc[q] = "service_write" /\ ~reg'[q].stale /\ reg[q].id \in DOMAIN services =>
          /\ reg[q].id \in DOMAIN services'
          /\ services'[reg[q].id].owner = services[reg[q].id].owner
    <3>1. pc[q] = "service_write" /\ ~reg'[q].stale => reg[q].id \notin ServicesOf(u)
      BY <1>5, StaleServicesKeeps DEF AccountsInv
    <3> QED BY <1>3, <3>1
  <2>4. pc[q] \in Writers /\ reg[q].id \in DOMAIN users' \ disturbed' =>
          /\ reg[q].id \in DOMAIN users \ disturbed
          /\ intended'[reg[q].id] = intended[reg[q].id]
    BY <1>1, <1>2
  <2> QED BY <2>2, <2>3, <2>4 DEF Respected, Setups
<1>7. RequestInv' /\ OneWriter'
  BY <1>1, <1>5, <1>6, IdleOK, RequestsCarryOn DEF Writers
<1>8. TypeOK'
  <2>1. Partial(users', UserIds, User) /\ Partial(services', ServiceIds, Service)
    BY <1>2, <1>3 DEF AccountsInv, TypeOK, Partial
  <2> QED BY <1>1, <1>2, <1>4, <1>5, <2>1 DEF AccountsInv, TypeOK
<1>9. NoOrphans'
  <2>1. \A s \in DOMAIN services' : services'[s].owner \in DOMAIN users'
    BY <1>2, <1>3 DEF AccountsInv, NoOrphans
  <2>2. \A c \in Certs : owner'[c] \in DOMAIN users' \cup {Null}
    BY <1>2, <1>4 DEF AccountsInv, NoOrphans
  <2>3. \A c \in shared' : owner'[c] # Null
    BY <1>1, <1>4 DEF AccountsInv, NoOrphans, CertsOf, TypeOK
  <2>4. members' \subseteq DOMAIN users' /\ (~group' => members' = {} /\ shared' = {})
    BY <1>1, <1>2 DEF AccountsInv, NoOrphans
  <2> QED BY <2>1, <2>2, <2>3, <2>4 DEF NoOrphans
<1>10. PasswordSticks' /\ LinkInv'
  BY <1>1, <1>2 DEF AccountsInv, PasswordSticks, LinkInv
<1> QED BY <1>7, <1>8, <1>9, <1>10 DEF AccountsInv

\* The step of a client that has checked its rights on a service account.
LEMMA ServiceReads ==
    ASSUME AccountsInv, NEW p \in Clients,
           \/ \E u \in UserIds, i \in BOOLEAN : CreateServiceRead(p, u, i)
           \/ \E s \in ServiceIds, op \in {"revoke", "delete"} : AuthorizeService(p, s, op)
    PROVE  AccountsInv'
<1>1. /\ UNCHANGED <<users, services, owner, groupVars, cas, passwordEnabled, claims,
                     intended, disturbed, oidcVars>>
      /\ claims[p] # Null
  BY DEF CreateServiceRead, AuthorizeService, Authorized
<1>2. NoOrphans' /\ PasswordSticks' /\ LinkInv' /\ \A q \in Clients : Respected(q)
  BY <1>1, TablesStay
<1> DEFINE Moved == /\ pc' \in [Clients -> Labels] /\ reg' \in [Clients -> Reg]
                    /\ pc'[p] \notin Writers
                    /\ \A q \in Clients \ {p} : Kept(q)
                    /\ RequestOK(p)'
<1>3. Moved
  <2>1. ASSUME NEW u \in UserIds, NEW i \in BOOLEAN, CreateServiceRead(p, u, i)
        PROVE  Moved
    <3> DEFINE r == [NoReg EXCEPT !.id = u, !.issue = i]
    <3>1. r \in Reg /\ r.id = u /\ r.issue = i /\ "service_insert" \in Labels
      BY DEF NoReg, Reg, Labels
    <3>2. Goto(p, "service_insert", r)
      BY <2>1 DEF CreateServiceRead
    <3> HIDE DEF r
    <3>3. /\ pc' \in [Clients -> Labels] /\ reg' \in [Clients -> Reg]
          /\ pc'[p] = "service_insert" /\ reg'[p] = r
          /\ \A q \in Clients \ {p} : Kept(q)
      BY <1>1, <3>1, <3>2, GotoKeeps DEF AccountsInv
    <3>4. RequestOK(p)'
      BY <1>1, <2>1, <3>1, <3>3
         DEF RequestOK, RegOK, SetupOK, MigrateOK, RightsOK, CanManage, Writers, Setups,
             CreateServiceRead
    <3> QED BY <3>3, <3>4 DEF Writers
  <2>2. ASSUME NEW s \in ServiceIds, NEW op \in {"revoke", "delete"}, AuthorizeService(p, s, op)
        PROVE  Moved
    <3> DEFINE r == [NoReg EXCEPT !.id = s, !.op = op]
    <3>1. r \in Reg /\ r.id = s /\ r.op = op /\ "service_write" \in Labels
      BY DEF NoReg, Reg, Labels
    <3>2. Goto(p, "service_write", r)
      BY <2>2 DEF AuthorizeService
    <3> HIDE DEF r
    <3>3. /\ pc' \in [Clients -> Labels] /\ reg' \in [Clients -> Reg]
          /\ pc'[p] = "service_write" /\ reg'[p] = r
          /\ \A q \in Clients \ {p} : Kept(q)
      BY <1>1, <3>1, <3>2, GotoKeeps DEF AccountsInv
    <3>4. RequestOK(p)'
      BY <1>1, <2>2, <3>1, <3>3
         DEF RequestOK, RegOK, SetupOK, MigrateOK, RightsOK, CanManage, Writers, Setups,
             AuthorizeService, Authorized
    <3> QED BY <3>3, <3>4 DEF Writers
  <2> QED BY <2>1, <2>2
<1>4. RequestInv' /\ OneWriter'
  BY <1>2, <1>3, RequestsCarryOn
<1>5. TypeOK'
  BY <1>1, <1>3 DEF AccountsInv, TypeOK, groupVars, oidcVars
<1> QED BY <1>2, <1>4, <1>5 DEF AccountsInv

LEMMA CreateServiceInsertInv ==
    ASSUME AccountsInv, NEW p \in Clients, NEW s \in ServiceIds, CreateServiceInsert(p, s)
    PROVE  AccountsInv'
<1>1. /\ pc[p] = "service_insert" /\ Done(p)
      /\ UNCHANGED <<users, owner, group, members, shared, cas, passwordEnabled, claims,
                     intended, disturbed, discovered, flow>>
  BY DEF CreateServiceInsert, groupVars, oidcVars
<1>2. s \notin DOMAIN services
  BY NextIdFresh, IdsAreNat DEF CreateServiceInsert
<1>3. /\ DOMAIN services' \subseteq DOMAIN services \cup {s}
      /\ \A t \in DOMAIN services : t \in DOMAIN services' /\ services'[t] = services[t]
      /\ s \in DOMAIN services' => services'[s] \in Service /\ services'[s].owner \in DOMAIN users
  <2>1. reg[p].id \in UserIds /\ reg[p].issue \in BOOLEAN
    BY <1>1 DEF AccountsInv, RequestInv, RequestOK, RegOK, TypeOK, Reg
  <2>2. CASE reg[p].id \in DOMAIN users
    BY <1>2, <2>1, <2>2 DEF CreateServiceInsert, InsertService, Put, Service
  <2>3. CASE reg[p].id \notin DOMAIN users
    BY <1>2, <2>3 DEF CreateServiceInsert
  <2> QED BY <2>2, <2>3
<1>4. NoReg \in Reg /\ "idle" \in Labels
  BY DEF NoReg, Reg, Labels
<1>5. /\ pc' \in [Clients -> Labels] /\ reg' \in [Clients -> Reg]
      /\ pc'[p] = "idle"
      /\ \A q \in Clients \ {p} : Kept(q)
  BY <1>1, <1>4, GotoKeeps DEF AccountsInv, Done
<1>6. \A q \in Clients \ {p} : Respected(q)
  BY <1>1, <1>3 DEF Respected
<1>7. RequestInv' /\ OneWriter'
  BY <1>5, <1>6, IdleOK, RequestsCarryOn DEF Writers
<1>8. TypeOK'
  BY <1>1, <1>3, <1>5 DEF AccountsInv, TypeOK, Partial
<1>9. NoOrphans'
  BY <1>1, <1>3 DEF AccountsInv, NoOrphans
<1>10. PasswordSticks' /\ LinkInv'
  BY <1>1 DEF AccountsInv, PasswordSticks, LinkInv
<1> QED BY <1>7, <1>8, <1>9, <1>10 DEF AccountsInv

LEMMA WriteServiceInv ==
    ASSUME AccountsInv, NEW p \in Clients, WriteService(p)
    PROVE  AccountsInv'
<1> DEFINE s == reg[p].id
<1>1. /\ pc[p] = "service_write" /\ pc' = [pc EXCEPT ![p] = "idle"]
      /\ UNCHANGED <<users, owner, group, members, shared, cas, passwordEnabled, claims,
                     intended, disturbed, discovered, flow>>
  BY DEF WriteService, groupVars, oidcVars
<1>2. reg[p].op \in {"revoke", "delete"}
  BY <1>1 DEF AccountsInv, RequestInv, RequestOK, RegOK
<1>3. /\ DOMAIN services' \subseteq DOMAIN services
      /\ \A t \in DOMAIN services' : /\ services'[t] \in Service
                                     /\ services'[t].owner = services[t].owner
      /\ \A t \in DOMAIN services : t # s \/ reg[p].op = "revoke" => t \in DOMAIN services'
  <2>1. \A t \in DOMAIN services : services[t] \in Service
    BY DEF AccountsInv, TypeOK, Partial
  <2>2. CASE reg[p].op = "revoke" /\ s \in DOMAIN services
    <3>1. services' = [services EXCEPT ![s].revoked = TRUE]
      BY <2>2 DEF WriteService, RevokeServiceRow
    <3> QED BY <2>1, <2>2, <3>1 DEF Service
  <2>3. CASE reg[p].op = "revoke" /\ s \notin DOMAIN services
    BY <2>1, <2>3 DEF WriteService, RevokeServiceRow
  <2>4. CASE reg[p].op = "delete"
    BY <2>1, <2>4 DEF WriteService, DeleteServiceRow, Drop
  <2> QED BY <1>2, <2>2, <2>3, <2>4
<1>4. NoReg \in Reg
  BY DEF NoReg, Reg
<1>5. /\ pc' \in [Clients -> Labels] /\ reg' \in [Clients -> Reg]
      /\ pc'[p] = "idle"
      /\ \A q \in Clients \ {p} :
           /\ Kept(q)
           /\ reg[p].op = "delete" => reg'[q] = StaleServices({s})[q]
  <2>1. pc' \in [Clients -> Labels] /\ pc'[p] = "idle" /\ \A q \in Clients \ {p} : pc'[q] = pc[q]
    BY <1>1 DEF AccountsInv, TypeOK, Labels
  <2>2. CASE reg[p].op = "revoke"
    <3>1. reg' = [reg EXCEPT ![p] = NoReg]
      BY <2>2 DEF WriteService
    <3> QED BY <1>1, <1>4, <2>1, <2>2, <3>1 DEF AccountsInv, TypeOK, Kept
  <2>3. CASE reg[p].op = "delete"
    <3> DEFINE T == StaleServices({s})
    <3>1. reg' = [T EXCEPT ![p] = NoReg]
      BY <2>3 DEF WriteService
    <3>2. /\ DOMAIN T = Clients
          /\ \A q \in Clients : /\ T[q] \in Reg
                                /\ T[q].id = reg[q].id /\ T[q].password = reg[q].password
                                /\ T[q].issue = reg[q].issue /\ T[q].op = reg[q].op
                                /\ ~T[q].stale => ~reg[q].stale
      <4>1. DOMAIN T = Clients
        BY DEF StaleServices
      <4>2. ASSUME NEW q \in Clients
            PROVE  T[q] = reg[q] \/ T[q].stale = TRUE
        BY StaleServicesKeeps DEF AccountsInv
      <4> QED BY <4>1, <4>2, StaleServicesKeeps DEF AccountsInv
    <3>3. \A q \in Clients \ {p} : reg'[q] = StaleServices({s})[q]
      BY <3>1, <3>2
    <3> HIDE DEF T
    <3>4. reg' \in [Clients -> Reg] /\ \A q \in Clients \ {p} : reg'[q] = T[q]
      BY <1>4, <3>1, <3>2
    <3>5. \A q \in Clients \ {p} : Kept(q)
      BY <1>1, <2>1, <3>2, <3>4 DEF Kept
    <3> QED BY <2>1, <3>3, <3>4, <3>5
  <2> QED BY <1>2, <2>2, <2>3
<1>6. \A q \in Clients \ {p} : Respected(q)
  <2> SUFFICES ASSUME NEW q \in Clients \ {p}
               PROVE  Respected(q)
    OBVIOUS
  <2>1. reg[p].op = "delete" /\ pc[q] = "service_write" /\ ~reg'[q].stale => reg[q].id # s
    BY <1>5, StaleServicesKeeps DEF AccountsInv
  <2> QED BY <1>1, <1>2, <1>3, <2>1 DEF Respected
<1>7. RequestInv' /\ OneWriter'
  BY <1>5, <1>6, IdleOK, RequestsCarryOn DEF Writers
<1>8. TypeOK'
  BY <1>1, <1>3, <1>5 DEF AccountsInv, TypeOK, Partial
<1>9. NoOrphans'
  BY <1>1, <1>3 DEF AccountsInv, NoOrphans
<1>10. PasswordSticks' /\ LinkInv'
  BY <1>1 DEF AccountsInv, PasswordSticks, LinkInv
<1> QED BY <1>7, <1>8, <1>9, <1>10 DEF AccountsInv

\* The server stops: no request is under way any more.
LEMMA RestartInv ==
    ASSUME AccountsInv, Restart \/ \E u \in UserIds, x \in Secrets : ResetPassword(u, x)
    PROVE  AccountsInv'
<1>1. /\ claims' = [p \in Clients |-> Null] /\ pc' = [p \in Clients |-> "idle"]
      /\ reg' = [p \in Clients |-> NoReg] /\ discovered' \in BOOLEAN
      /\ UNCHANGED <<services, owner, group, members, shared, cas, passwordEnabled, flow>>
  BY DEF Restart, ResetPassword, groupVars, Discover
<1>2. RequestInv' /\ OneWriter'
  BY <1>1, IdleOK DEF RequestInv, OneWriter, Writers
<1> DEFINE AfterStop ==
               /\ DOMAIN users' = DOMAIN users /\ DOMAIN intended' = DOMAIN users
               /\ disturbed' \subseteq DOMAIN users
               /\ \A v \in DOMAIN users : users'[v] \in User /\ users'[v].oidc = users[v].oidc
               /\ PasswordSticks'
<1>3. AfterStop
  <2>1. \A v \in DOMAIN users : users[v] \in User
    BY DEF AccountsInv, TypeOK, Partial
  <2>2. DOMAIN intended = DOMAIN users /\ disturbed \subseteq DOMAIN users
    BY DEF AccountsInv, TypeOK
  <2>3. CASE Restart
    <3> DEFINE blank == {u \in DOMAIN users : SecretOf(users[u].password) = Blank}
    <3>1. /\ users' = [u \in DOMAIN users |->
                         IF u \in blank THEN [users[u] EXCEPT !.password = Null] ELSE users[u]]
          /\ intended' = [u \in DOMAIN users |-> IF u \in blank THEN Null ELSE intended[u]]
          /\ disturbed' = disturbed
      BY <2>3 DEF Restart
    <3> HIDE DEF blank
    <3>2. \A v \in DOMAIN users : /\ users'[v] \in User /\ users'[v].oidc = users[v].oidc
                                  /\ v \in blank => users'[v].password = Null
      BY <2>1, <3>1 DEF User
    <3>3. PasswordSticks'
      BY <3>1, <3>2 DEF AccountsInv, PasswordSticks, SecretOf
    <3> QED BY <2>2, <3>1, <3>2, <3>3
  <2>4. ASSUME NEW u \in UserIds, NEW x \in Secrets, ResetPassword(u, x)
        PROVE  AfterStop
    <3> DEFINE password == [v |-> 2, secret |-> x]
    <3>1. password \in Password /\ password.secret = x
      BY DEF Password
    <3>2. /\ u \in DOMAIN users
          /\ users' = [users EXCEPT ![u].password = password]
          /\ intended' = [intended EXCEPT ![u] = x]
          /\ disturbed' = disturbed \ {u}
      BY <2>4 DEF ResetPassword, SetUserPassword
    <3> HIDE DEF password
    <3>3. \A v \in DOMAIN users : /\ users'[v] \in User /\ users'[v].oidc = users[v].oidc
                                  /\ v # u => users'[v] = users[v]
                                  /\ v = u => users'[v].password = password
      BY <2>1, <3>1, <3>2 DEF User
    <3>4. PasswordSticks'
      BY <2>2, <3>1, <3>2, <3>3, AccountsAssumption DEF AccountsInv, PasswordSticks, SecretOf
    <3> QED BY <2>2, <3>2, <3>3, <3>4
  <2> QED BY <2>3, <2>4
<1>4. TypeOK'
  BY <1>1, <1>3 DEF AccountsInv, TypeOK, Partial, Labels, NoReg, Reg
<1>5. NoOrphans'
  BY <1>1, <1>3 DEF AccountsInv, NoOrphans
<1>6. LinkInv'
  BY <1>3 DEF AccountsInv, LinkInv
<1> QED BY <1>2, <1>3, <1>4, <1>5, <1>6 DEF AccountsInv

LEMMA StutterInv ==
    ASSUME AccountsInv, UNCHANGED vars
    PROVE  AccountsInv'
<1>1. UNCHANGED <<users, services, owner, group, members, shared, cas, passwordEnabled,
                  discovered, flow, claims, pc, reg, intended, disturbed>>
  BY DEF vars, groupVars, oidcVars
<1>2. TypeOK'
  BY <1>1 DEF AccountsInv, TypeOK
<1>3. NoOrphans' /\ PasswordSticks' /\ LinkInv'
  BY <1>1 DEF AccountsInv, NoOrphans, PasswordSticks, LinkInv
<1>4. ASSUME NEW q \in Clients
      PROVE  Kept(q) /\ Respected(q)
  BY <1>1 DEF Kept, Respected
<1>5. RequestInv'
  BY <1>4, OtherRequestKept DEF AccountsInv, RequestInv
<1>6. OneWriter'
  BY <1>1 DEF AccountsInv, OneWriter
<1> QED BY <1>2, <1>3, <1>5, <1>6 DEF AccountsInv

LEMMA InitInv == Init => AccountsInv
<1> SUFFICES ASSUME Init PROVE AccountsInv
  OBVIOUS
<1>1. NoReg \in Reg
  BY DEF NoReg, Reg
<1>2. TypeOK
  <2>1. Partial(users, UserIds, User) /\ Partial(services, ServiceIds, Service)
    BY DEF Init, Partial, Empty
  <2>2. cas \in 0..MaxCa
    BY AccountsAssumption DEF Init
  <2>3. /\ owner \in [Certs -> UserIds \cup {Null}] /\ claims \in [Clients -> Claims \cup {Null}]
        /\ pc \in [Clients -> Labels] /\ reg \in [Clients -> Reg]
    BY <1>1 DEF Init, Labels
  <2>4. DOMAIN intended = DOMAIN users /\ disturbed \subseteq DOMAIN users
    BY DEF Init
  <2>5. group \in BOOLEAN /\ discovered \in BOOLEAN /\ passwordEnabled \in BOOLEAN
    BY DEF Init
  <2>6. members \subseteq UserIds /\ shared \subseteq Certs /\ flow \subseteq Clients
    BY DEF Init
  <2> QED BY <2>1, <2>2, <2>3, <2>4, <2>5, <2>6 DEF TypeOK
<1>3. NoOrphans /\ PasswordSticks /\ LinkInv
  BY DEF Init, NoOrphans, PasswordSticks, LinkInv, Empty
<1>4. RequestInv /\ OneWriter
  BY DEF Init, RequestInv, RequestOK, RegOK, SetupOK, MigrateOK, RightsOK, OneWriter, Writers,
         Setups
<1> QED BY <1>2, <1>3, <1>4 DEF AccountsInv

LEMMA NextInv == AccountsInv /\ [Next]_vars => AccountsInv'
<1> SUFFICES ASSUME AccountsInv, [Next]_vars PROVE AccountsInv'
  OBVIOUS
<1>1. ASSUME NEW p \in Clients, Setup(p) PROVE AccountsInv'
  <2>1. CASE SetupUsers(p) \/ SetupCas(p) \/ SetupCa(p)
    BY <2>1, SetupUsersInv, SetupCasInv, CaActions
  <2>2. ASSUME NEW e \in Emails, NEW x \in Secrets, NEW f \in Forms,
               \/ \E u \in UserIds : SetupInsert(p, u, e, x, f)
               \/ SetupRefused(p, e, x, f)
        PROVE  AccountsInv'
    BY <2>2, SetupInsertInv, QuietActions
  <2> QED BY <1>1, <2>1, <2>2 DEF Setup
<1>2. ASSUME NEW p \in Clients, Session(p) PROVE AccountsInv'
  BY <1>2, LoginReadInv, ChangePasswordReadInv, WritePasswordInv, OidcCallbackInv, QuietActions
     DEF Session
<1>3. ASSUME NEW p \in Clients, Admin(p) PROVE AccountsInv'
  BY <1>3, QuietActions, CaActions, CreateUserInv, UpdateUserInv, DeleteUserInv DEF Admin
<1>4. ASSUME NEW p \in Clients, Services(p) PROVE AccountsInv'
  BY <1>4, ServiceReads, CreateServiceInsertInv, WriteServiceInv DEF Services
<1>5. CASE UNCHANGED vars
  BY <1>5, StutterInv
<1> QED BY <1>1, <1>2, <1>3, <1>4, <1>5, SharingInv, RestartInv DEF Next

\* The inductive invariant holds in every behaviour.
THEOREM AccountsCorrect == Spec => []AccountsInv
BY InitInv, NextInv, PTL DEF Spec

\* The tables of users, service accounts and groups, the sessions and the requests
\* of the handlers of api.rs keep their shapes.
THEOREM AccountTypes == Spec => []TypeOK
<1>1. AccountsInv => TypeOK
  BY DEF AccountsInv
<1> QED BY <1>1, AccountsCorrect, PTL

\* delete_user with its cascades, and requests that insert after their check
\* (create_service_account, set_group_users), leave no row behind whose user or
\* group is gone.
THEOREM NoRowIsOrphaned == Spec => []NoOrphans
<1>1. AccountsInv => NoOrphans
  BY DEF AccountsInv
<1> QED BY <1>1, AccountsCorrect, PTL

\* login with its migration of old hashes, change_password, fix_password at the start
\* and ids that are handed out again never bring back another password than the one
\* last set, unless two writes of the same user's password overlap.
THEOREM PasswordsStick == Spec => []PasswordSticks
<1>1. AccountsInv => PasswordSticks
  BY DEF AccountsInv
<1> QED BY <1>1, AccountsCorrect, PTL

\* get_certificates, download_certificate and fetch_certificate_password agree for
\* every session and every service token.
THEOREM ListedAreDownloadable == Spec => []ListedIsDownloadable
<1>1. AccountsInv => ListedIsDownloadable
  BY DEF ListedIsDownloadable, Listed, Downloadable, PasswordsFor, VisibleCerts, Stored,
         CanAccessSecret, SharesGroup
<1> QED BY <1>1, AccountsCorrect, PTL

\* setup creates an administrator only while there is neither a user nor a CA,
\* however many setups and sessions of deleted users interleave.
THEOREM SetupHappensOnce == Spec => SetupOnce
<1>1. AccountsInv /\ [Next]_vars =>
        [\A p \in Clients :
           pc[p] = "setup_insert" /\ pc'[p] = "setup_ca" /\ ~reg[p].stale
               => users = Empty /\ cas = 0]_vars
  BY DEF AccountsInv, RequestInv, RequestOK, SetupOK, Setups
<1> QED BY <1>1, AccountsCorrect, PTL DEF Spec, SetupOnce

\* What becomes of the links of users that stay.
LinksKept ==
    \A u \in DOMAIN users \cap DOMAIN users' :
        users[u].oidc # Null => users'[u].oidc = users[u].oidc

LEMMA InsertKeepsLinks ==
    ASSUME NEW u \in UserIds, NEW row, InsertUser(u, row)
    PROVE  LinksKept
<1>1. u \notin DOMAIN users
  BY NextIdFresh, IdsAreNat DEF InsertUser
<1> QED BY <1>1 DEF InsertUser, Put, LinksKept

LEMMA PasswordKeepsLinks ==
    ASSUME TypeOK, NEW u, NEW password, SetUserPassword(u, password)
    PROVE  LinksKept
<1>1. \A v \in DOMAIN users : users[v] \in User
  BY DEF TypeOK, Partial
<1>2. CASE u \in DOMAIN users
  <2>1. users' = [users EXCEPT ![u].password = password]
    BY <1>2 DEF SetUserPassword
  <2> QED BY <1>1, <1>2, <2>1 DEF LinksKept, User
<1>3. CASE u \notin DOMAIN users
  BY <1>3 DEF SetUserPassword, LinksKept
<1> QED BY <1>2, <1>3

LEMMA UnchangedKeepsLinks == ASSUME UNCHANGED users PROVE LinksKept
BY DEF LinksKept

LEMMA NextKeepsLinks ==
    ASSUME AccountsInv, [Next]_vars
    PROVE  LinksKept
<1>0. TypeOK /\ \A v \in DOMAIN users : users[v] \in User
  BY DEF AccountsInv, TypeOK, Partial
<1>1. ASSUME NEW p \in Clients, Setup(p) PROVE LinksKept
  BY <1>1, InsertKeepsLinks, UnchangedKeepsLinks
     DEF Setup, SetupUsers, SetupCas, SetupCa, SetupInsert, SetupRefused
<1>2. ASSUME NEW p \in Clients, Session(p) PROVE LinksKept
  <2>1. ASSUME NEW u \in UserIds, NEW s \in Subjects, NEW e \in Emails, OidcCallback(p, u, s, e)
        PROVE  LinksKept
    <3>1. CASE UNCHANGED users
      BY <3>1, UnchangedKeepsLinks
    <3>2. CASE u \in DOMAIN users /\ OidcLink(u, e) /\ users' = [users EXCEPT ![u].oidc = s]
      BY <1>0, <3>2 DEF LinksKept, OidcLink, User
    <3>3. CASE InsertUser(u, OidcUser(s, e))
      BY <3>3, InsertKeepsLinks
    <3> QED BY <2>1, <3>1, <3>2, <3>3 DEF OidcCallback
  <2>2. CASE LoginMigrate(p) \/ ChangePasswordWrite(p)
    BY <1>0, <2>2, PasswordKeepsLinks DEF LoginMigrate, ChangePasswordWrite
  <2> QED BY <1>2, <2>1, <2>2, UnchangedKeepsLinks
          DEF Session, LoginRead, ChangePasswordRead, OidcLogin, OidcCallbackFails, EndSession
<1>3. ASSUME NEW p \in Clients, Admin(p) PROVE LinksKept
  <2>1. ASSUME NEW u \in UserIds, NEW e \in Emails, NEW role \in {"User", "Admin"},
               UpdateUser(p, u, e, role)
        PROVE  LinksKept
    <3>1. u \in DOMAIN users /\ users' = [users EXCEPT ![u] = [@ EXCEPT !.email = e, !.role = role]]
      BY <2>1 DEF UpdateUser, UpdateUserRow
    <3> QED BY <1>0, <3>1 DEF LinksKept, User
  <2>2. ASSUME NEW u \in UserIds, DeleteUser(p, u)
        PROVE  LinksKept
    BY <2>2 DEF DeleteUser, DeleteUserRows, Drop, LinksKept
  <2>3. ASSUME NEW u \in UserIds, NEW e \in Emails, NEW role \in {"User", "Admin"},
               NEW x \in Secrets, NEW f \in Forms, CreateUser(p, u, e, role, x, f)
        PROVE  LinksKept
    BY <2>3, InsertKeepsLinks DEF CreateUser
  <2>4. CASE UpdateSettings(p) \/ DeleteCa(p)
    BY <2>4, UnchangedKeepsLinks DEF UpdateSettings, DeleteCa
  <2> QED BY <1>3, <2>1, <2>2, <2>3, <2>4 DEF Admin
<1>4. ASSUME NEW p \in Clients, Services(p) \/ Sharing(p) PROVE LinksKept
  BY <1>4, UnchangedKeepsLinks
     DEF Services, CreateServiceRead, CreateServiceInsert, AuthorizeService, WriteService,
         Sharing, IssueCert, CreateGroup, DeleteGroup, SetGroupUsers, SetGroupCerts
<1>5. CASE Restart
  <2> DEFINE blank == {u \in DOMAIN users : SecretOf(users[u].password) = Blank}
  <2>1. users' = [u \in DOMAIN users |->
                     IF u \in blank THEN [users[u] EXCEPT !.password = Null] ELSE users[u]]
    BY <1>5 DEF Restart
  <2> HIDE DEF blank
  <2> QED BY <1>0, <2>1 DEF LinksKept, User
<1>6. ASSUME NEW u \in UserIds, NEW x \in Secrets, ResetPassword(u, x)
      PROVE  LinksKept
  BY <1>0, <1>6, PasswordKeepsLinks DEF ResetPassword
<1>7. CASE UNCHANGED vars
  BY <1>7, UnchangedKeepsLinks DEF vars
<1> QED BY <1>1, <1>2, <1>3, <1>4, <1>5, <1>6, <1>7 DEF Next

\* register_oidc_user never moves an account from one OIDC subject to another, and
\* gives no subject a second account.
THEOREM LinksAreForGood == Spec => LinkedForGood
<1>1. AccountsInv /\ AccountsInv' /\ [Next]_vars =>
        [/\ \A u \in DOMAIN users \cap DOMAIN users' :
              users[u].oidc # Null => users'[u].oidc = users[u].oidc
         /\ \A u, v \in DOMAIN users' :
              users'[u].oidc = users'[v].oidc /\ users'[u].oidc # Null => u = v]_vars
  BY NextKeepsLinks DEF LinksKept, AccountsInv, LinkInv
<1> QED BY <1>1, AccountsCorrect, PTL DEF Spec, LinkedForGood

\* Which steps end a request on a service account with its session still there.
LEMMA ServiceRequestEnds ==
    ASSUME TypeOK, [Next]_vars, NEW p \in Clients,
           pc[p] \in {"service_write", "service_insert"}, pc'[p] = "idle", claims'[p] # Null
    PROVE  WriteService(p) \/ \E s \in ServiceIds : CreateServiceInsert(p, s)
<1>0. pc \in [Clients -> Labels]
  BY DEF TypeOK
<1>1. ASSUME NEW q \in Clients, Setup(q) PROVE FALSE
  BY <1>0, <1>1 DEF Setup, SetupUsers, SetupCas, SetupCa, SetupInsert, SetupRefused, Goto, Done
<1>2. ASSUME NEW q \in Clients, Session(q) PROVE FALSE
  BY <1>0, <1>2 DEF Session, LoginRead, LoginMigrate, ChangePasswordRead, ChangePasswordWrite,
                    OidcCallback, OidcLogin, OidcCallbackFails, EndSession, Goto, Done
<1>3. ASSUME NEW q \in Clients, Admin(q) PROVE FALSE
  BY <1>3 DEF Admin, UpdateSettings, DeleteCa, CreateUser, UpdateUser, DeleteUser
<1>4. ASSUME NEW q \in Clients, Sharing(q) PROVE FALSE
  BY <1>4 DEF Sharing, IssueCert, CreateGroup, DeleteGroup, SetGroupUsers, SetGroupCerts
<1>5. ASSUME NEW q \in Clients, Services(q)
      PROVE  WriteService(p) \/ \E s \in ServiceIds : CreateServiceInsert(p, s)
  <2>1. q = p
    BY <1>0, <1>5 DEF Services, CreateServiceRead, CreateServiceInsert, AuthorizeService,
                      WriteService, Goto, Done
  <2> QED BY <1>5, <2>1 DEF Services, CreateServiceRead, AuthorizeService
<1>6. ~(Restart \/ \E u \in UserIds, x \in Secrets : ResetPassword(u, x))
  BY DEF Restart, ResetPassword
<1>7. ~UNCHANGED vars
  BY DEF vars
<1> QED BY <1>1, <1>2, <1>3, <1>4, <1>5, <1>6, <1>7 DEF Next

\* What client p may do to service account s.
WithinRights(p, s) ==
    LET before == IF s \in DOMAIN services THEN services[s] ELSE Null
        after == IF s \in DOMAIN services' THEN services'[s] ELSE Null
    IN before # after =>
         /\ before # Null => CanManage(claims[p], before.owner)
         /\ after # Null => /\ CanManage(claims[p], after.owner)
                            /\ after.issue => \/ claims[p].role = "Admin"
                                              \/ before # Null

LEMMA InsertWithinRights ==
    ASSUME AccountsInv, NEW p \in Clients, NEW t \in ServiceIds, CreateServiceInsert(p, t),
           NEW s \in ServiceIds
    PROVE  WithinRights(p, s)
<1>1. /\ CanManage(claims[p], reg[p].id)
      /\ reg[p].issue => claims[p].role = "Admin"
  BY DEF CreateServiceInsert, AccountsInv, RequestInv, RequestOK, RightsOK
<1>2. t \notin DOMAIN services
  BY NextIdFresh, IdsAreNat DEF CreateServiceInsert
<1>3. CASE reg[p].id \notin DOMAIN users
  BY <1>3 DEF CreateServiceInsert, WithinRights
<1>4. CASE reg[p].id \in DOMAIN users
  <2>1. /\ DOMAIN services' = DOMAIN services \cup {t}
        /\ \A x \in DOMAIN services : services'[x] = services[x]
        /\ services'[t].owner = reg[p].id /\ services'[t].issue = reg[p].issue
    BY <1>2, <1>4 DEF CreateServiceInsert, InsertService, Put
  <2>2. CASE s # t
    BY <2>1, <2>2 DEF WithinRights
  <2>3. CASE s = t
    BY <1>1, <1>2, <2>1, <2>3 DEF WithinRights
  <2> QED BY <2>2, <2>3
<1> QED BY <1>3, <1>4

LEMMA WriteWithinRights ==
    ASSUME AccountsInv, NEW p \in Clients, WriteService(p), ~reg[p].stale,
           NEW s \in ServiceIds
    PROVE  WithinRights(p, s)
<1> DEFINE t == reg[p].id
<1>1. /\ t \in DOMAIN services
      /\ CanManage(claims[p], services[t].owner)
      /\ reg[p].op \in {"revoke", "delete"}
  BY DEF WriteService, AccountsInv, RequestInv, RequestOK, RegOK, RightsOK
<1>2. \A x \in DOMAIN services : services[x] \in Service /\ services[x] # Null
  BY AccountsAssumption DEF AccountsInv, TypeOK, Partial
<1>3. CASE reg[p].op = "revoke"
  <2>1. services' = [services EXCEPT ![t].revoked = TRUE]
    BY <1>1, <1>3 DEF WriteService, RevokeServiceRow
  <2>2. /\ DOMAIN services' = DOMAIN services
        /\ \A x \in DOMAIN services : x # t => services'[x] = services[x]
        /\ services'[t].owner = services[t].owner
    BY <1>1, <1>2, <2>1 DEF Service
  <2> HIDE DEF t
  <2>3. CASE s # t
    BY <2>2, <2>3 DEF WithinRights
  <2>4. CASE s = t
    BY <1>1, <1>2, <2>2, <2>4 DEF WithinRights
  <2> QED BY <2>3, <2>4
<1>4. CASE reg[p].op = "delete"
  <2>1. /\ DOMAIN services' = DOMAIN services \ {t}
        /\ \A x \in DOMAIN services' : services'[x] = services[x]
    BY <1>4 DEF WriteService, DeleteServiceRow, Drop
  <2> HIDE DEF t
  <2>2. CASE s # t
    BY <2>1, <2>2 DEF WithinRights
  <2>3. CASE s = t
    BY <1>1, <2>1, <2>3 DEF WithinRights
  <2> QED BY <2>2, <2>3
<1> QED BY <1>1, <1>3, <1>4

\* create_service_account, revoke_service_account and delete_service_account write
\* after their check of the rights, and still touch only accounts that the session
\* may manage; none that may issue comes from a plain user.
THEOREM ServicesStayWithinRights == Spec => ServicesWithinRights
<1>1. AccountsInv /\ [Next]_vars =>
        [\A p \in Clients :
           pc[p] \in {"service_write", "service_insert"} /\ pc'[p] = "idle" /\ claims'[p] # Null
              /\ ~reg[p].stale => \A s \in ServiceIds : WithinRights(p, s)]_vars
  BY ServiceRequestEnds, InsertWithinRights, WriteWithinRights DEF AccountsInv
<1>2. [][\A p \in Clients :
           pc[p] \in {"service_write", "service_insert"} /\ pc'[p] = "idle" /\ claims'[p] # Null
              /\ ~reg[p].stale => \A s \in ServiceIds : WithinRights(p, s)]_vars
        => ServicesWithinRights
  BY PTL DEF ServicesWithinRights, WithinRights
<1> QED BY <1>1, <1>2, AccountsCorrect, PTL DEF Spec

=============================================================================
