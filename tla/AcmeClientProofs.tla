-------------------------- MODULE AcmeClientProofs --------------------------
(***************************************************************************)
(* The safety properties of AcmeClient, for any number of requests, orders,   *)
(* certificates and directories.                                            *)
(*                                                                         *)
(* ClientInv says, beside the properties, what a handler may rely on between  *)
(* its reads, its calls of the CA and its writes, as long as nobody marked it. *)
(***************************************************************************)
EXTENDS AcmeClient, TLAPS

\* The steps of phase 2, with an order at hand, and those with a provider at hand.
Working == {"issue", "compare", "replace", "store", "status", "failed"}
Opening == {"update", "order", "creds"}

\* What a handler carries.
RegOK(a) ==
    /\ reg[a].order # Null <=> pc[a] \in Working
    /\ pc[a] \in Opening => reg[a].seen \in Provider
    /\ pc[a] \in (Working \cup {"creds", "insert"}) => reg[a].remote \in RemoteIds
    /\ pc[a] \in {"compare", "replace", "status"} => reg[a].cert \in CertIds
    /\ pc[a] \in {"compare", "replace", "store"} => reg[a].until \in Untils

\* The order of a handler is there with the content the handler has, and is not
\* yet valid; what it is about to call valid is written.
OrderOK(a) ==
    /\ reg[a].order # Null /\ reg[a].order \notin clashed =>
          /\ reg[a].order \in DOMAIN orders
          /\ orders[reg[a].order].remote = reg[a].remote
          /\ orders[reg[a].order].status # "valid"
    /\ pc[a] = "status" => reg[a].remote \in written

\* The provider that a handler has read is still the same.
ProviderOK(a) ==
    /\ pc[a] \in Opening /\ ~reg[a].stale => provider # Null /\ reg[a].seen.dir = provider.dir
    /\ pc[a] = "creds" => /\ reg[a].fresh \in DOMAIN accounts
                          /\ accounts[reg[a].fresh] = reg[a].seen.dir

\* The comparison of the expiries still holds for the row.
ExpiryOK(a) ==
    ~reg[a].stale /\ reg[a].cert \in DOMAIN certs /\ pc[a] = "replace"
        => reg[a].until > certs[reg[a].cert].until

HandlerOK(a) == RegOK(a) /\ OrderOK(a) /\ ProviderOK(a) /\ ExpiryOK(a)

HandlerInv == \A a \in Clients : HandlerOK(a)

\* An order has one handler, unless it is known to be clashed.
OneHandler ==
    \A a, b \in Clients :
        reg[a].order # Null /\ reg[a].order = reg[b].order /\ a # b => reg[a].order \in clashed

\* The stored account is one that the CA knows.
CredsInv == provider # Null => provider.creds \in DOMAIN accounts \cup {Null}

ClientInv ==
    /\ TypeOK /\ ValidMeansStored /\ AccountMatches
    /\ HandlerInv /\ OneHandler /\ CredsInv

----------------------------------------------------------------------------
(* The operators.                                                           *)

LEMMA NextIdFresh ==
    ASSUME NEW f, NEW id \in Nat, IsNextId(f, id)
    PROVE  id \notin DOMAIN f
BY DEF IsNextId

LEMMA IdTypes ==
    /\ OrderIds \subseteq Nat /\ CertIds \subseteq Nat /\ RemoteIds \subseteq Nat
    /\ AccountIds \subseteq Nat /\ Untils \subseteq Nat
    /\ Null \notin OrderIds \cup CertIds \cup RemoteIds \cup AccountIds \cup Untils
    /\ Null \notin Provider
BY AcmeClientAssumption DEF OrderIds, CertIds, RemoteIds, AccountIds, Untils

LEMMA NoRegType == NoReg \in Reg /\ NoReg.order = Null /\ "idle" \in Labels
BY DEF NoReg, Reg, Labels

\* Marking changes nothing but the mark.
LEMMA MarkKeeps ==
    ASSUME TypeOK, NEW S, NEW b \in Clients
    PROVE  /\ MarkStale(S)[b] \in Reg
           /\ MarkStale(S)[b] = reg[b] \/ MarkStale(S)[b] = [reg[b] EXCEPT !.stale = TRUE]
           /\ b \in S => MarkStale(S)[b].stale = TRUE
           /\ DOMAIN MarkStale(S) = Clients
BY DEF MarkStale, TypeOK, Reg

\* A handler to which nothing happens, but that it may be marked.
Kept(b) ==
    /\ pc'[b] = pc[b]
    /\ reg'[b].order = reg[b].order /\ reg'[b].cert = reg[b].cert
    /\ reg'[b].seen = reg[b].seen /\ reg'[b].fresh = reg[b].fresh
    /\ reg'[b].remote = reg[b].remote /\ reg'[b].until = reg[b].until
    /\ ~reg'[b].stale => ~reg[b].stale

LEMMA MarkedIsKept ==
    ASSUME TypeOK, NEW S, NEW b \in Clients, pc'[b] = pc[b], reg'[b] = MarkStale(S)[b]
    PROVE  Kept(b) /\ reg'[b] \in Reg /\ (b \in S => reg'[b].stale)
<1>1. reg[b] \in Reg
  BY DEF TypeOK
<1>2. reg'[b] \in Reg /\ (b \in S => reg'[b].stale)
  BY MarkKeeps
<1>3. CASE reg'[b] = reg[b]
  BY <1>2, <1>3 DEF Kept
<1>4. CASE reg'[b] = [reg[b] EXCEPT !.stale = TRUE]
  BY <1>1, <1>2, <1>4 DEF Kept, Reg
<1> QED BY <1>2, <1>3, <1>4, MarkKeeps

LEMMA GotoKeeps ==
    ASSUME TypeOK, NEW a \in Clients, NEW l \in Labels, NEW r \in Reg, Goto(a, l, r)
    PROVE  /\ pc' \in [Clients -> Labels] /\ reg' \in [Clients -> Reg]
           /\ pc'[a] = l /\ reg'[a] = r
           /\ \A b \in Clients \ {a} : Kept(b) /\ reg'[b] = reg[b]
BY DEF Goto, TypeOK, Kept

----------------------------------------------------------------------------
(* What a step must leave for the handlers that do not take it.              *)

OrderRespected(b) ==
    reg[b].order # Null /\ reg[b].order \notin clashed' =>
        /\ reg[b].order \notin clashed
        /\ reg[b].order \in DOMAIN orders =>
              /\ reg[b].order \in DOMAIN orders'
              /\ orders'[reg[b].order].remote = orders[reg[b].order].remote
              /\ orders'[reg[b].order].status = "valid" => orders[reg[b].order].status = "valid"

ProviderRespected(b) ==
    /\ pc[b] \in Opening /\ ~reg'[b].stale /\ provider # Null
          => provider' # Null /\ provider'.dir = provider.dir
    /\ \A x \in DOMAIN accounts : x \in DOMAIN accounts' /\ accounts'[x] = accounts[x]

ExpiryRespected(b) ==
    /\ pc[b] = "replace"
    /\ ~reg'[b].stale /\ reg[b].cert \in DOMAIN certs'
    => reg[b].cert \in DOMAIN certs /\ certs'[reg[b].cert].until = certs[reg[b].cert].until

Respected(b) ==
    OrderRespected(b) /\ ProviderRespected(b) /\ ExpiryRespected(b) /\ written \subseteq written'

LEMMA OtherHandlerKept ==
    ASSUME NEW b \in Clients, HandlerOK(b), Kept(b), Respected(b)
    PROVE  HandlerOK(b)'
<1>1. RegOK(b)'
  BY DEF HandlerOK, RegOK, Kept
<1>2. OrderOK(b)'
  BY DEF HandlerOK, OrderOK, Kept, Respected, OrderRespected
<1>3. ProviderOK(b)'
  BY DEF HandlerOK, ProviderOK, Kept, Respected, ProviderRespected, Opening
<1>4. ExpiryOK(b)'
  BY DEF HandlerOK, ExpiryOK, Kept, Respected, ExpiryRespected
<1> QED BY <1>1, <1>2, <1>3, <1>4 DEF HandlerOK

LEMMA HandlersCarryOn ==
    ASSUME ClientInv, NEW a \in Clients,
           \A b \in Clients \ {a} : Kept(b) /\ Respected(b),
           HandlerOK(a)',
           \/ reg'[a].order = Null
           \/ reg'[a].order = reg[a].order /\ (reg[a].order \in clashed => reg[a].order \in clashed')
           \/ \A b \in Clients \ {a} : reg[b].order = reg'[a].order => reg'[a].order \in clashed'
    PROVE  HandlerInv' /\ OneHandler'
<1>1. HandlerInv'
  BY OtherHandlerKept DEF ClientInv, HandlerInv
<1>2. OneHandler'
  <2> SUFFICES ASSUME NEW b \in Clients, NEW d \in Clients, b # d,
                      reg'[b].order # Null, reg'[b].order = reg'[d].order
               PROVE  reg'[b].order \in clashed'
    BY DEF OneHandler
  <2>1. CASE b # a /\ d # a
    BY <2>1 DEF ClientInv, OneHandler, Kept, Respected, OrderRespected
  <2>2. CASE b = a
    BY <2>2 DEF ClientInv, OneHandler, Kept, Respected, OrderRespected
  <2>3. CASE d = a
    BY <2>3 DEF ClientInv, OneHandler, Kept, Respected, OrderRespected
  <2> QED BY <2>1, <2>2, <2>3
<1> QED BY <1>1, <1>2

LEMMA AllHandlersKept ==
    ASSUME ClientInv, \A b \in Clients : Kept(b) /\ Respected(b)
    PROVE  HandlerInv' /\ OneHandler'
<1>1. HandlerInv'
  BY OtherHandlerKept DEF ClientInv, HandlerInv
<1>2. OneHandler'
  BY DEF ClientInv, OneHandler, Kept, Respected, OrderRespected
<1> QED BY <1>1, <1>2

LEMMA IdleOK ==
    ASSUME NEW a \in Clients, pc'[a] = "idle", reg'[a] = NoReg
    PROVE  HandlerOK(a)'
<1>1. reg'[a].order = Null
  BY DEF NoReg
<1>2. RegOK(a)'
  BY <1>1 DEF RegOK, Working, Opening
<1>3. OrderOK(a)' /\ ProviderOK(a)' /\ ExpiryOK(a)'
  BY <1>1 DEF OrderOK, ProviderOK, ExpiryOK, Working, Opening
<1> QED BY <1>2, <1>3 DEF HandlerOK

----------------------------------------------------------------------------
(* The steps.                                                               *)

Tables == <<provider, orders, certs, written, accounts, crossed>>

\* The tables stay, and more orders may be known to be clashed.
LEMMA TablesStay ==
    ASSUME ClientInv, UNCHANGED Tables, clashed \subseteq clashed'
    PROVE  /\ ValidMeansStored' /\ AccountMatches' /\ CredsInv'
           /\ \A b \in Clients : Respected(b)
<1> USE DEF Tables
<1>1. ValidMeansStored'
  BY DEF ClientInv, ValidMeansStored
<1>2. AccountMatches' /\ CredsInv'
  BY DEF ClientInv, AccountMatches, CredsInv
<1>3. \A b \in Clients : Respected(b)
  BY DEF Respected, OrderRespected, ProviderRespected, ExpiryRespected
<1> QED BY <1>1, <1>2, <1>3

\* A handler goes on, with the tables as they were.
LEMMA QuietStep ==
    ASSUME ClientInv, NEW a \in Clients, NEW l \in Labels, NEW r \in Reg, Goto(a, l, r),
           UNCHANGED Tables, clashed \subseteq clashed', clashed' \subseteq OrderIds,
           Partial(remote', RemoteIds, Remote),
           HandlerOK(a)',
           \/ r.order = Null \/ r.order = reg[a].order
           \/ \A b \in Clients \ {a} : reg[b].order = r.order => r.order \in clashed'
    PROVE  ClientInv'
<1>1. /\ pc' \in [Clients -> Labels] /\ reg' \in [Clients -> Reg]
      /\ pc'[a] = l /\ reg'[a] = r
      /\ \A b \in Clients \ {a} : Kept(b) /\ reg'[b] = reg[b]
  BY GotoKeeps DEF ClientInv
<1>2. ValidMeansStored' /\ AccountMatches' /\ CredsInv' /\ \A b \in Clients : Respected(b)
  BY TablesStay
<1>3. HandlerInv' /\ OneHandler'
  BY <1>1, <1>2, HandlersCarryOn
<1>4. TypeOK'
  BY <1>1 DEF ClientInv, TypeOK, Tables
<1> QED BY <1>2, <1>3, <1>4 DEF ClientInv

\* A handler ends, with the tables as they were.
LEMMA QuietEnd ==
    ASSUME ClientInv, NEW a \in Clients, Done(a), UNCHANGED Tables, UNCHANGED clashed,
           Partial(remote', RemoteIds, Remote)
    PROVE  ClientInv'
<1>1. Goto(a, "idle", NoReg) /\ NoReg \in Reg /\ NoReg.order = Null /\ "idle" \in Labels
  BY NoRegType DEF Done
<1>2. pc'[a] = "idle" /\ reg'[a] = NoReg
  BY <1>1, GotoKeeps DEF ClientInv
<1>3. HandlerOK(a)'
  BY <1>2, IdleOK
<1>4. clashed' \subseteq OrderIds
  BY DEF ClientInv, TypeOK
<1> QED BY <1>1, <1>3, <1>4, QuietStep

LEMMA UpdateProviderReadInv ==
    ASSUME ClientInv, NEW p \in Clients, UpdateProviderRead(p)
    PROVE  ClientInv'
<1> DEFINE r == [NoReg EXCEPT !.seen = provider]
<1>1. /\ provider \in Provider /\ p \in Clients /\ "update" \in Labels
      /\ clashed \subseteq OrderIds /\ Partial(remote, RemoteIds, Remote)
      /\ UNCHANGED Tables /\ UNCHANGED <<remote, clashed>>
  BY AcmeClientAssumption
     DEF UpdateProviderRead, ClientInv, TypeOK, Labels, Tables
<1>2. r \in Reg /\ r.order = Null /\ r.seen = provider
  BY <1>1 DEF NoReg, Reg
<1>3. Goto(p, "update", r) /\ provider # Null
  BY DEF UpdateProviderRead
<1> HIDE DEF r
<1>4. pc'[p] = "update" /\ reg'[p] = r
  BY <1>1, <1>2, <1>3, GotoKeeps DEF ClientInv
<1>5. HandlerOK(p)'
  BY <1>1, <1>2, <1>3, <1>4
     DEF HandlerOK, RegOK, OrderOK, ProviderOK, ExpiryOK, Working, Opening, Tables
<1> QED BY <1>1, <1>2, <1>3, <1>5, QuietStep

LEMMA CreateOrderInv ==
    ASSUME ClientInv, NEW p \in Clients, NEW c \in CertIds \cup {Null}, CreateOrder(p, c)
    PROVE  ClientInv'
<1> DEFINE r == [NoReg EXCEPT !.seen = provider, !.cert = c]
<1>1. /\ provider \in Provider /\ p \in Clients /\ "order" \in Labels
      /\ clashed \subseteq OrderIds /\ Partial(remote, RemoteIds, Remote)
      /\ UNCHANGED Tables /\ UNCHANGED <<remote, clashed>>
  BY AcmeClientAssumption DEF CreateOrder, ClientInv, TypeOK, Labels, Tables
<1>2. r \in Reg /\ r.order = Null /\ r.seen = provider
  BY <1>1 DEF NoReg, Reg
<1>3. Goto(p, "order", r) /\ provider # Null
  BY DEF CreateOrder
<1> HIDE DEF r
<1>4. pc'[p] = "order" /\ reg'[p] = r
  BY <1>1, <1>2, <1>3, GotoKeeps DEF ClientInv
<1>5. HandlerOK(p)'
  BY <1>1, <1>2, <1>3, <1>4
     DEF HandlerOK, RegOK, OrderOK, ProviderOK, ExpiryOK, Working, Opening, Tables
<1> QED BY <1>1, <1>2, <1>3, <1>5, QuietStep

LEMMA IssueOrderInv ==
    ASSUME ClientInv, NEW p \in Clients, NEW o \in OrderIds, IssueOrder(p, o)
    PROVE  ClientInv'
<1> DEFINE r == [NoReg EXCEPT !.seen = provider, !.order = o, !.cert = orders[o].renews,
                              !.remote = orders[o].remote]
<1>1. /\ p \in Clients /\ "issue" \in Labels
      /\ o \in DOMAIN orders /\ orders[o] \in Order /\ Issuable(o)
      /\ Partial(remote, RemoteIds, Remote)
      /\ UNCHANGED Tables /\ UNCHANGED remote
      /\ provider \in Provider \cup {Null}
      /\ clashed' = IF WorkingOn({o}) = {} THEN clashed ELSE clashed \cup {o}
      /\ clashed \subseteq OrderIds
  BY AcmeClientAssumption
     DEF IssueOrder, ClientInv, TypeOK, Labels, Tables, Partial
<1>2. /\ r \in Reg /\ r.order = o /\ r.cert = orders[o].renews /\ r.remote = orders[o].remote
      /\ r.remote \in RemoteIds
  BY <1>1 DEF NoReg, Reg, Order
<1>3. Goto(p, "issue", r)
  BY DEF IssueOrder
<1> HIDE DEF r
<1>4. pc'[p] = "issue" /\ reg'[p] = r
  BY <1>1, <1>2, <1>3, GotoKeeps DEF ClientInv
<1>5. RegOK(p)'
  BY <1>1, <1>2, <1>4, IdTypes DEF RegOK, Working, Opening
<1>6. OrderOK(p)'
  BY <1>1, <1>2, <1>4 DEF OrderOK, Tables, Issuable
<1>7. ProviderOK(p)' /\ ExpiryOK(p)'
  BY <1>1, <1>4 DEF ProviderOK, ExpiryOK, Opening
<1>8. HandlerOK(p)'
  BY <1>5, <1>6, <1>7 DEF HandlerOK
<1>9. \A b \in Clients \ {p} : reg[b].order = r.order => r.order \in clashed'
  BY <1>1, <1>2, IdTypes DEF WorkingOn
<1>10. clashed \subseteq clashed' /\ clashed' \subseteq OrderIds
  BY <1>1
<1> QED BY <1>1, <1>2, <1>3, <1>8, <1>9, <1>10, QuietStep

\* A handler of phase 2 goes to another step of it and keeps its order.
LEMMA PhaseTwoStep ==
    ASSUME ClientInv, NEW a \in Clients, NEW l \in Working \ {"status"}, NEW r \in Reg,
           pc[a] \in Working, Goto(a, l, r),
           r.order = reg[a].order, r.remote = reg[a].remote,
           l \in {"compare", "replace"} => r.cert \in CertIds,
           l \in {"compare", "replace", "store"} => r.until \in Untils,
           l = "replace" /\ ~r.stale /\ r.cert \in DOMAIN certs => r.until > certs[r.cert].until,
           l # "issue",
           UNCHANGED Tables, UNCHANGED clashed, Partial(remote', RemoteIds, Remote)
    PROVE  ClientInv'
<1>1. /\ l \in Labels /\ HandlerOK(a)
      /\ clashed' \subseteq OrderIds
  BY DEF ClientInv, HandlerInv, TypeOK, Working, Labels
<1>2. pc'[a] = l /\ reg'[a] = r
  BY <1>1, GotoKeeps DEF ClientInv
<1>3. RegOK(a)'
  BY <1>1, <1>2 DEF HandlerOK, RegOK, Working, Opening
<1>4. OrderOK(a)'
  BY <1>1, <1>2 DEF HandlerOK, OrderOK, Tables
<1>5. ProviderOK(a)'
  BY <1>2 DEF ProviderOK, Working, Opening
<1>6. ExpiryOK(a)'
  BY <1>2 DEF ExpiryOK, Working, Tables
<1>7. HandlerOK(a)'
  BY <1>3, <1>4, <1>5, <1>6 DEF HandlerOK
<1> QED BY <1>1, <1>7, QuietStep DEF Working

LEMMA RemoteStatus ==
    ASSUME TypeOK, NEW n, NEW status \in {"pending", "ready", "valid", "invalid"},
           remote' = [remote EXCEPT ![n].status = status]
    PROVE  Partial(remote', RemoteIds, Remote)
<1>1. \A x \in DOMAIN remote : remote[x] \in Remote
  BY DEF TypeOK, Partial
<1>2. DOMAIN remote' = DOMAIN remote
  OBVIOUS
<1>3. \A x \in DOMAIN remote : remote'[x] \in Remote
  BY <1>1 DEF Remote
<1> QED BY <1>2, <1>3 DEF TypeOK, Partial

LEMMA IssueSucceedsInv ==
    ASSUME ClientInv, NEW a \in Clients, NEW until \in Untils, IssueSucceeds(a, until)
    PROVE  ClientInv'
<1> DEFINE r == [reg[a] EXCEPT !.until = until]
<1>1. /\ pc[a] = "issue" /\ HandlerOK(a) /\ reg[a] \in Reg
      /\ UNCHANGED Tables /\ UNCHANGED clashed
      /\ Partial(remote', RemoteIds, Remote)
  BY RemoteStatus DEF IssueSucceeds, ClientInv, HandlerInv, TypeOK, Tables
<1>2. /\ r \in Reg /\ r.order = reg[a].order /\ r.remote = reg[a].remote
      /\ r.cert = reg[a].cert /\ r.until = until /\ r.stale = reg[a].stale
  BY <1>1 DEF Reg
<1> HIDE DEF r
<1>3. CASE reg[a].cert = Null
  <2>1. Goto(a, "store", r)
    BY <1>3 DEF IssueSucceeds, r
  <2> QED BY <1>1, <1>2, <2>1, PhaseTwoStep DEF Working
<1>4. CASE reg[a].cert # Null
  <2>1. Goto(a, "compare", r)
    BY <1>4 DEF IssueSucceeds, r
  <2>2. reg[a].cert \in CertIds
    BY <1>1, <1>4 DEF Reg
  <2> QED BY <1>1, <1>2, <2>1, <2>2, PhaseTwoStep DEF Working
<1> QED BY <1>3, <1>4

LEMMA IssueFailsInv ==
    ASSUME ClientInv, NEW a \in Clients, NEW s \in {"pending", "ready", "valid", "invalid"},
           IssueFails(a, s)
    PROVE  ClientInv'
<1>1. /\ pc[a] = "issue" /\ reg[a] \in Reg
      /\ UNCHANGED Tables /\ UNCHANGED clashed
      /\ Partial(remote', RemoteIds, Remote)
  BY RemoteStatus DEF IssueFails, ClientInv, TypeOK, Tables
<1> QED BY <1>1, PhaseTwoStep DEF IssueFails, Working

LEMMA CompareInv ==
    ASSUME ClientInv, NEW a \in Clients, Compare(a)
    PROVE  ClientInv'
<1>1. /\ pc[a] = "compare" /\ reg[a] \in Reg /\ HandlerOK(a)
      /\ UNCHANGED Tables /\ UNCHANGED clashed
      /\ Partial(remote', RemoteIds, Remote)
  BY DEF Compare, ClientInv, TypeOK, HandlerInv, Tables
<1>2. reg[a].cert \in CertIds /\ reg[a].until \in Untils
  BY <1>1 DEF HandlerOK, RegOK
<1>3. CASE /\ Goto(a, "replace", reg[a]) /\ RenewalExtendsExpiry(reg[a].until, certs[reg[a].cert].until)
  BY <1>1, <1>2, <1>3, PhaseTwoStep DEF Working, RenewalExtendsExpiry
<1>4. CASE Goto(a, "failed", reg[a])
  BY <1>1, <1>2, <1>4, PhaseTwoStep DEF Working
<1> QED BY <1>3, <1>4 DEF Compare

LEMMA NewOrderFailsInv ==
    ASSUME ClientInv, NEW a \in Clients, NewOrderFails(a)
    PROVE  ClientInv'
<1>1. Partial(remote', RemoteIds, Remote)
  BY DEF NewOrderFails, ClientInv, TypeOK
<1> QED BY <1>1, QuietEnd DEF NewOrderFails, Tables

\* The server is killed: no handler is under way any more.
LEMMA KillInv ==
    ASSUME ClientInv, Kill
    PROVE  ClientInv'
<1>1. /\ UNCHANGED Tables /\ UNCHANGED <<clashed, remote>>
      /\ pc' = [a \in Clients |-> "idle"] /\ reg' = [a \in Clients |-> NoReg]
  BY DEF Kill, Tables
<1>2. ValidMeansStored' /\ AccountMatches' /\ CredsInv'
  BY <1>1, TablesStay
<1>3. HandlerInv'
  BY <1>1, IdleOK DEF HandlerInv
<1>4. OneHandler'
  BY <1>1, NoRegType DEF OneHandler
<1>5. TypeOK'
  BY <1>1, NoRegType DEF ClientInv, TypeOK, Tables
<1> QED BY <1>2, <1>3, <1>4, <1>5 DEF ClientInv

LEMMA NewOrderInv ==
    ASSUME ClientInv, NEW a \in Clients, NEW x \in AccountIds, NEW n \in RemoteIds,
           NEW txt \in BOOLEAN, NewOrder(a, x, n, txt)
    PROVE  ClientInv'
<1> DEFINE fresh == reg[a].seen.creds = Null
           l == IF fresh THEN "creds" ELSE "insert"
           r == [reg[a] EXCEPT !.remote = n, !.fresh = IF fresh THEN x ELSE Null]
<1>1. /\ pc[a] = "order" /\ HandlerOK(a) /\ reg[a] \in Reg /\ reg[a].seen \in Provider
      /\ UNCHANGED <<provider, orders, certs, written, crossed, clashed>>
      /\ Goto(a, l, r) /\ AccountFor(reg[a].seen, x)
  BY DEF NewOrder, ClientInv, HandlerInv, HandlerOK, RegOK, Opening, TypeOK
<1>2. l \in Labels /\ l \in {"creds", "insert"} /\ (l = "creds" <=> fresh)
  BY DEF Labels
<1>3. /\ r \in Reg /\ r.order = reg[a].order /\ r.cert = reg[a].cert /\ r.seen = reg[a].seen
      /\ r.remote = n /\ r.until = reg[a].until /\ r.stale = reg[a].stale
      /\ fresh => r.fresh = x
  BY <1>1 DEF Reg
<1>4. /\ Partial(accounts', AccountIds, Directories)
      /\ \A y \in DOMAIN accounts : y \in DOMAIN accounts' /\ accounts'[y] = accounts[y]
      /\ fresh => x \in DOMAIN accounts' /\ accounts'[x] = reg[a].seen.dir
  <2>1. Partial(accounts, AccountIds, Directories) /\ reg[a].seen.dir \in Directories
    BY <1>1 DEF ClientInv, TypeOK, Provider
  <2>2. CASE fresh
    <3>1. x \notin DOMAIN accounts
      BY <1>1, <2>2, NextIdFresh, IdTypes DEF AccountFor
    <3>2. accounts' = Put(accounts, x, reg[a].seen.dir)
      BY <1>1, <2>2 DEF AccountFor
    <3> QED BY <2>1, <3>1, <3>2 DEF Put, Partial
  <2>3. CASE ~fresh
    BY <1>1, <2>1, <2>3 DEF AccountFor
  <2> QED BY <2>2, <2>3
<1>5. Partial(remote', RemoteIds, Remote)
  <2>1. [account |-> x, status |-> IF txt THEN "pending" ELSE "ready"] \in Remote
    BY DEF Remote
  <2>2. remote' = Put(remote, n, [account |-> x, status |-> IF txt THEN "pending" ELSE "ready"])
    BY DEF NewOrder
  <2> QED BY <2>1, <2>2 DEF Put, Partial, ClientInv, TypeOK
<1> HIDE DEF fresh, l, r
<1>6. /\ pc' \in [Clients -> Labels] /\ reg' \in [Clients -> Reg]
      /\ pc'[a] = l /\ reg'[a] = r
      /\ \A b \in Clients \ {a} : Kept(b) /\ reg'[b] = reg[b]
  BY <1>1, <1>2, <1>3, GotoKeeps DEF ClientInv
<1>7. HandlerOK(a)'
  <2>1. RegOK(a)'
    BY <1>1, <1>2, <1>3, <1>6 DEF HandlerOK, RegOK, Working, Opening
  <2>2. OrderOK(a)'
    BY <1>1, <1>2, <1>3, <1>6, <2>1 DEF RegOK, OrderOK, Working
  <2>3. ProviderOK(a)'
    BY <1>1, <1>2, <1>3, <1>4, <1>6 DEF HandlerOK, ProviderOK, Opening
  <2>4. ExpiryOK(a)'
    BY <1>1, <1>2, <1>3, <1>6 DEF HandlerOK, ExpiryOK
  <2> QED BY <2>1, <2>2, <2>3, <2>4 DEF HandlerOK
<1>8. \A b \in Clients : Respected(b)
  BY <1>1, <1>4 DEF Respected, OrderRespected, ProviderRespected, ExpiryRespected
<1>9. HandlerInv' /\ OneHandler'
  BY <1>1, <1>3, <1>6, <1>7, <1>8, HandlersCarryOn
<1>10. ValidMeansStored'
  BY <1>1 DEF ClientInv, ValidMeansStored
<1>11. AccountMatches' /\ CredsInv'
  BY <1>1, <1>4 DEF ClientInv, AccountMatches, CredsInv
<1>12. TypeOK'
  BY <1>1, <1>4, <1>5, <1>6 DEF ClientInv, TypeOK
<1> QED BY <1>9, <1>10, <1>11, <1>12 DEF ClientInv

LEMMA StoreCredsInv ==
    ASSUME ClientInv, NEW a \in Clients, StoreCreds(a)
    PROVE  ClientInv'
<1>1. /\ pc[a] = "creds" /\ HandlerOK(a) /\ reg[a] \in Reg /\ "insert" \in Labels
      /\ UNCHANGED <<orders, certs, written, accounts, remote, clashed>>
      /\ Goto(a, "insert", reg[a])
      /\ provider' = IF provider = Null THEN Null ELSE [provider EXCEPT !.creds = reg[a].fresh]
      /\ provider \in Provider \cup {Null}
  BY DEF StoreCreds, ClientInv, HandlerInv, TypeOK, Labels
<1>2. /\ pc' \in [Clients -> Labels] /\ reg' \in [Clients -> Reg]
      /\ pc'[a] = "insert" /\ reg'[a] = reg[a]
      /\ \A b \in Clients \ {a} : Kept(b) /\ reg'[b] = reg[b]
  BY <1>1, GotoKeeps DEF ClientInv
<1>3. /\ reg[a].fresh \in DOMAIN accounts /\ reg[a].fresh \in AccountIds
      /\ accounts[reg[a].fresh] = reg[a].seen.dir
      /\ ~reg[a].stale => provider # Null /\ reg[a].seen.dir = provider.dir
  BY <1>1 DEF HandlerOK, ProviderOK, Opening, ClientInv, TypeOK, Partial
<1>4. /\ provider = Null => provider' = Null
      /\ provider # Null => /\ provider' \in Provider /\ provider' # Null
                            /\ provider'.dir = provider.dir /\ provider'.creds = reg[a].fresh
  BY <1>1, <1>3, IdTypes DEF Provider
<1>5. HandlerOK(a)'
  <2>1. RegOK(a)'
    BY <1>1, <1>2 DEF HandlerOK, RegOK, Working, Opening
  <2>2. OrderOK(a)'
    BY <1>1, <1>2, <2>1 DEF RegOK, OrderOK, Working
  <2>3. ProviderOK(a)'
    BY <1>2 DEF ProviderOK, Opening
  <2>4. ExpiryOK(a)'
    BY <1>1, <1>2 DEF HandlerOK, ExpiryOK
  <2> QED BY <2>1, <2>2, <2>3, <2>4 DEF HandlerOK
<1>6. \A b \in Clients : Respected(b)
  BY <1>1, <1>4 DEF Respected, OrderRespected, ProviderRespected, ExpiryRespected
<1>7. HandlerInv' /\ OneHandler'
  BY <1>1, <1>2, <1>5, <1>6, HandlersCarryOn
<1>8. ValidMeansStored'
  BY <1>1 DEF ClientInv, ValidMeansStored
<1>9. crossed' \in BOOLEAN /\ (~crossed' => ~crossed /\ (provider # Null => ~reg[a].stale))
  BY DEF StoreCreds
<1>10. AccountMatches'
  BY <1>1, <1>3, <1>4, <1>9 DEF AccountMatches
<1>11. CredsInv'
  BY <1>1, <1>3, <1>4 DEF CredsInv
<1>12. TypeOK'
  BY <1>1, <1>2, <1>4, <1>9 DEF ClientInv, TypeOK
<1> QED BY <1>7, <1>8, <1>10, <1>11, <1>12 DEF ClientInv

LEMMA UpdateProviderWriteInv ==
    ASSUME ClientInv, NEW p \in Clients, NEW d \in Directories, UpdateProviderWrite(p, d)
    PROVE  ClientInv'
<1> DEFINE T == MarkStale(ReadProvider)
<1>1. /\ pc[p] = "update" /\ p \in Clients /\ HandlerOK(p)
      /\ UNCHANGED <<orders, certs, written, accounts, remote, clashed>>
      /\ provider \in Provider \cup {Null} /\ reg[p].seen \in Provider
      /\ pc' = [pc EXCEPT ![p] = "idle"] /\ reg' = [T EXCEPT ![p] = NoReg]
  BY AcmeClientAssumption
     DEF UpdateProviderWrite, ClientInv, HandlerInv, HandlerOK, RegOK, Opening, TypeOK
<1>2. /\ DOMAIN T = Clients /\ \A b \in Clients : T[b] \in Reg
  BY MarkKeeps DEF ClientInv, MarkStale
<1> HIDE DEF T
<1>3. /\ pc' \in [Clients -> Labels] /\ reg' \in [Clients -> Reg]
      /\ pc'[p] = "idle" /\ reg'[p] = NoReg
      /\ \A b \in Clients \ {p} : pc'[b] = pc[b] /\ reg'[b] = T[b]
  BY <1>1, <1>2, NoRegType DEF ClientInv, TypeOK
<1>4. \A b \in Clients \ {p} : Kept(b) /\ (pc[b] \in Opening => reg'[b].stale)
  <2> SUFFICES ASSUME NEW b \in Clients \ {p}
               PROVE  Kept(b) /\ (pc[b] \in Opening => reg'[b].stale)
    OBVIOUS
  <2>1. Kept(b) /\ (b \in ReadProvider => reg'[b].stale)
    BY <1>3, MarkedIsKept DEF ClientInv, T
  <2>2. pc[b] \in Opening => b \in ReadProvider
    BY DEF Opening, ReadProvider
  <2> QED BY <2>1, <2>2
<1>5. /\ provider = Null => provider' = Null
      /\ provider # Null => /\ provider' \in Provider /\ provider' # Null
                            /\ provider'.dir = d
                            /\ provider'.creds = UpdatedCreds(reg[p].seen, d)
  BY <1>1, IdTypes DEF UpdateProviderWrite, UpdatedCreds, Provider
<1>6. HandlerOK(p)'
  BY <1>1, <1>3, IdleOK
<1>7. \A b \in Clients \ {p} : Respected(b)
  BY <1>1, <1>4 DEF Respected, OrderRespected, ProviderRespected, ExpiryRespected
<1>8. HandlerInv' /\ OneHandler'
  BY <1>1, <1>3, <1>4, <1>6, <1>7, HandlersCarryOn, NoRegType
<1>9. ValidMeansStored'
  BY <1>1 DEF ClientInv, ValidMeansStored
<1>10. crossed' \in BOOLEAN
       /\ (provider # Null /\ UpdatedCreds(reg[p].seen, d) # Null /\ ~crossed'
             => ~crossed /\ ~reg[p].stale)
  BY DEF UpdateProviderWrite
<1>11. AccountMatches' /\ CredsInv'
  <2>1. CASE provider = Null
    BY <1>5, <2>1 DEF AccountMatches, CredsInv
  <2>2. CASE provider # Null /\ UpdatedCreds(reg[p].seen, d) = Null
    BY <1>5, <2>2 DEF AccountMatches, CredsInv
  <2>3. CASE provider # Null /\ UpdatedCreds(reg[p].seen, d) # Null
    <3>1. reg[p].seen.dir = d /\ UpdatedCreds(reg[p].seen, d) = provider.creds
      BY <2>3 DEF UpdatedCreds
    <3>2. CredsInv'
      BY <1>1, <1>5, <2>3, <3>1 DEF ClientInv, CredsInv
    <3>3. ~crossed' => provider.dir = d
      BY <1>1, <1>10, <2>3, <3>1 DEF HandlerOK, ProviderOK, Opening
    <3>4. AccountMatches'
      BY <1>1, <1>5, <1>10, <2>3, <3>1, <3>3 DEF ClientInv, AccountMatches
    <3> QED BY <3>2, <3>4
  <2> QED BY <2>1, <2>2, <2>3
<1>12. TypeOK'
  BY <1>1, <1>3, <1>5, <1>10 DEF ClientInv, TypeOK
<1> QED BY <1>8, <1>9, <1>11, <1>12 DEF ClientInv

\* An order that somebody works on stays known as clashed, and becomes so when it is
\* deleted.
LEMMA InUse ==
    ASSUME NEW S, NEW b \in Clients, reg[b].order # Null, reg[b].order \in S
    PROVE  reg[b].order \in OrdersInUse(S)
BY DEF OrdersInUse, WorkingOn

LEMMA ProviderRowsInv ==
    ASSUME ClientInv, DeleteProvider \/ \E d \in Directories : CreateProvider(d)
    PROVE  ClientInv'
<1>1. CASE DeleteProvider
  <2>1. /\ provider' = Null /\ orders' = Empty
        /\ clashed' = OrdersInUse(DOMAIN orders) \cup OrdersInUse(clashed)
        /\ UNCHANGED <<written, accounts, remote, pc, crossed>>
        /\ reg' = MarkStale(ReadProvider)
    BY <1>1 DEF DeleteProvider
  <2>2. /\ DOMAIN certs' = DOMAIN certs
        /\ \A c \in DOMAIN certs : certs'[c] \in Cert /\ certs'[c].until = certs[c].until
    <3>1. \A c \in DOMAIN certs : certs[c] \in Cert
      BY DEF ClientInv, TypeOK, Partial
    <3>2. certs' = [c \in DOMAIN certs |-> [certs[c] EXCEPT !.acme = FALSE]]
      BY <1>1 DEF DeleteProvider
    <3> QED BY <3>1, <3>2 DEF Cert
  <2>3. /\ reg' \in [Clients -> Reg]
        /\ \A b \in Clients : Kept(b) /\ (pc[b] \in Opening => reg'[b].stale)
    <3>1. reg' \in [Clients -> Reg]
      BY <2>1, MarkKeeps DEF ClientInv, MarkStale
    <3>2. ASSUME NEW b \in Clients
          PROVE  Kept(b) /\ (pc[b] \in Opening => reg'[b].stale)
      <4>1. Kept(b) /\ (b \in ReadProvider => reg'[b].stale)
        BY <2>1, MarkedIsKept DEF ClientInv
      <4>2. pc[b] \in Opening => b \in ReadProvider
        BY DEF Opening, ReadProvider
      <4> QED BY <4>1, <4>2
    <3> QED BY <3>1, <3>2
  <2>4. \A b \in Clients : Respected(b)
    <3> SUFFICES ASSUME NEW b \in Clients PROVE Respected(b)
      OBVIOUS
    <3>1. OrderRespected(b)
      BY <2>1, InUse DEF OrderRespected
    <3>2. ProviderRespected(b)
      BY <2>1, <2>3 DEF ProviderRespected
    <3>3. ExpiryRespected(b)
      BY <2>2 DEF ExpiryRespected
    <3> QED BY <2>1, <3>1, <3>2, <3>3 DEF Respected
  <2>5. HandlerInv' /\ OneHandler'
    BY <2>3, <2>4, AllHandlersKept
  <2>6. DOMAIN orders' = {}
    BY <2>1 DEF Empty
  <2>7. ValidMeansStored' /\ AccountMatches' /\ CredsInv'
    BY <2>1, <2>6 DEF ValidMeansStored, AccountMatches, CredsInv
  <2>8. clashed' \subseteq OrderIds
    BY <2>1 DEF OrdersInUse, ClientInv, TypeOK, Partial
  <2>9. TypeOK'
    BY <2>1, <2>2, <2>3, <2>6, <2>8 DEF ClientInv, TypeOK, Partial
  <2> QED BY <2>5, <2>7, <2>9 DEF ClientInv
<1>2. ASSUME NEW d \in Directories, CreateProvider(d)
      PROVE  ClientInv'
  <2>1. /\ provider = Null /\ provider' \in Provider /\ provider'.creds = Null
        /\ crossed' = FALSE
        /\ UNCHANGED <<orders, certs, written, accounts, remote, pc, reg, clashed>>
    BY <1>2 DEF CreateProvider, InsertProvider, Provider
  <2>2. \A b \in Clients : Kept(b) /\ Respected(b)
    BY <2>1 DEF Kept, Respected, OrderRespected, ProviderRespected, ExpiryRespected
  <2>3. HandlerInv' /\ OneHandler'
    BY <2>2, AllHandlersKept
  <2>4. ValidMeansStored' /\ AccountMatches' /\ CredsInv'
    BY <2>1 DEF ClientInv, ValidMeansStored, AccountMatches, CredsInv
  <2>5. TypeOK'
    BY <2>1 DEF ClientInv, TypeOK
  <2> QED BY <2>3, <2>4, <2>5 DEF ClientInv
<1> QED BY <1>1, <1>2

LEMMA DeleteOrderInv ==
    ASSUME ClientInv, NEW o \in OrderIds, DeleteOrder(o)
    PROVE  ClientInv'
<1>1. /\ DOMAIN orders' = DOMAIN orders \ {o}
      /\ \A x \in DOMAIN orders' : orders'[x] = orders[x]
      /\ clashed' = (clashed \ {o}) \cup OrdersInUse({o})
      /\ UNCHANGED <<provider, certs, written, accounts, remote, pc, reg, crossed>>
      /\ o \in DOMAIN orders
  BY DEF DeleteOrder, Drop
<1>2. \A b \in Clients : Kept(b)
  BY <1>1 DEF Kept
<1>3. \A b \in Clients : Respected(b)
  <2> SUFFICES ASSUME NEW b \in Clients PROVE Respected(b)
    OBVIOUS
  <2>1. OrderRespected(b)
    BY <1>1, InUse DEF OrderRespected
  <2> QED BY <1>1, <2>1 DEF Respected, ProviderRespected, ExpiryRespected
<1>4. HandlerInv' /\ OneHandler'
  BY <1>2, <1>3, AllHandlersKept
<1>5. ValidMeansStored'
  BY <1>1 DEF ClientInv, ValidMeansStored
<1>6. AccountMatches' /\ CredsInv'
  BY <1>1 DEF ClientInv, AccountMatches, CredsInv
<1>7. TypeOK'
  <2>1. clashed' \subseteq OrderIds
    BY <1>1 DEF OrdersInUse, ClientInv, TypeOK
  <2>2. provider # Null
    BY <1>1 DEF ClientInv, TypeOK, Empty
  <2> QED BY <1>1, <2>1, <2>2 DEF ClientInv, TypeOK, Partial
<1> QED BY <1>4, <1>5, <1>6, <1>7 DEF ClientInv

LEMMA CertRowsInv ==
    ASSUME ClientInv, NEW c \in CertIds, DeleteCert(c) \/ RevokeCert(c)
    PROVE  ClientInv'
<1>1. /\ UNCHANGED <<provider, written, accounts, remote, pc, reg, crossed, clashed>>
      /\ c \in DOMAIN certs
  BY DEF DeleteCert, RevokeCert
<1>2. /\ DOMAIN certs' \subseteq DOMAIN certs
      /\ \A x \in DOMAIN certs' : certs'[x] \in Cert /\ certs'[x].until = certs[x].until
  <2>1. \A x \in DOMAIN certs : certs[x] \in Cert
    BY DEF ClientInv, TypeOK, Partial
  <2>2. CASE DeleteCert(c)
    BY <2>1, <2>2 DEF DeleteCert, Drop
  <2>3. CASE RevokeCert(c)
    <3>1. certs' = [certs EXCEPT ![c].revoked = TRUE]
      BY <2>3 DEF RevokeCert
    <3> QED BY <2>1, <3>1 DEF Cert
  <2> QED BY <2>2, <2>3
<1>3. /\ DOMAIN orders' = DOMAIN orders
      /\ \A o \in DOMAIN orders :
           /\ orders'[o] \in Order /\ orders'[o].cert \in DOMAIN certs' \cup {Null}
           /\ orders'[o].status = orders[o].status
           /\ orders'[o].remote = orders[o].remote
      /\ orders = Empty => orders' = Empty
  <2>1. \A o \in DOMAIN orders : orders[o] \in Order /\ orders[o].cert \in DOMAIN certs \cup {Null}
    BY DEF ClientInv, TypeOK, Partial
  <2>2. CASE DeleteCert(c)
    <3>1. /\ orders' = [o \in DOMAIN orders |->
                          IF orders[o].cert = c THEN [orders[o] EXCEPT !.cert = Null] ELSE orders[o]]
          /\ DOMAIN certs' = DOMAIN certs \ {c}
      BY <2>2 DEF DeleteCert, WithoutCert, Drop
    <3>2. \A o \in DOMAIN orders :
            /\ orders'[o] \in Order /\ orders'[o].cert \in DOMAIN certs' \cup {Null}
            /\ orders'[o].status = orders[o].status
            /\ orders'[o].remote = orders[o].remote
      BY <2>1, <3>1 DEF Order
    <3>3. orders = Empty => orders' = Empty
      BY <3>1 DEF Empty
    <3> QED BY <3>1, <3>2, <3>3
  <2>3. CASE RevokeCert(c)
    <3>1. orders' = orders /\ DOMAIN certs' = DOMAIN certs
      BY <2>3 DEF RevokeCert
    <3> QED BY <2>1, <3>1
  <2> QED BY <2>2, <2>3
<1>4. \A b \in Clients : Kept(b)
  BY <1>1 DEF Kept
<1>5. \A b \in Clients : Respected(b)
  <2> SUFFICES ASSUME NEW b \in Clients PROVE Respected(b)
    OBVIOUS
  <2>1. OrderRespected(b)
    BY <1>1, <1>3 DEF OrderRespected
  <2> QED BY <1>1, <1>2, <2>1 DEF Respected, ProviderRespected, ExpiryRespected
<1>6. HandlerInv' /\ OneHandler'
  BY <1>4, <1>5, AllHandlersKept
<1>7. ValidMeansStored'
  BY <1>1, <1>3 DEF ClientInv, ValidMeansStored
<1>8. AccountMatches' /\ CredsInv'
  BY <1>1 DEF ClientInv, AccountMatches, CredsInv
<1>9. TypeOK'
  BY <1>1, <1>2, <1>3 DEF ClientInv, TypeOK, Partial
<1> QED BY <1>6, <1>7, <1>8, <1>9 DEF ClientInv

LEMMA InsertOrderInv ==
    ASSUME ClientInv, NEW a \in Clients, NEW o \in OrderIds, InsertOrder(a, o)
    PROVE  ClientInv'
<1>0. /\ UNCHANGED <<provider, certs, written, accounts, remote, crossed>>
      /\ Partial(remote, RemoteIds, Remote)
      /\ pc[a] = "insert" /\ HandlerOK(a) /\ reg[a] \in Reg
  BY DEF InsertOrder, ClientInv, TypeOK, HandlerInv
<1>1. CASE provider = Null
  BY <1>0, <1>1, QuietEnd DEF InsertOrder, Tables
<1>2. CASE provider # Null
  <2> DEFINE row == [status |-> "pending_dns", remote |-> reg[a].remote,
                     cert |-> Null, renews |-> reg[a].cert]
  <2>1. /\ orders' = Put(orders, o, row) /\ clashed' = (clashed \ {o}) \cup OrdersInUse({o})
        /\ Goto(a, "idle", NoReg)
    BY <1>2 DEF InsertOrder, Done
  <2>2. reg[a].order = Null /\ reg[a].remote \in RemoteIds
    BY <1>0 DEF HandlerOK, RegOK, Working
  <2>3. row \in Order /\ row.status = "pending_dns" /\ row.cert = Null
    BY <1>0, <2>2 DEF Order, Reg
  <2> HIDE DEF row
  <2>5. o \notin DOMAIN orders
    BY NextIdFresh, IdTypes DEF InsertOrder
  <2>6. /\ DOMAIN orders' = DOMAIN orders \cup {o} /\ orders'[o] = row
        /\ \A x \in DOMAIN orders : orders'[x] = orders[x]
    BY <2>1, <2>5 DEF Put
  <2>7. /\ pc' \in [Clients -> Labels] /\ reg' \in [Clients -> Reg]
        /\ pc'[a] = "idle" /\ reg'[a] = NoReg
        /\ \A b \in Clients \ {a} : Kept(b) /\ reg'[b] = reg[b]
    BY <2>1, NoRegType, GotoKeeps DEF ClientInv
  <2>8. HandlerOK(a)'
    BY <2>7, IdleOK
  <2>9. \A b \in Clients : reg[b].order = o => o \in clashed'
    <3> SUFFICES ASSUME NEW b \in Clients, reg[b].order = o PROVE o \in clashed'
      OBVIOUS
    <3> QED BY <2>1, InUse, IdTypes
  <2>10. \A b \in Clients \ {a} : Respected(b)
    <3> SUFFICES ASSUME NEW b \in Clients \ {a} PROVE Respected(b)
      OBVIOUS
    <3>1. OrderRespected(b)
      BY <2>1, <2>6, <2>9 DEF OrderRespected
    <3> QED BY <1>0, <3>1 DEF Respected, ProviderRespected, ExpiryRespected
  <2>11. HandlerInv' /\ OneHandler'
    BY <2>7, <2>8, <2>10, NoRegType, HandlersCarryOn
  <2>12. ValidMeansStored'
    BY <1>0, <2>1, <2>3, <2>6 DEF ClientInv, ValidMeansStored
  <2>13. AccountMatches' /\ CredsInv'
    BY <1>0 DEF ClientInv, AccountMatches, CredsInv
  <2>14. TypeOK'
    <3>1. clashed' \subseteq OrderIds
      BY <2>1 DEF OrdersInUse, ClientInv, TypeOK
    <3> QED BY <1>0, <1>2, <2>3, <2>6, <2>7, <3>1 DEF ClientInv, TypeOK, Partial
  <2> QED BY <2>11, <2>12, <2>13, <2>14 DEF ClientInv
<1> QED BY <1>1, <1>2

\* The material of an order is written to certificate c.
LEMMA CertWritten ==
    ASSUME ClientInv, NEW a \in Clients, NEW c \in CertIds, NEW r \in Reg,
           pc[a] \in {"replace", "store"},
           r.order = reg[a].order, r.remote = reg[a].remote, r.cert = c,
           pc' = [pc EXCEPT ![a] = "status"],
           reg' = [MarkStale(Compared(c)) EXCEPT ![a] = r],
           written' = written \cup {reg[a].remote},
           Partial(certs', CertIds, Cert), DOMAIN certs \subseteq DOMAIN certs',
           \A x \in DOMAIN certs' : x # c => x \in DOMAIN certs /\ certs'[x] = certs[x],
           UNCHANGED <<provider, orders, accounts, remote, crossed, clashed>>
    PROVE  ClientInv'
<1> DEFINE T == MarkStale(Compared(c))
<1>1. DOMAIN T = Clients /\ \A b \in Clients : T[b] \in Reg
  BY MarkKeeps DEF ClientInv, MarkStale
<1>2. reg' = [T EXCEPT ![a] = r]
  OBVIOUS
<1> HIDE DEF T
<1>3. /\ pc' \in [Clients -> Labels] /\ reg' \in [Clients -> Reg]
      /\ pc'[a] = "status" /\ reg'[a] = r
      /\ \A b \in Clients \ {a} : pc'[b] = pc[b] /\ reg'[b] = T[b]
  BY <1>1, <1>2 DEF ClientInv, TypeOK, Labels
<1>4. \A b \in Clients \ {a} : Kept(b) /\ (b \in Compared(c) => reg'[b].stale)
  BY <1>3, MarkedIsKept DEF ClientInv, T
<1>5. /\ HandlerOK(a) /\ reg[a].remote \in RemoteIds
  BY DEF ClientInv, HandlerInv, HandlerOK, RegOK, Working
<1>7. HandlerOK(a)'
  <2>1. RegOK(a)'
    BY <1>3, <1>5 DEF HandlerOK, RegOK, Working, Opening
  <2>2. OrderOK(a)'
    BY <1>3, <1>5 DEF HandlerOK, OrderOK
  <2>3. ProviderOK(a)' /\ ExpiryOK(a)'
    BY <1>3 DEF ProviderOK, ExpiryOK, Opening
  <2> QED BY <2>1, <2>2, <2>3 DEF HandlerOK
<1>8. \A b \in Clients \ {a} : Respected(b)
  <2> SUFFICES ASSUME NEW b \in Clients \ {a} PROVE Respected(b)
    OBVIOUS
  <2>1. OrderRespected(b)
    BY DEF OrderRespected
  <2>2. ExpiryRespected(b)
    BY <1>4 DEF ExpiryRespected, Compared
  <2> QED BY <2>1, <2>2 DEF Respected, ProviderRespected
<1>9. HandlerInv' /\ OneHandler'
  BY <1>3, <1>4, <1>7, <1>8, HandlersCarryOn
<1>10. ValidMeansStored'
  BY DEF ClientInv, ValidMeansStored
<1>11. AccountMatches' /\ CredsInv'
  BY DEF ClientInv, AccountMatches, CredsInv
<1>12. TypeOK'
  <2>1. \A o \in DOMAIN orders' : orders'[o] \in Order /\ orders'[o].cert \in DOMAIN certs' \cup {Null}
    BY DEF ClientInv, TypeOK, Partial
  <2>2. Partial(orders', OrderIds, Order) /\ (provider' = Null => orders' = Empty)
    BY <2>1 DEF ClientInv, TypeOK, Partial
  <2> QED BY <1>3, <1>5, <2>1, <2>2 DEF ClientInv, TypeOK
<1> QED BY <1>9, <1>10, <1>11, <1>12 DEF ClientInv

LEMMA ReplaceInv ==
    ASSUME ClientInv, NEW a \in Clients, Replace(a)
    PROVE  ClientInv'
<1> DEFINE c == reg[a].cert
<1>1. /\ pc[a] = "replace" /\ reg[a] \in Reg
      /\ UNCHANGED <<provider, orders, accounts, remote, crossed, clashed>>
      /\ Partial(remote', RemoteIds, Remote)
      /\ c \in CertIds /\ reg[a].remote \in RemoteIds /\ reg[a].until \in Untils
  BY DEF Replace, ClientInv, TypeOK, HandlerInv, HandlerOK, RegOK, Working
<1>2. CASE c \in DOMAIN certs /\ certs[c].acme /\ ~certs[c].revoked
  <2>1. /\ certs' = [certs EXCEPT ![c] = [@ EXCEPT !.mat = reg[a].remote, !.until = reg[a].until]]
        /\ written' = written \cup {reg[a].remote}
        /\ pc' = [pc EXCEPT ![a] = "status"]
        /\ reg' = [MarkStale(Compared(c)) EXCEPT ![a] = reg[a]]
    BY <1>2 DEF Replace
  <2>2. \A x \in DOMAIN certs : certs[x] \in Cert
    BY DEF ClientInv, TypeOK, Partial
  <2>3. /\ DOMAIN certs' = DOMAIN certs /\ \A x \in DOMAIN certs : certs'[x] \in Cert
        /\ \A x \in DOMAIN certs : x # c => certs'[x] = certs[x]
    BY <1>1, <1>2, <2>1, <2>2 DEF Cert
  <2>4. Partial(certs', CertIds, Cert)
    BY <2>3 DEF ClientInv, TypeOK, Partial
  <2> HIDE DEF c
  <2>5. reg[a].cert = c
    BY DEF c
  <2> QED BY <1>1, <2>1, <2>3, <2>4, <2>5, CertWritten
<1>3. CASE ~(c \in DOMAIN certs /\ certs[c].acme /\ ~certs[c].revoked)
  <2>1. Goto(a, "failed", reg[a]) /\ UNCHANGED <<certs, written>>
    BY <1>3 DEF Replace
  <2> QED BY <1>1, <2>1, PhaseTwoStep DEF Tables, Working
<1> QED BY <1>2, <1>3

LEMMA InsertCertInv ==
    ASSUME ClientInv, NEW a \in Clients, NEW c \in CertIds, InsertCert(a, c)
    PROVE  ClientInv'
<1> DEFINE row == [mat |-> reg[a].remote, until |-> reg[a].until, revoked |-> FALSE,
                   acme |-> TRUE]
           r == [reg[a] EXCEPT !.cert = c]
<1>1. /\ pc[a] = "store" /\ reg[a] \in Reg
      /\ UNCHANGED <<provider, orders, accounts, remote, crossed, clashed>>
      /\ Partial(remote', RemoteIds, Remote)
      /\ reg[a].remote \in RemoteIds /\ reg[a].until \in Untils
  BY DEF InsertCert, ClientInv, TypeOK, HandlerInv, HandlerOK, RegOK, Working
<1>2. CASE provider = Null
  <2>1. Goto(a, "failed", reg[a]) /\ UNCHANGED <<certs, written>>
    BY <1>2 DEF InsertCert
  <2> QED BY <1>1, <2>1, PhaseTwoStep DEF Tables, Working
<1>3. CASE provider # Null
  <2>1. /\ certs' = Put(certs, c, row)
        /\ written' = written \cup {reg[a].remote}
        /\ pc' = [pc EXCEPT ![a] = "status"]
        /\ reg' = [MarkStale(Compared(c)) EXCEPT ![a] = r]
    BY <1>3 DEF InsertCert
  <2>2. c \notin DOMAIN certs
    BY NextIdFresh, IdTypes DEF InsertCert
  <2>3. row \in Cert
    BY <1>1 DEF Cert
  <2>4. r \in Reg /\ r.order = reg[a].order /\ r.remote = reg[a].remote /\ r.cert = c
    BY <1>1 DEF Reg
  <2> HIDE DEF row, r
  <2>5. /\ DOMAIN certs' = DOMAIN certs \cup {c} /\ certs'[c] = row
        /\ \A x \in DOMAIN certs : certs'[x] = certs[x]
    BY <2>1, <2>2 DEF Put
  <2>6. Partial(certs', CertIds, Cert)
    BY <2>3, <2>5 DEF ClientInv, TypeOK, Partial
  <2> QED BY <1>1, <2>1, <2>4, <2>5, <2>6, CertWritten
<1> QED BY <1>2, <1>3

\* The end of an order is recorded.
LEMMA OrderEnds ==
    ASSUME ClientInv, NEW a \in Clients, Done(a), NEW s \in {"valid", "failed"}, NEW c \in CertIds \cup {Null},
           pc[a] \in {"status", "failed"}, s = "valid" => pc[a] = "status",
           SetStatus(reg[a].order, s, c),
           reg[a].order \in DOMAIN orders => c \in DOMAIN certs \cup {Null},
           UNCHANGED <<provider, certs, written, accounts, remote, crossed, clashed>>
    PROVE  ClientInv'
<1> DEFINE o == reg[a].order
<1>1. /\ pc' \in [Clients -> Labels] /\ reg' \in [Clients -> Reg]
      /\ pc'[a] = "idle" /\ reg'[a] = NoReg
      /\ \A b \in Clients \ {a} : Kept(b)
  BY NoRegType, GotoKeeps DEF ClientInv, Done
<1>2. o # Null /\ HandlerOK(a)
  BY DEF ClientInv, HandlerInv, HandlerOK, RegOK, Working
<1>3. /\ DOMAIN orders' = DOMAIN orders
      /\ \A x \in DOMAIN orders :
           /\ orders'[x] \in Order /\ orders'[x].cert \in DOMAIN certs \cup {Null}
           /\ orders'[x].remote = orders[x].remote
           /\ x = o => orders'[x].status = s
           /\ x # o => orders'[x] = orders[x]
      /\ o \notin DOMAIN orders => orders' = orders
  <2>1. \A x \in DOMAIN orders : orders[x] \in Order /\ orders[x].cert \in DOMAIN certs \cup {Null}
    BY DEF ClientInv, TypeOK, Partial
  <2>2. CASE o \in DOMAIN orders
    <3>1. orders' = [orders EXCEPT ![o].status = s, ![o].cert = IF c = Null THEN @ ELSE c]
      BY <2>2 DEF SetStatus
    <3>2. \A x \in DOMAIN orders : x # o => orders'[x] = orders[x]
      BY <3>1
    <3>3. /\ orders'[o] \in Order /\ orders'[o].cert \in DOMAIN certs \cup {Null}
          /\ orders'[o].remote = orders[o].remote
          /\ orders'[o].status = s
      BY <2>1, <2>2, <3>1 DEF Order
    <3>4. DOMAIN orders' = DOMAIN orders
      BY <3>1
    <3> HIDE DEF o
    <3> QED BY <2>1, <2>2, <3>2, <3>3, <3>4
  <2>3. CASE o \notin DOMAIN orders
    BY <2>1, <2>3 DEF SetStatus
  <2> QED BY <2>2, <2>3
<1>4. \A b \in Clients \ {a} : Respected(b)
  <2> SUFFICES ASSUME NEW b \in Clients \ {a} PROVE Respected(b)
    OBVIOUS
  <2>1. reg[b].order # Null /\ reg[b].order \notin clashed => reg[b].order # o
    BY <1>2 DEF ClientInv, OneHandler
  <2>2. OrderRespected(b)
    BY <1>3, <2>1 DEF OrderRespected
  <2> QED BY <2>2 DEF Respected, ProviderRespected, ExpiryRespected
<1>5. HandlerInv' /\ OneHandler'
  BY <1>1, <1>4, IdleOK, NoRegType, HandlersCarryOn
<1>6. ValidMeansStored'
  <2> SUFFICES ASSUME NEW x \in DOMAIN orders \ clashed, orders'[x].status = "valid"
               PROVE  orders'[x].remote \in written
    BY <1>3 DEF ValidMeansStored
  <2>1. CASE x = o
    BY <1>2, <1>3, <2>1 DEF HandlerOK, OrderOK
  <2>2. CASE x # o
    BY <1>3, <2>2 DEF ClientInv, ValidMeansStored
  <2> QED BY <2>1, <2>2
<1>7. AccountMatches' /\ CredsInv'
  BY DEF ClientInv, AccountMatches, CredsInv
<1>8. TypeOK'
  <2>1. Partial(orders', OrderIds, Order)
    BY <1>3 DEF ClientInv, TypeOK, Partial
  <2>2. provider = Null => orders' = Empty
    BY <1>3 DEF ClientInv, TypeOK, Empty
  <2> QED BY <1>1, <1>3, <2>1, <2>2 DEF ClientInv, TypeOK
<1> QED BY <1>5, <1>6, <1>7, <1>8 DEF ClientInv

LEMMA StatusValidInv ==
    ASSUME ClientInv, NEW a \in Clients, StatusValid(a)
    PROVE  ClientInv'
<1> DEFINE fails == reg[a].order \in DOMAIN orders /\ reg[a].cert \notin DOMAIN certs
<1>1. /\ pc[a] = "status" /\ reg[a] \in Reg
      /\ UNCHANGED <<provider, certs, written, accounts, remote, crossed, clashed>>
      /\ Partial(remote', RemoteIds, Remote)
      /\ reg[a].cert \in CertIds
  BY DEF StatusValid, ClientInv, TypeOK, HandlerInv, HandlerOK, RegOK
<1>2. CASE ~fails
  BY <1>1, <1>2, OrderEnds DEF StatusValid
<1>3. CASE fails
  BY <1>1, <1>3, PhaseTwoStep DEF StatusValid, Tables, Working
<1> QED BY <1>2, <1>3

LEMMA RecordFailureInv ==
    ASSUME ClientInv, NEW a \in Clients, RecordFailure(a)
    PROVE  ClientInv'
BY OrderEnds DEF RecordFailure, FailureStatus

LEMMA StutterInv ==
    ASSUME ClientInv, UNCHANGED vars
    PROVE  ClientInv'
<1>1. UNCHANGED <<provider, orders, certs, written, accounts, remote, crossed, clashed, pc, reg>>
  BY DEF vars
<1>2. ValidMeansStored' /\ AccountMatches' /\ CredsInv' /\ \A b \in Clients : Respected(b)
  BY <1>1, TablesStay DEF Tables
<1>3. \A b \in Clients : Kept(b)
  BY <1>1 DEF Kept
<1>4. HandlerInv' /\ OneHandler'
  BY <1>2, <1>3, AllHandlersKept
<1>5. TypeOK'
  BY <1>1 DEF ClientInv, TypeOK
<1> QED BY <1>2, <1>4, <1>5 DEF ClientInv

LEMMA InitInv == Init => ClientInv
<1> SUFFICES ASSUME Init PROVE ClientInv
  OBVIOUS
<1>1. /\ provider \in Provider /\ provider.creds = Null /\ provider # Null
  BY IdTypes DEF Init, InsertProvider, Provider
<1>2. /\ DOMAIN orders = {} /\ DOMAIN certs = {} /\ DOMAIN accounts = {} /\ DOMAIN remote = {}
      /\ pc = [a \in Clients |-> "idle"] /\ reg = [a \in Clients |-> NoReg]
      /\ written = {} /\ clashed = {} /\ crossed = FALSE
  BY DEF Init, Empty
<1>3. TypeOK
  BY <1>1, <1>2, NoRegType DEF TypeOK, Partial
<1>4. ValidMeansStored /\ AccountMatches /\ CredsInv
  BY <1>1, <1>2 DEF ValidMeansStored, AccountMatches, CredsInv
<1>5. HandlerInv
  BY <1>2, NoRegType DEF HandlerInv, HandlerOK, RegOK, OrderOK, ProviderOK, ExpiryOK, Working,
                         Opening
<1>6. OneHandler
  BY <1>2, NoRegType DEF OneHandler
<1> QED BY <1>3, <1>4, <1>5, <1>6 DEF ClientInv

LEMMA NextInv == ClientInv /\ [Next]_vars => ClientInv'
<1> SUFFICES ASSUME ClientInv, [Next]_vars PROVE ClientInv'
  OBVIOUS
<1>1. ASSUME NEW a \in Clients, Step(a) PROVE ClientInv'
  BY <1>1, NewOrderInv, NewOrderFailsInv, StoreCredsInv, InsertOrderInv, IssueSucceedsInv,
     IssueFailsInv, CompareInv, ReplaceInv, StatusValidInv, RecordFailureInv, InsertCertInv
     DEF Step
<1>2. ASSUME NEW p \in Clients, Request(p) PROVE ClientInv'
  BY <1>2, UpdateProviderReadInv, UpdateProviderWriteInv, CreateOrderInv, IssueOrderInv DEF Request
<1>3. CASE Rows
  BY <1>3, ProviderRowsInv, DeleteOrderInv, CertRowsInv DEF Rows
<1>4. CASE UNCHANGED vars
  BY <1>4, StutterInv
<1> QED BY <1>1, <1>2, <1>3, <1>4, KillInv DEF Next

----------------------------------------------------------------------------
(* The properties.                                                          *)

\* The inductive invariant holds in every behaviour.
THEOREM ClientCorrect == Spec => []ClientInv
BY InitInv, NextInv, PTL DEF Spec

\* The rows of acme_client_providers, acme_client_orders and of the certificates, the
\* orders at the CA and the registers of the handlers keep their shapes; no order
\* outlives its provider or names a certificate that is gone.
THEOREM ClientTypes == Spec => []TypeOK
<1>1. ClientInv => TypeOK
  BY DEF ClientInv
<1> QED BY <1>1, ClientCorrect, PTL

\* update_acme_client_order_status says "valid" only of an order whose material
\* replace_certificate or insert_acme_client_certificate has written.
THEOREM ValidIsStored == Spec => []ValidMeansStored
<1>1. ClientInv => ValidMeansStored
  BY DEF ClientInv
<1> QED BY <1>1, ClientCorrect, PTL

\* The account that account_for finds belongs to the directory of the provider, over
\* updates, deletions and accounts that are registered meanwhile.
THEOREM AccountsMatch == Spec => []AccountMatches
<1>1. ClientInv => AccountMatches
  BY DEF ClientInv
<1> QED BY <1>1, ClientCorrect, PTL

\* What becomes of the orders that have delivered.
ValidKept ==
    \A o \in DOMAIN orders \cap DOMAIN orders' :
        orders[o].status = "valid" /\ o \notin clashed =>
            orders'[o].status = "valid" /\ orders'[o].remote = orders[o].remote

\* Orders that change in nothing that ValidKept looks at.
SameOutcome ==
    \A o \in DOMAIN orders \cap DOMAIN orders' :
        orders'[o].status = orders[o].status /\ orders'[o].remote = orders[o].remote

LEMMA SameIsKept == ASSUME SameOutcome PROVE ValidKept
BY DEF SameOutcome, ValidKept

LEMMA UnchangedIsKept == ASSUME UNCHANGED orders PROVE ValidKept
BY DEF ValidKept

\* Only the order of the own handler ends, and it had not delivered yet.
LEMMA EndKeepsValid ==
    ASSUME ClientInv, NEW a \in Clients, reg[a].order # Null, NEW s, NEW c,
           SetStatus(reg[a].order, s, c)
    PROVE  ValidKept
<1> DEFINE o == reg[a].order
<1>1. o \in DOMAIN orders \ clashed => orders[o].status # "valid"
  BY DEF ClientInv, HandlerInv, HandlerOK, OrderOK
<1>2. \A x \in DOMAIN orders : x # o => orders'[x] = orders[x]
  BY DEF SetStatus
<1> QED BY <1>1, <1>2 DEF ValidKept

LEMMA NextKeepsValid ==
    ASSUME ClientInv, [Next]_vars
    PROVE  ValidKept
<1>0. TypeOK /\ \A o \in DOMAIN orders : orders[o] \in Order
  BY DEF ClientInv, TypeOK, Partial
<1>1. ASSUME NEW a \in Clients, Step(a) PROVE ValidKept
  <2>1. ASSUME NEW o \in OrderIds, InsertOrder(a, o) PROVE ValidKept
    <3>1. o \notin DOMAIN orders
      BY <2>1, NextIdFresh, IdTypes DEF InsertOrder
    <3>2. CASE provider = Null
      BY <2>1, <3>2, UnchangedIsKept DEF InsertOrder
    <3>3. CASE provider # Null
      <4>1. \A x \in DOMAIN orders : orders'[x] = orders[x]
        BY <2>1, <3>1, <3>3 DEF InsertOrder, Put
      <4> QED BY <4>1 DEF ValidKept
    <3> QED BY <3>2, <3>3
  <2>2. CASE orders' = orders
    BY <2>2, UnchangedIsKept
  <2>4. CASE StatusValid(a) \/ RecordFailure(a)
    <3>1. reg[a].order # Null
      BY <2>4 DEF StatusValid, RecordFailure, ClientInv, HandlerInv, HandlerOK, RegOK, Working
    <3> QED BY <2>4, <3>1, EndKeepsValid, UnchangedIsKept DEF StatusValid, RecordFailure
  <2>5. CASE Replace(a)
    BY <2>2, <2>5 DEF Replace
  <2>6. ASSUME NEW c \in CertIds, InsertCert(a, c) PROVE ValidKept
    BY <2>2, <2>6 DEF InsertCert
  <2> QED BY <1>1, <2>1, <2>2, <2>4, <2>5, <2>6
          DEF Step, NewOrder, NewOrderFails, StoreCreds, IssueSucceeds, IssueFails, Compare
<1>2. ASSUME NEW p \in Clients, Request(p) PROVE ValidKept
  BY <1>2, UnchangedIsKept
     DEF Request, UpdateProviderRead, UpdateProviderWrite, CreateOrder, IssueOrder
<1>3. CASE Rows
  <2>1. CASE DeleteProvider
    BY <2>1 DEF DeleteProvider, ValidKept, Empty
  <2>2. ASSUME NEW o \in OrderIds, DeleteOrder(o) PROVE ValidKept
    BY <2>2 DEF DeleteOrder, Drop, ValidKept
  <2>3. ASSUME NEW c \in CertIds, DeleteCert(c) PROVE ValidKept
    <3>1. SameOutcome
      BY <1>0, <2>3 DEF DeleteCert, WithoutCert, SameOutcome, Order
    <3> QED BY <3>1, SameIsKept
  <2>4. CASE UNCHANGED orders
    BY <2>4, UnchangedIsKept
  <2> QED BY <1>3, <2>1, <2>2, <2>3, <2>4 DEF Rows, CreateProvider, RevokeCert
<1>4. CASE UNCHANGED orders
  BY <1>4, UnchangedIsKept
<1> QED BY <1>1, <1>2, <1>3, <1>4 DEF Next, Kill, vars

\* No later issue_acme_client_order turns an order that has delivered into a failure.
THEOREM ValidOrdersStay == Spec => ValidStays
<1>1. ClientInv /\ [Next]_vars =>
        [\A o \in DOMAIN orders \cap DOMAIN orders' :
           orders[o].status = "valid" /\ o \notin clashed =>
               orders'[o].status = "valid" /\ orders'[o].remote = orders[o].remote]_vars
  BY NextKeepsValid DEF ValidKept
<1> QED BY <1>1, ClientCorrect, PTL DEF Spec, ValidStays

\* Which steps replace the material of a certificate.
LEMMA ReplacementIsReplace ==
    ASSUME TypeOK, [Next]_vars, NEW a \in Clients, pc[a] = "replace", pc'[a] = "status"
    PROVE  Replace(a)
<1>0. pc \in [Clients -> Labels]
  BY DEF TypeOK
<1>1. ASSUME NEW b \in Clients, Step(b) PROVE Replace(a)
  <2>1. b = a
    BY <1>0, <1>1 DEF Step, NewOrder, NewOrderFails, StoreCreds, InsertOrder, IssueSucceeds,
                      IssueFails, Compare, Replace, StatusValid, RecordFailure, InsertCert,
                      Goto, Done
  <2> QED BY <1>1, <2>1 DEF Step, NewOrder, NewOrderFails, StoreCreds, InsertOrder,
                           IssueSucceeds, IssueFails, Compare, StatusValid, RecordFailure,
                           InsertCert
<1>2. ASSUME NEW p \in Clients, Request(p) PROVE FALSE
  BY <1>0, <1>2 DEF Request, UpdateProviderRead, UpdateProviderWrite, CreateOrder, IssueOrder,
                    Goto
<1>4. ~Rows
  BY DEF Rows, DeleteProvider, CreateProvider, DeleteOrder, DeleteCert, RevokeCert
<1>5. ~Kill /\ ~UNCHANGED vars
  BY DEF Kill, vars
<1> QED BY <1>1, <1>2, <1>4, <1>5 DEF Next

\* A replacement by replace_certificate, after the comparison renewal_extends_expiry
\* made on an earlier read of the row, extends the expiry of the row.
THEOREM RenewalsExtend == Spec => RenewalExtends
<1>1. ASSUME ClientInv, [Next]_vars, NEW a \in Clients,
             pc[a] = "replace", pc'[a] = "status", ~reg[a].stale
      PROVE  certs'[reg[a].cert].until > certs[reg[a].cert].until
  <2> DEFINE c == reg[a].cert
  <2>1. Replace(a)
    BY <1>1, ReplacementIsReplace DEF ClientInv
  <2>2. c \in DOMAIN certs /\ certs[c].acme /\ ~certs[c].revoked
    BY <1>1, <2>1 DEF Replace, Goto, ClientInv, TypeOK
  <2>3. certs' = [certs EXCEPT ![c].mat = reg[a].remote, ![c].until = reg[a].until]
    BY <2>1, <2>2 DEF Replace
  <2>4. certs[c] \in Cert
    BY <1>1, <2>2 DEF ClientInv, TypeOK, Partial
  <2>5. certs'[c].until = reg[a].until
    BY <2>2, <2>3, <2>4 DEF Cert
  <2>6. reg[a].until > certs[c].until
    BY <1>1, <2>2 DEF ClientInv, HandlerInv, HandlerOK, ExpiryOK
  <2> QED BY <2>5, <2>6
<1>2. ClientInv /\ [Next]_vars =>
        [\A a \in Clients :
           pc[a] = "replace" /\ pc'[a] = "status" /\ ~reg[a].stale =>
               certs'[reg[a].cert].until > certs[reg[a].cert].until]_vars
  BY <1>1
<1> QED BY <1>2, ClientCorrect, PTL DEF Spec, RenewalExtends

=============================================================================
