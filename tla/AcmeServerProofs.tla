-------------------------- MODULE AcmeServerProofs --------------------------
(***************************************************************************)
(* IssuedAuthorised for every number of requests, accounts, orders and     *)
(* identifiers.  The invariant follows a proof of control from the         *)
(* challenge that obtained it through the order to the certificate; the    *)
(* obligations of a request are stated for a label and a register, so that *)
(* an action has to meet them for the request it moves only.               *)
(***************************************************************************)
EXTENDS AcmeServer, TLAPS

\* What a request at label l with register r owes to the proofs P and the
\* tainted orders T.
Owes(P, T, l, r) ==
    /\ l = "validate" => r.order \in OrderIds /\ r.ident \in Index
    /\ l = "write" /\ r.verdict = "valid" /\ ~ r.stale => <<r.order, r.ident>> \in P
    /\ l = "ready" /\ ~ r.stale => r.order \in T \/ \A i \in Index : <<r.order, i>> \in P
    /\ l = "issue" => r.authorised
    /\ l = "purge" => r.account \in AccountIds

\* What the row of order o owes to the proofs P.
Backed(P, o, row) ==
    /\ \A i \in Index : row.idents[i] = "valid" => <<o, i>> \in P
    /\ row.status = "ready" => \A i \in Index : <<o, i>> \in P

RequestsOwe == \A q \in Clients : Owes(proven, tainted, pc[q], reg[q])

OrdersBacked == \A o \in DOMAIN orders \ tainted : Backed(proven, o, orders[o])

Inv == TypeOK /\ RequestsOwe /\ OrdersBacked /\ IssuedAuthorised

AccountsType == DOMAIN accounts \subseteq AccountIds /\ accounts \in [DOMAIN accounts -> Account]

OrdersType == DOMAIN orders \subseteq OrderIds /\ orders \in [DOMAIN orders -> Order]

CertsType == DOMAIN certs \subseteq CertIds /\ certs \in [DOMAIN certs -> Cert]

ProcsType == pc \in [Clients -> Labels] /\ reg \in [Clients -> Reg]

HistoryType == proven \subseteq OrderIds \X Index /\ tainted \subseteq OrderIds /\ contested \subseteq AccountIds

LEMMA InvParts ==
    Inv <=> /\ AccountsType /\ OrdersType /\ CertsType /\ ProcsType /\ HistoryType
            /\ RequestsOwe /\ OrdersBacked /\ IssuedAuthorised
BY DEF Inv, TypeOK, AccountsType, OrdersType, CertsType, ProcsType, HistoryType

LEMMA InvPartsPrimed ==
    Inv' <=> /\ AccountsType' /\ OrdersType' /\ CertsType' /\ ProcsType' /\ HistoryType'
             /\ RequestsOwe' /\ OrdersBacked' /\ IssuedAuthorised'
BY DEF Inv, TypeOK, AccountsType, OrdersType, CertsType, ProcsType, HistoryType

LEMMA NoRegType == NoReg \in Reg
BY DEF NoReg, Reg, Verdict

-----------------------------------------------------------------------------
\* What is owed stays paid when proofs are added and orders become tainted.
LEMMA OwesGrows ==
    ASSUME NEW P, NEW P1, NEW T, NEW T1, NEW l, NEW r,
           P \subseteq P1, T \subseteq T1, Owes(P, T, l, r)
    PROVE  Owes(P1, T1, l, r)
BY DEF Owes

\* A request moves, and nothing is forgotten: only its own debts are looked at.
LEMMA Moves ==
    ASSUME Inv, NEW p \in Clients, NEW l \in Labels, NEW r \in Reg, Goto(p, l, r),
           proven \subseteq proven', tainted \subseteq tainted',
           Owes(proven', tainted', l, r)
    PROVE  ProcsType' /\ RequestsOwe'
<1>1. /\ pc' = [pc EXCEPT ![p] = l] /\ reg' = [reg EXCEPT ![p] = r]
      /\ pc \in [Clients -> Labels] /\ reg \in [Clients -> Reg]
  BY DEF Goto, Inv, TypeOK
<1>2. ProcsType'
  BY <1>1 DEF ProcsType
<1>3. ASSUME NEW q \in Clients
      PROVE  Owes(proven', tainted', pc'[q], reg'[q])
  <2>1. CASE q = p
    <3>1. pc'[q] = l /\ reg'[q] = r
      BY <1>1, <2>1
    <3> QED BY <3>1
  <2>2. CASE q # p
    <3>1. pc'[q] = pc[q] /\ reg'[q] = reg[q]
      BY <1>1, <2>2
    <3>2. Owes(proven, tainted, pc[q], reg[q])
      BY DEF Inv, RequestsOwe
    <3>3. Owes(proven', tainted', pc[q], reg[q])
      BY <3>2, OwesGrows
    <3> QED BY <3>1, <3>3
  <2> QED BY <2>1, <2>2
<1> QED BY <1>2, <1>3 DEF RequestsOwe

\* A request that ends owes nothing.
LEMMA Ends ==
    ASSUME Inv, NEW p \in Clients, Done(p), proven \subseteq proven', tainted \subseteq tainted'
    PROVE  ProcsType' /\ RequestsOwe'
<1>1. Owes(proven', tainted', "idle", NoReg) /\ "idle" \in Labels
  BY DEF Owes, Labels
<1> QED BY <1>1, NoRegType, Moves DEF Done

\* A request writes the order it was meant for, or taints the one it hits.
LEMMA Writes ==
    ASSUME Inv, NEW p \in Clients, NEW row, WriteOrder(p, row), UNCHANGED proven,
           reg[p].order \in DOMAIN orders =>
             /\ row \in Order
             /\ ~ reg[p].stale /\ reg[p].order \notin tainted => Backed(proven, reg[p].order, row)
    PROVE  /\ OrdersType' /\ OrdersBacked'
           /\ tainted \subseteq tainted' /\ tainted' \subseteq OrderIds
<1> DEFINE k == reg[p].order
<1>1. /\ orders' = IF k \in DOMAIN orders THEN [orders EXCEPT ![k] = row] ELSE orders
      /\ tainted' = IF k \in DOMAIN orders /\ reg[p].stale THEN tainted \cup {k} ELSE tainted
  BY DEF WriteOrder
<1>2. DOMAIN orders \subseteq OrderIds /\ orders \in [DOMAIN orders -> Order] /\ tainted \subseteq OrderIds
  BY DEF Inv, TypeOK
<1>3. DOMAIN orders' = DOMAIN orders
  BY <1>1, <1>2
<1>4. OrdersType'
  BY <1>1, <1>2, <1>3 DEF OrdersType
<1>5. tainted \subseteq tainted' /\ tainted' \subseteq OrderIds
  BY <1>1, <1>2
<1>6. ASSUME NEW o \in DOMAIN orders' \ tainted'
      PROVE  Backed(proven', o, orders'[o])
  <2>1. o \in DOMAIN orders \ tainted
    BY <1>3, <1>5
  <2>2. Backed(proven, o, orders[o])
    BY <2>1 DEF Inv, OrdersBacked
  <2>3. CASE o = k
    <3>1. orders'[o] = row /\ ~ reg[p].stale
      BY <1>1, <1>2, <1>6, <2>1, <2>3
    <3> QED BY <2>1, <2>3, <3>1
  <2>4. CASE o # k
    <3>1. orders'[o] = orders[o]
      BY <1>1, <1>2, <2>1, <2>4
    <3> QED BY <2>2, <3>1
  <2> QED BY <2>3, <2>4
<1> QED BY <1>4, <1>5, <1>6 DEF OrdersBacked

\* Orders disappear: the requests meant for them owe nothing any more.
LEMMA Forgets ==
    ASSUME Inv, NEW S, Forget(S)
    PROVE  /\ OrdersType' /\ OrdersBacked'
           /\ proven' \subseteq OrderIds \X Index /\ tainted' \subseteq OrderIds
           /\ \A q \in Clients : /\ MarkStale(S)[q] \in Reg
                                 /\ Owes(proven', tainted', pc[q], MarkStale(S)[q])
<1>1. /\ orders' = [x \in DOMAIN orders \ S |-> orders[x]]
      /\ proven' = {x \in proven : x[1] \notin S}
      /\ tainted' = tainted \ S
  BY DEF Forget, Drop
<1>2. /\ DOMAIN orders \subseteq OrderIds /\ orders \in [DOMAIN orders -> Order]
      /\ tainted \subseteq OrderIds /\ proven \subseteq OrderIds \X Index
      /\ reg \in [Clients -> Reg]
  BY DEF Inv, TypeOK
<1>3. DOMAIN orders' = DOMAIN orders \ S
  BY <1>1
<1>4. OrdersType'
  BY <1>1, <1>2, <1>3 DEF OrdersType
<1>5. ASSUME NEW o \in DOMAIN orders' \ tainted'
      PROVE  Backed(proven', o, orders'[o])
  <2>1. o \in DOMAIN orders \ tainted /\ o \notin S /\ orders'[o] = orders[o]
    BY <1>1, <1>3
  <2>2. Backed(proven, o, orders[o])
    BY <2>1 DEF Inv, OrdersBacked
  <2>3. \A i \in Index : <<o, i>> \in proven => <<o, i>> \in proven'
    BY <1>1, <2>1
  <2> QED BY <2>1, <2>2, <2>3 DEF Backed
<1>6. ASSUME NEW q \in Clients
      PROVE  MarkStale(S)[q] \in Reg /\ Owes(proven', tainted', pc[q], MarkStale(S)[q])
  <2> DEFINE r == reg[q]
             s == MarkStale(S)[q]
  <2>1. r \in Reg
    BY <1>2
  <2>2. s = [r EXCEPT !.stale = r.stale \/ r.order \in S]
    BY DEF MarkStale
  <2>3. s \in Reg
    BY <2>1, <2>2 DEF Reg
  <2>4. /\ s.order = r.order /\ s.ident = r.ident /\ s.verdict = r.verdict
        /\ s.authorised = r.authorised /\ s.account = r.account
        /\ (~ s.stale => ~ r.stale /\ r.order \notin S)
    BY <2>1, <2>2 DEF Reg
  <2>5. Owes(proven, tainted, pc[q], r)
    BY DEF Inv, RequestsOwe
  <2>6. r.order \notin S => \A i : <<r.order, i>> \in proven => <<r.order, i>> \in proven'
    BY <1>1
  <2>7. Owes(proven', tainted', pc[q], s)
    <3> HIDE DEF r, s
    <3> QED BY <1>1, <2>4, <2>5, <2>6 DEF Owes
  <2> QED BY <2>3, <2>7
<1> QED BY <1>1, <1>2, <1>4, <1>5, <1>6 DEF OrdersBacked

-----------------------------------------------------------------------------
\* A request goes on, and its tables and histories stay as they are.
LEMMA Continues ==
    ASSUME Inv, NEW p \in Clients, NEW l \in Labels, NEW r \in Reg, Goto(p, l, r),
           Owes(proven, tainted, l, r),
           UNCHANGED <<accounts, orders, certs, proven, tainted>>,
           contested' \subseteq AccountIds
    PROVE  Inv'
<1>1. Owes(proven', tainted', l, r) /\ proven \subseteq proven' /\ tainted \subseteq tainted'
  OBVIOUS
<1>2. ProcsType' /\ RequestsOwe'
  BY <1>1, Moves
<1>3. AccountsType' /\ OrdersType' /\ CertsType' /\ HistoryType' /\ OrdersBacked' /\ IssuedAuthorised'
  BY InvParts DEF AccountsType, OrdersType, CertsType, HistoryType, OrdersBacked, IssuedAuthorised
<1> QED BY <1>2, <1>3, InvPartsPrimed

\* Requests and orders are untouched.
LEMMA OnlyAccounts ==
    ASSUME Inv, AccountsType', contested' \subseteq AccountIds,
           UNCHANGED <<orders, certs, pc, reg, proven, tainted>>
    PROVE  Inv'
BY InvParts, InvPartsPrimed
   DEF OrdersType, CertsType, ProcsType, HistoryType, RequestsOwe, OrdersBacked, IssuedAuthorised

\* The account of a request can be read off its row.
LEMMA RowTypes ==
    ASSUME Inv
    PROVE  /\ \A o \in DOMAIN orders : /\ o \in OrderIds /\ orders[o] \in Order
                                        /\ orders[o].account \in AccountIds
           /\ \A a \in DOMAIN accounts : a \in AccountIds /\ accounts[a] \in Account
           /\ \A q \in Clients : reg[q] \in Reg /\ pc[q] \in Labels
BY DEF Inv, TypeOK, Order

-----------------------------------------------------------------------------
LEMMA NewAccountBeginInv ==
    ASSUME Inv, NEW p \in Clients, NEW a \in AccountIds, NEW k \in Keys, NewAccountBegin(p, a, k)
    PROVE  Inv'
<1> DEFINE r == [NoReg EXCEPT !.account = a, !.key = k]
<1>1. r \in Reg
  BY NoRegType DEF Reg, NoReg
<1>2. Goto(p, "lookup", r) /\ contested' \subseteq AccountIds
      /\ UNCHANGED <<accounts, orders, certs, proven, tainted>>
  BY InvParts DEF NewAccountBegin, HistoryType
<1>3. Owes(proven, tainted, "lookup", r) /\ "lookup" \in Labels
  BY DEF Owes, Labels
<1> HIDE DEF r
<1> QED BY <1>1, <1>2, <1>3, Continues

LEMMA NewAccountLookupInv ==
    ASSUME Inv, NEW p \in Clients, NewAccountLookup(p)
    PROVE  Inv'
<1>1. reg[p] \in Reg /\ contested' \subseteq AccountIds
      /\ UNCHANGED <<accounts, orders, certs, proven, tainted>>
  BY RowTypes, InvParts DEF NewAccountLookup, HistoryType
<1>2. Owes(proven, tainted, "bind", reg[p]) /\ "bind" \in Labels
      /\ Owes(proven, tainted, "idle", NoReg) /\ "idle" \in Labels
  BY DEF Owes, Labels
<1>3. Goto(p, "idle", NoReg) \/ Goto(p, "bind", reg[p])
  BY DEF NewAccountLookup, Done
<1> QED BY <1>1, <1>2, <1>3, NoRegType, Continues

LEMMA NewAccountBindInv ==
    ASSUME Inv, NEW p \in Clients, NewAccountBind(p)
    PROVE  Inv'
<1>1. ProcsType' /\ RequestsOwe'
  BY Ends DEF NewAccountBind
<1>2. AccountsType'
  <2>1. reg[p] \in Reg /\ AccountsType
    BY RowTypes, InvParts
  <2>2. reg[p].key \in Keys \cup {Null}
    BY <2>1 DEF Reg
  <2>3. CASE reg[p].account \in DOMAIN accounts
    <3> DEFINE a == reg[p].account
    <3>1. accounts' = [accounts EXCEPT ![a] = [accounts[a] EXCEPT !.key = reg[p].key, !.status = "valid"]]
      BY <2>1, <2>3 DEF NewAccountBind, AccountsType
    <3>2. accounts[a] \in Account
      BY <2>1, <2>3 DEF AccountsType
    <3>3. [accounts[a] EXCEPT !.key = reg[p].key, !.status = "valid"] \in Account
      BY <2>2, <3>2 DEF Account
    <3> HIDE DEF a
    <3> QED BY <2>1, <3>1, <3>3 DEF AccountsType
  <2>4. CASE reg[p].account \notin DOMAIN accounts
    BY <2>1, <2>4 DEF NewAccountBind, AccountsType
  <2> QED BY <2>3, <2>4
<1>3. OrdersType' /\ CertsType' /\ HistoryType' /\ OrdersBacked' /\ IssuedAuthorised'
  BY InvParts DEF NewAccountBind, OrdersType, CertsType, HistoryType, OrdersBacked, IssuedAuthorised
<1> QED BY <1>1, <1>2, <1>3, InvPartsPrimed

LEMMA NewOrderBeginInv ==
    ASSUME Inv, NEW p \in Clients, NEW a \in AccountIds, NewOrderBegin(p, a)
    PROVE  Inv'
<1> DEFINE r == [NoReg EXCEPT !.account = a]
<1>1. r \in Reg
  BY NoRegType DEF Reg, NoReg
<1>2. Goto(p, "count", r) /\ contested' \subseteq AccountIds
      /\ UNCHANGED <<accounts, orders, certs, proven, tainted>>
  BY InvParts DEF NewOrderBegin, HistoryType
<1>3. Owes(proven, tainted, "count", r) /\ "count" \in Labels
  BY DEF Owes, Labels
<1> HIDE DEF r
<1> QED BY <1>1, <1>2, <1>3, Continues

LEMMA NewOrderCountInv ==
    ASSUME Inv, NEW p \in Clients, NewOrderCount(p)
    PROVE  Inv'
<1>1. reg[p] \in Reg /\ contested' \subseteq AccountIds
      /\ UNCHANGED <<accounts, orders, certs, proven, tainted>>
  BY RowTypes, InvParts DEF NewOrderCount, HistoryType
<1>2. Owes(proven, tainted, "insert_order", reg[p]) /\ "insert_order" \in Labels
      /\ Owes(proven, tainted, "idle", NoReg) /\ "idle" \in Labels
  BY DEF Owes, Labels
<1>3. Goto(p, "idle", NoReg) \/ Goto(p, "insert_order", reg[p])
  BY DEF NewOrderCount, Done
<1> QED BY <1>1, <1>2, <1>3, NoRegType, Continues

LEMMA NewOrderInsertInv ==
    ASSUME Inv, NEW p \in Clients, NewOrderInsert(p)
    PROVE  Inv'
<1>1. ProcsType' /\ RequestsOwe'
  BY Ends DEF NewOrderInsert
<1>2. OrdersType' /\ OrdersBacked'
  <2>1. CASE UNCHANGED orders
    BY <2>1, InvParts DEF NewOrderInsert, OrdersType, OrdersBacked
  <2>2. CASE ~ UNCHANGED orders
    <3> DEFINE row == NewOrderRow(reg[p].account)
    <3>1. PICK o \in OrderIds : orders' = Put(orders, o, row)
      BY <2>2 DEF NewOrderInsert
    <3>2. reg[p].account \in AccountIds
      BY <2>2, RowTypes DEF NewOrderInsert
    <3>3. row \in Order
      BY <3>2 DEF Order, Verdict, NewOrderRow
    <3>4. \A q : Backed(proven, q, row)
      BY DEF Backed, NewOrderRow
    <3>5. orders' = [x \in DOMAIN orders \cup {o} |-> IF x = o THEN row ELSE orders[x]]
      BY <3>1 DEF Put
    <3> HIDE DEF row
    <3>6. OrdersType'
      BY <3>3, <3>5, InvParts DEF OrdersType
    <3>7. OrdersBacked'
      <4> SUFFICES ASSUME NEW q \in DOMAIN orders' \ tainted'
                   PROVE  Backed(proven', q, orders'[q])
        BY DEF OrdersBacked
      <4>1. UNCHANGED <<proven, tainted>>
        BY DEF NewOrderInsert
      <4>2. CASE q = o
        BY <3>4, <3>5, <4>1, <4>2
      <4>3. CASE q # o
        <5>1. q \in DOMAIN orders \ tainted /\ orders'[q] = orders[q]
          BY <3>5, <4>1, <4>3
        <5>2. Backed(proven, q, orders[q])
          BY <5>1 DEF Inv, OrdersBacked
        <5> QED BY <4>1, <5>1, <5>2
      <4> QED BY <4>2, <4>3
    <3> QED BY <3>6, <3>7
  <2> QED BY <2>1, <2>2
<1>3. AccountsType' /\ CertsType' /\ HistoryType' /\ IssuedAuthorised'
  BY InvParts DEF NewOrderInsert, AccountsType, CertsType, HistoryType, IssuedAuthorised
<1> QED BY <1>1, <1>2, <1>3, InvPartsPrimed

-----------------------------------------------------------------------------
LEMMA ChallengeBeginInv ==
    ASSUME Inv, NEW p \in Clients, NEW o \in OrderIds, NEW i \in Index, ChallengeBegin(p, o, i)
    PROVE  Inv'
<1> DEFINE r == [NoReg EXCEPT !.account = orders[o].account, !.order = o, !.ident = i]
<1>1. r \in Reg /\ r.order = o /\ r.ident = i
  BY NoRegType, RowTypes DEF Reg, NoReg, ChallengeBegin
<1>2. Goto(p, "validate", r) /\ contested' \subseteq AccountIds
      /\ UNCHANGED <<accounts, orders, certs, proven, tainted>>
  BY InvParts DEF ChallengeBegin, HistoryType
<1> HIDE DEF r
<1>3. Owes(proven, tainted, "validate", r) /\ "validate" \in Labels
  BY <1>1 DEF Owes, Labels
<1> QED BY <1>1, <1>2, <1>3, Continues

LEMMA ChallengeValidateInv ==
    ASSUME Inv, NEW p \in Clients, ChallengeValidate(p)
    PROVE  Inv'
<1>1. /\ reg[p] \in Reg /\ reg[p].order \in OrderIds /\ reg[p].ident \in Index
      /\ UNCHANGED <<accounts, orders, certs, tainted, contested>>
  BY RowTypes DEF ChallengeValidate, Inv, RequestsOwe, Owes
<1>2. /\ proven \subseteq proven' /\ proven' \subseteq OrderIds \X Index
      /\ tainted \subseteq tainted'
  BY <1>1, InvParts DEF ChallengeValidate, HistoryType
<1>3. ProcsType' /\ RequestsOwe'
  <2>1. CASE Done(p)
    BY <1>2, <2>1, Ends
  <2> DEFINE r(v) == [reg[p] EXCEPT !.verdict = v]
  <2>2. \A v \in Verdict : /\ r(v) \in Reg /\ r(v).verdict = v /\ r(v).order = reg[p].order
                            /\ r(v).ident = reg[p].ident /\ r(v).stale = reg[p].stale
    BY <1>1 DEF Reg
  <2>3. "valid" \in Verdict /\ "invalid" \in Verdict /\ "write" \in Labels
    BY DEF Verdict, Labels
  <2>4. CASE /\ Goto(p, "write", r("valid"))
             /\ proven' = IF reg[p].stale THEN proven
                          ELSE proven \cup {<<reg[p].order, reg[p].ident>>}
    <3>1. Owes(proven', tainted', "write", r("valid"))
      <4> HIDE DEF r
      <4> QED BY <2>2, <2>3, <2>4 DEF Owes
    <3> HIDE DEF r
    <3> QED BY <1>2, <2>2, <2>3, <2>4, <3>1, Moves
  <2>5. CASE Goto(p, "write", r("invalid"))
    <3>1. Owes(proven', tainted', "write", r("invalid"))
      <4> HIDE DEF r
      <4> QED BY <2>2, <2>3 DEF Owes
    <3> HIDE DEF r
    <3> QED BY <1>2, <2>2, <2>3, <2>5, <3>1, Moves
  <2> QED BY <2>1, <2>4, <2>5 DEF ChallengeValidate
<1>4. OrdersBacked'
  BY <1>1, <1>2, InvParts DEF OrdersBacked, Backed
<1>5. AccountsType' /\ OrdersType' /\ CertsType' /\ HistoryType' /\ IssuedAuthorised'
  BY <1>1, <1>2, InvParts DEF AccountsType, OrdersType, CertsType, HistoryType, IssuedAuthorised
<1> QED BY <1>3, <1>4, <1>5, InvPartsPrimed

LEMMA ChallengeWriteInv ==
    ASSUME Inv, NEW p \in Clients, ChallengeWrite(p)
    PROVE  Inv'
<1> DEFINE k == reg[p].order
           j == reg[p].ident
           row == [orders[k] EXCEPT !.idents[j] = reg[p].verdict]
           l == IF reg[p].verdict = "valid" THEN "reread" ELSE "fail"
<1>1. /\ reg[p] \in Reg /\ pc[p] = "write" /\ WriteOrder(p, row) /\ Goto(p, l, reg[p])
      /\ UNCHANGED <<accounts, certs, proven, contested>>
  BY RowTypes DEF ChallengeWrite
<1>2. ASSUME k \in DOMAIN orders
      PROVE  /\ row \in Order
             /\ ~ reg[p].stale /\ k \notin tainted => Backed(proven, k, row)
  <2>1. orders[k] \in Order /\ reg[p].verdict \in Verdict
    BY <1>1, <1>2, RowTypes DEF Reg
  <2>2. /\ row = [orders[k] EXCEPT !.idents = [orders[k].idents EXCEPT ![j] = reg[p].verdict]]
        /\ orders[k].idents \in [Index -> Verdict]
    BY <2>1 DEF Order
  <2>3. [orders[k].idents EXCEPT ![j] = reg[p].verdict] \in [Index -> Verdict]
    BY <2>1, <2>2
  <2>4. row \in Order
    BY <2>1, <2>2, <2>3 DEF Order
  <2>5. ASSUME ~ reg[p].stale, k \notin tainted
        PROVE  Backed(proven, k, row)
    <3>1. Backed(proven, k, orders[k])
      BY <1>2, <2>5 DEF Inv, OrdersBacked
    <3>2. reg[p].verdict = "valid" => <<k, j>> \in proven
      BY <1>1, <2>5 DEF Inv, RequestsOwe, Owes
    <3>3. row.status = orders[k].status
      BY <2>1 DEF Order
    <3>4. \A i \in Index : row.idents[i] = IF i = j THEN reg[p].verdict ELSE orders[k].idents[i]
      BY <2>1, <2>2 DEF Order
    <3> HIDE DEF row
    <3> QED BY <3>1, <3>2, <3>3, <3>4 DEF Backed
  <2> QED BY <2>4, <2>5
<1> HIDE DEF row
<1>3. /\ OrdersType' /\ OrdersBacked'
      /\ tainted \subseteq tainted' /\ tainted' \subseteq OrderIds
  BY <1>1, <1>2, Writes
<1>4. l \in Labels /\ Owes(proven', tainted', l, reg[p])
  BY DEF Labels, Owes
<1> HIDE DEF l
<1>5. ProcsType' /\ RequestsOwe'
  BY <1>1, <1>3, <1>4, Moves
<1>6. AccountsType' /\ CertsType' /\ HistoryType' /\ IssuedAuthorised'
  BY <1>1, <1>3, InvParts DEF AccountsType, CertsType, HistoryType, IssuedAuthorised
<1> QED BY <1>3, <1>5, <1>6, InvPartsPrimed

LEMMA ChallengeRereadInv ==
    ASSUME Inv, NEW p \in Clients, ChallengeReread(p)
    PROVE  Inv'
<1>1. reg[p] \in Reg /\ contested' \subseteq AccountIds
      /\ UNCHANGED <<accounts, orders, certs, proven, tainted>>
  BY RowTypes, InvParts DEF ChallengeReread, HistoryType
<1>2. CASE Done(p)
  <2>1. Goto(p, "idle", NoReg) /\ Owes(proven, tainted, "idle", NoReg) /\ "idle" \in Labels
    BY <1>2 DEF Done, Owes, Labels
  <2> QED BY <1>1, <2>1, NoRegType, Continues
<1>3. CASE /\ reg[p].order \in DOMAIN orders /\ AllValid(reg[p].order)
           /\ Goto(p, "ready", reg[p])
  <2>1. reg[p].order \notin tainted => \A i \in Index : <<reg[p].order, i>> \in proven
    BY <1>3 DEF AllValid, Inv, OrdersBacked, Backed
  <2>2. Owes(proven, tainted, "ready", reg[p]) /\ "ready" \in Labels
    BY <2>1 DEF Owes, Labels
  <2> QED BY <1>1, <1>3, <2>2, Continues
<1> QED BY <1>2, <1>3 DEF ChallengeReread

\* The status of the order is set; to ready only with proofs or at the price of
\* tainting it.
LEMMA SetsStatus ==
    ASSUME Inv, NEW p \in Clients, NEW status, NEW cert, SetStatus(p, status, cert),
           status \in {"ready", "valid", "invalid"}, cert \in CertIds \cup {Null},
           UNCHANGED proven, status = "ready" => pc[p] = "ready"
    PROVE  /\ OrdersType' /\ OrdersBacked'
           /\ tainted \subseteq tainted' /\ tainted' \subseteq OrderIds
<1> DEFINE k == reg[p].order
           row == [orders[k] EXCEPT !.status = status, !.cert = cert]
<1>1. WriteOrder(p, row)
  BY DEF SetStatus
<1>2. ASSUME k \in DOMAIN orders
      PROVE  /\ row \in Order
             /\ ~ reg[p].stale /\ k \notin tainted => Backed(proven, k, row)
  <2>1. orders[k] \in Order
    BY <1>2, RowTypes
  <2>2. row \in Order /\ row.status = status /\ row.idents = orders[k].idents
    BY <2>1 DEF Order
  <2>3. ASSUME ~ reg[p].stale, k \notin tainted
        PROVE  Backed(proven, k, row)
    <3>1. Backed(proven, k, orders[k])
      BY <1>2, <2>3 DEF Inv, OrdersBacked
    <3>2. status = "ready" => \A i \in Index : <<k, i>> \in proven
      BY <2>3 DEF Inv, RequestsOwe, Owes
    <3> HIDE DEF row
    <3> QED BY <2>2, <3>1, <3>2 DEF Backed
  <2> QED BY <2>2, <2>3
<1> HIDE DEF row
<1> QED BY <1>1, <1>2, Writes

LEMMA ChallengeReadyInv ==
    ASSUME Inv, NEW p \in Clients, ChallengeReady(p)
    PROVE  Inv'
<1>1. /\ OrdersType' /\ OrdersBacked'
      /\ tainted \subseteq tainted' /\ tainted' \subseteq OrderIds
  BY SetsStatus DEF ChallengeReady
<1>2. ProcsType' /\ RequestsOwe'
  BY <1>1, Ends DEF ChallengeReady
<1>3. AccountsType' /\ CertsType' /\ HistoryType' /\ IssuedAuthorised'
  BY <1>1, InvParts DEF ChallengeReady, AccountsType, CertsType, HistoryType, IssuedAuthorised
<1> QED BY <1>1, <1>2, <1>3, InvPartsPrimed

LEMMA ChallengeFailInv ==
    ASSUME Inv, NEW p \in Clients, ChallengeFail(p)
    PROVE  Inv'
<1>1. /\ OrdersType' /\ OrdersBacked'
      /\ tainted \subseteq tainted' /\ tainted' \subseteq OrderIds
  BY SetsStatus DEF ChallengeFail
<1>2. ProcsType' /\ RequestsOwe'
  BY <1>1, Ends DEF ChallengeFail
<1>3. AccountsType' /\ CertsType' /\ HistoryType' /\ IssuedAuthorised'
  BY <1>1, InvParts DEF ChallengeFail, AccountsType, CertsType, HistoryType, IssuedAuthorised
<1> QED BY <1>1, <1>2, <1>3, InvPartsPrimed

-----------------------------------------------------------------------------
LEMMA FinalizeBeginInv ==
    ASSUME Inv, NEW p \in Clients, NEW o \in OrderIds, FinalizeBegin(p, o)
    PROVE  Inv'
<1> DEFINE ok == o \in tainted \/ \A i \in Index : <<o, i>> \in proven
           r == [NoReg EXCEPT !.account = orders[o].account, !.order = o, !.authorised = ok]
<1>1. o \in DOMAIN orders /\ orders[o].status = "ready" /\ orders[o].account \in AccountIds
  BY RowTypes DEF FinalizeBegin
<1>2. ok
  BY <1>1 DEF Inv, OrdersBacked, Backed
<1>3. r \in Reg /\ r.authorised = ok
  <2> HIDE DEF ok
  <2> QED BY <1>1, <1>2, NoRegType DEF Reg, NoReg
<1>4. Goto(p, "issue", r) /\ contested' \subseteq AccountIds
      /\ UNCHANGED <<accounts, orders, certs, proven, tainted>>
  BY InvParts DEF FinalizeBegin, HistoryType
<1> HIDE DEF r, ok
<1>5. Owes(proven, tainted, "issue", r) /\ "issue" \in Labels
  BY <1>2, <1>3 DEF Owes, Labels
<1> QED BY <1>3, <1>4, <1>5, Continues

LEMMA FinalizeIssueInv ==
    ASSUME Inv, NEW p \in Clients, FinalizeIssue(p)
    PROVE  Inv'
<1>1. reg[p] \in Reg /\ reg[p].authorised /\ UNCHANGED <<accounts, proven, contested>>
  BY RowTypes DEF FinalizeIssue, Inv, RequestsOwe, Owes
<1>2. AccountsType' /\ (tainted' \subseteq OrderIds => HistoryType')
  BY <1>1, InvParts DEF AccountsType, HistoryType
<1>3. ASSUME NEW c \in CertIds, UNCHANGED <<orders, tainted>>,
             certs' = Put(certs, c, [account |-> Null, authorised |-> reg[p].authorised]),
             Goto(p, "own", [reg[p] EXCEPT !.cert = c])
      PROVE  Inv'
  <2> DEFINE row == [account |-> Null, authorised |-> reg[p].authorised]
             r == [reg[p] EXCEPT !.cert = c]
  <2>1. certs' = [x \in DOMAIN certs \cup {c} |-> IF x = c THEN row ELSE certs[x]]
    BY <1>3 DEF Put
  <2>2. row \in Cert /\ row.authorised
    BY <1>1 DEF Cert, Reg
  <2> HIDE DEF row
  <2>3. CertsType' /\ IssuedAuthorised'
    BY <2>1, <2>2, InvParts DEF CertsType, IssuedAuthorised
  <2>4. r \in Reg
    BY <1>1 DEF Reg
  <2> HIDE DEF r
  <2>5. "own" \in Labels /\ Owes(proven', tainted', "own", r)
    BY DEF Labels, Owes
  <2>6. Goto(p, "own", r)
    BY <1>3 DEF r
  <2>7. ProcsType' /\ RequestsOwe'
    BY <1>1, <1>3, <2>4, <2>5, <2>6, Moves
  <2>8. OrdersType' /\ OrdersBacked' /\ tainted' \subseteq OrderIds
    BY <1>1, <1>3, InvParts DEF OrdersType, OrdersBacked, HistoryType
  <2> QED BY <1>2, <2>3, <2>7, <2>8, InvPartsPrimed
<1>4. ASSUME SetStatus(p, "invalid", Null), Done(p), UNCHANGED certs
      PROVE  Inv'
  <2>1. /\ OrdersType' /\ OrdersBacked'
        /\ tainted \subseteq tainted' /\ tainted' \subseteq OrderIds
    BY <1>1, <1>4, SetsStatus
  <2>2. ProcsType' /\ RequestsOwe'
    BY <1>1, <1>4, <2>1, Ends
  <2>3. CertsType' /\ IssuedAuthorised'
    BY <1>4, InvParts DEF CertsType, IssuedAuthorised
  <2> QED BY <1>2, <2>1, <2>2, <2>3, InvPartsPrimed
<1>5. ASSUME Done(p), UNCHANGED <<certs, orders, tainted>>
      PROVE  Inv'
  <2>1. Goto(p, "idle", NoReg) /\ Owes(proven, tainted, "idle", NoReg) /\ "idle" \in Labels
    BY <1>5 DEF Done, Owes, Labels
  <2>2. contested' \subseteq AccountIds
    BY <1>1, InvParts DEF HistoryType
  <2> QED BY <1>1, <1>5, <2>1, <2>2, NoRegType, Continues
<1> QED BY <1>3, <1>4, <1>5 DEF FinalizeIssue

LEMMA FinalizeOwnInv ==
    ASSUME Inv, NEW p \in Clients, FinalizeOwn(p)
    PROVE  Inv'
<1>1. /\ reg[p] \in Reg /\ Goto(p, "done", reg[p])
      /\ UNCHANGED <<accounts, orders, proven, tainted, contested>>
  BY RowTypes DEF FinalizeOwn
<1>2. CertsType' /\ IssuedAuthorised'
  <2>1. CASE reg[p].account \in DOMAIN accounts /\ reg[p].cert \in DOMAIN certs
    <3> DEFINE c == reg[p].cert
               row == [certs[c] EXCEPT !.account = reg[p].account]
    <3>1. certs[c] \in Cert /\ certs[c].authorised /\ reg[p].account \in AccountIds
      BY <2>1, InvParts, RowTypes DEF CertsType, IssuedAuthorised
    <3>2. row \in Cert /\ row.authorised
      BY <3>1 DEF Cert
    <3>3. certs' = [certs EXCEPT ![c] = row]
      BY <2>1, InvParts DEF FinalizeOwn, CertsType
    <3> HIDE DEF row, c
    <3> QED BY <3>2, <3>3, InvParts DEF CertsType, IssuedAuthorised
  <2>2. CASE ~ (reg[p].account \in DOMAIN accounts /\ reg[p].cert \in DOMAIN certs)
    <3>1. certs' = certs
      BY <2>2, InvParts DEF FinalizeOwn, CertsType
    <3> QED BY <3>1, InvParts DEF CertsType, IssuedAuthorised
  <2> QED BY <2>1, <2>2
<1>3. "done" \in Labels /\ Owes(proven', tainted', "done", reg[p])
  BY DEF Labels, Owes
<1>4. ProcsType' /\ RequestsOwe'
  BY <1>1, <1>3, Moves
<1>5. AccountsType' /\ OrdersType' /\ HistoryType' /\ OrdersBacked'
  BY <1>1, InvParts DEF AccountsType, OrdersType, HistoryType, OrdersBacked
<1> QED BY <1>2, <1>4, <1>5, InvPartsPrimed

LEMMA FinalizeDoneInv ==
    ASSUME Inv, NEW p \in Clients, FinalizeDone(p)
    PROVE  Inv'
<1>1. reg[p].cert \in CertIds \cup {Null}
  BY RowTypes DEF Reg
<1>2. /\ OrdersType' /\ OrdersBacked'
      /\ tainted \subseteq tainted' /\ tainted' \subseteq OrderIds
  BY <1>1, SetsStatus DEF FinalizeDone
<1>3. ProcsType' /\ RequestsOwe'
  BY <1>2, Ends DEF FinalizeDone
<1>4. AccountsType' /\ CertsType' /\ HistoryType' /\ IssuedAuthorised'
  BY <1>2, InvParts DEF FinalizeDone, AccountsType, CertsType, HistoryType, IssuedAuthorised
<1> QED BY <1>2, <1>3, <1>4, InvPartsPrimed

-----------------------------------------------------------------------------
LEMMA CreateAccountInv ==
    ASSUME Inv, NEW a \in AccountIds, NEW auto \in BOOLEAN, CreateAccount(a, auto)
    PROVE  Inv'
<1> DEFINE row == NewAccountRow(auto)
<1>1. row \in Account
  BY DEF Account, NewAccountRow
<1>2. accounts' = [x \in DOMAIN accounts \cup {a} |-> IF x = a THEN row ELSE accounts[x]]
  BY DEF CreateAccount, Put
<1> HIDE DEF row
<1>3. AccountsType'
  BY <1>1, <1>2, InvParts DEF AccountsType
<1> QED BY <1>3, InvParts, OnlyAccounts DEF CreateAccount, HistoryType

LEMMA UpdateAccountInv ==
    ASSUME Inv, NEW a \in AccountIds, NEW auto \in BOOLEAN, UpdateAccount(a, auto)
    PROVE  Inv'
<1> DEFINE row == UpdatedAccount(accounts[a], auto)
<1>1. row \in Account
  BY RowTypes DEF UpdateAccount, UpdatedAccount, Account
<1>2. accounts' = [accounts EXCEPT ![a] = row]
  BY InvParts DEF UpdateAccount, AccountsType
<1> HIDE DEF row
<1>3. AccountsType'
  BY <1>1, <1>2, InvParts DEF AccountsType
<1> QED BY <1>3, InvParts, OnlyAccounts DEF UpdateAccount, HistoryType

LEMMA DeactivateInv ==
    ASSUME Inv, NEW a \in AccountIds, Deactivate(a)
    PROVE  Inv'
<1> DEFINE row == [accounts[a] EXCEPT !.status = "deactivated"]
<1>1. row \in Account
  BY RowTypes DEF Deactivate, Account
<1>2. accounts' = [accounts EXCEPT ![a] = row]
  BY InvParts DEF Deactivate, AccountsType
<1> HIDE DEF row
<1>3. AccountsType'
  BY <1>1, <1>2, InvParts DEF AccountsType
<1> QED BY <1>3, InvParts, OnlyAccounts DEF Deactivate, HistoryType

\* Orders are forgotten and nothing else happens.
LEMMA ForgetsOnly ==
    ASSUME Inv, NEW S, Forget(S), reg' = MarkStale(S), UNCHANGED <<accounts, certs, pc, contested>>
    PROVE  Inv'
<1>1. /\ OrdersType' /\ OrdersBacked'
      /\ proven' \subseteq OrderIds \X Index /\ tainted' \subseteq OrderIds
      /\ \A q \in Clients : reg'[q] \in Reg /\ Owes(proven', tainted', pc[q], reg'[q])
  BY Forgets
<1>2. ProcsType' /\ RequestsOwe'
  BY <1>1, InvParts DEF ProcsType, RequestsOwe, MarkStale
<1>3. AccountsType' /\ CertsType' /\ HistoryType' /\ IssuedAuthorised'
  BY <1>1, InvParts DEF AccountsType, CertsType, HistoryType, IssuedAuthorised
<1> QED BY <1>1, <1>2, <1>3, InvPartsPrimed

LEMMA PurgeBeginInv ==
    ASSUME Inv, NEW p \in Clients, NEW a \in AccountIds, PurgeBegin(p, a)
    PROVE  Inv'
<1> DEFINE r == [NoReg EXCEPT !.account = a]
<1>1. r \in Reg /\ r.account = a
  BY NoRegType DEF Reg, NoReg
<1>2. Goto(p, "purge", r) /\ contested' \subseteq AccountIds
      /\ UNCHANGED <<accounts, orders, certs, proven, tainted>>
  BY InvParts DEF PurgeBegin, HistoryType
<1> HIDE DEF r
<1>3. Owes(proven, tainted, "purge", r) /\ "purge" \in Labels
  BY <1>1 DEF Owes, Labels
<1> QED BY <1>1, <1>2, <1>3, Continues

LEMMA PurgeDeleteInv ==
    ASSUME Inv, NEW p \in Clients, PurgeDelete(p)
    PROVE  Inv'
<1> DEFINE a == reg[p].account
           S == {o \in DOMAIN orders : orders[o].account = a}
<1>1. /\ Forget(S) /\ accounts' = Drop(accounts, {a})
      /\ certs' = [c \in DOMAIN certs |->
                     IF certs[c].account = a THEN [certs[c] EXCEPT !.account = Null] ELSE certs[c]]
      /\ pc' = [pc EXCEPT ![p] = "idle"]
      /\ reg' = [MarkStale(S) EXCEPT ![p] = NoReg]
      /\ contested' \subseteq contested \cup {a} /\ (contested' # contested => Registering(a) # {})
  BY DEF PurgeDelete
<1>2. contested' \subseteq AccountIds
  <2>2. a \in AccountIds
    BY DEF PurgeDelete, Inv, RequestsOwe, Owes
  <2>3. contested \subseteq AccountIds
    BY InvParts DEF HistoryType
  <2> QED BY <1>1, <2>2, <2>3
<1> HIDE DEF S
<1>3. /\ OrdersType' /\ OrdersBacked'
      /\ proven' \subseteq OrderIds \X Index /\ tainted' \subseteq OrderIds
      /\ \A q \in Clients : /\ MarkStale(S)[q] \in Reg
                            /\ Owes(proven', tainted', pc[q], MarkStale(S)[q])
  BY <1>1, Forgets
<1>4. AccountsType'
  BY <1>1, InvParts DEF AccountsType, Drop
<1>5. \A c \in DOMAIN certs : /\ [certs[c] EXCEPT !.account = Null] \in Cert
                              /\ [certs[c] EXCEPT !.account = Null].authorised
  BY InvParts DEF CertsType, Cert, IssuedAuthorised
<1>6. CertsType' /\ IssuedAuthorised'
  BY <1>1, <1>5, InvParts DEF CertsType, IssuedAuthorised
<1>7. ProcsType' /\ RequestsOwe'
  <2>1. "idle" \in Labels /\ Owes(proven', tainted', "idle", NoReg)
    BY DEF Labels, Owes
  <2>2. \A q \in Clients : /\ pc'[q] = IF q = p THEN "idle" ELSE pc[q]
                           /\ reg'[q] = IF q = p THEN NoReg ELSE MarkStale(S)[q]
    BY <1>1, InvParts DEF ProcsType, MarkStale
  <2>3. ProcsType'
    BY <1>1, <1>3, <2>1, <2>2, NoRegType, InvParts DEF ProcsType, MarkStale
  <2>4. RequestsOwe'
    BY <1>3, <2>1, <2>2 DEF RequestsOwe
  <2> QED BY <2>3, <2>4
<1>8. HistoryType'
  BY <1>2, <1>3 DEF HistoryType
<1> QED BY <1>3, <1>4, <1>6, <1>7, <1>8, InvPartsPrimed

LEMMA ExpireInv ==
    ASSUME Inv, NEW o \in OrderIds, Expire(o)
    PROVE  Inv'
<1> DEFINE row == [orders[o] EXCEPT !.expired = TRUE]
<1>1. o \in DOMAIN orders /\ orders[o] \in Order
  BY RowTypes DEF Expire
<1>2. row \in Order /\ row.idents = orders[o].idents /\ row.status = orders[o].status
  BY <1>1 DEF Order
<1>3. orders' = [orders EXCEPT ![o] = row]
  BY InvParts DEF Expire, OrdersType
<1> HIDE DEF row
<1>4. OrdersType'
  BY <1>2, <1>3, InvParts DEF OrdersType
<1>5. OrdersBacked'
  BY <1>2, <1>3, InvParts DEF Expire, OrdersType, OrdersBacked, Backed
<1>6. AccountsType' /\ CertsType' /\ ProcsType' /\ HistoryType' /\ RequestsOwe' /\ IssuedAuthorised'
  BY InvParts DEF Expire, AccountsType, CertsType, ProcsType, HistoryType, RequestsOwe, IssuedAuthorised
<1> QED BY <1>4, <1>5, <1>6, InvPartsPrimed

LEMMA RestartInv ==
    ASSUME Inv, Restart
    PROVE  Inv'
<1>1. "idle" \in Labels /\ Owes(proven', tainted', "idle", NoReg)
  BY DEF Labels, Owes
<1>2. ProcsType' /\ RequestsOwe'
  BY <1>1, NoRegType DEF Restart, ProcsType, RequestsOwe
<1>3. AccountsType' /\ OrdersType' /\ CertsType' /\ HistoryType' /\ OrdersBacked' /\ IssuedAuthorised'
  BY InvParts DEF Restart, AccountsType, OrdersType, CertsType, HistoryType, OrdersBacked, IssuedAuthorised
<1> QED BY <1>2, <1>3, InvPartsPrimed

-----------------------------------------------------------------------------
LEMMA InitInv == Init => Inv
<1> SUFFICES ASSUME Init PROVE Inv
  OBVIOUS
<1>1. "idle" \in Labels /\ Owes(proven, tainted, "idle", NoReg)
  BY DEF Labels, Owes
<1>2. ProcsType /\ RequestsOwe
  BY <1>1, NoRegType DEF Init, ProcsType, RequestsOwe
<1>3. AccountsType /\ OrdersType /\ CertsType /\ HistoryType /\ OrdersBacked /\ IssuedAuthorised
  BY DEF Init, Empty, AccountsType, OrdersType, CertsType, HistoryType, OrdersBacked, IssuedAuthorised
<1> QED BY <1>2, <1>3, InvParts

LEMMA NextInv == Inv /\ [Next]_vars => Inv'
<1> SUFFICES ASSUME Inv, [Next]_vars PROVE Inv'
  OBVIOUS
<1>1. ASSUME NEW p \in Clients, Request(p)
      PROVE  Inv'
  BY <1>1, NewAccountBeginInv, NewAccountLookupInv, NewAccountBindInv, NewOrderBeginInv,
     NewOrderCountInv, NewOrderInsertInv, PurgeBeginInv, PurgeDeleteInv, ChallengeBeginInv,
     ChallengeValidateInv, ChallengeWriteInv, ChallengeRereadInv, ChallengeReadyInv,
     ChallengeFailInv, FinalizeBeginInv, FinalizeIssueInv, FinalizeOwnInv, FinalizeDoneInv
     DEF Request
<1>2. ASSUME World
      PROVE  Inv'
  <2>1. ASSUME NEW o \in OrderIds, DeleteOrder(o) PROVE Inv'
    BY <2>1, ForgetsOnly DEF DeleteOrder
  <2>2. ASSUME Cleanup PROVE Inv'
    BY <2>2, ForgetsOnly DEF Cleanup
  <2> QED BY <1>2, <2>1, <2>2, CreateAccountInv, UpdateAccountInv, DeactivateInv, ExpireInv, RestartInv
          DEF World
<1>3. CASE UNCHANGED vars
  BY <1>3, InvParts, InvPartsPrimed
     DEF vars, AccountsType, OrdersType, CertsType, ProcsType, HistoryType, RequestsOwe, OrdersBacked,
         IssuedAuthorised
<1> QED BY <1>1, <1>2, <1>3 DEF Next

\* Every variable of the ACME server keeps its type.
THEOREM AcmeTypes == Spec => []TypeOK
<1>1. Inv => TypeOK
  BY DEF Inv
<1> QED BY <1>1, InitInv, NextInv, PTL DEF Spec

\* finalize_order issues a certificate only for an order all of whose
\* identifiers get_challenge had validated for that order, unless a request
\* meant for a deleted order had written to the one that took over its id.
THEOREM CertificatesAuthorised == Spec => []IssuedAuthorised
<1>1. Inv => IssuedAuthorised
  BY DEF Inv
<1> QED BY <1>1, InitInv, NextInv, PTL DEF Spec

-----------------------------------------------------------------------------
(* AccountFinal.  A registration under way works with a row that is still as  *)
(* it was read, and is the only one for its account, unless the account is    *)
(* contested: that is what makes the unconditional write at its end harmless. *)

Joining(l) == l \in {"lookup", "bind"}

\* The row of account a has no key and can still be registered.
Free(a) == a \in DOMAIN accounts /\ accounts[a].key = Null /\ accounts[a].status # "deactivated"

RegistrationInv ==
    /\ \A p \in Clients : Joining(pc[p]) => reg[p].account \in contested \/ Free(reg[p].account)
    /\ \A p, q \in Clients :
          p # q /\ Joining(pc[p]) /\ Joining(pc[q]) /\ reg[p].account = reg[q].account
              => reg[p].account \in contested

\* What AccountFinal says of a step.
KeepsAccounts ==
    \A a \in (DOMAIN accounts \cap DOMAIN accounts') \ contested :
        /\ accounts[a].key # Null => accounts'[a].key = accounts[a].key
        /\ accounts[a].status = "deactivated" => accounts'[a].status = "deactivated"

\* No registration begins, and the rows of those under way stay free.
LEMMA RegistrationKept ==
    ASSUME RegistrationInv, contested \subseteq contested',
           \A q \in Clients : Joining(pc'[q]) =>
               Joining(pc[q]) /\ reg'[q].account = reg[q].account,
           \A q \in Clients : Joining(pc'[q]) /\ Free(reg[q].account) =>
               reg[q].account \in contested' \/ Free(reg[q].account)'
    PROVE  RegistrationInv'
BY DEF RegistrationInv

\* A request that is not registering moves to a label where it is not either.
LEMMA OtherRequest ==
    ASSUME Inv, RegistrationInv, NEW p \in Clients, NEW l \in Labels, NEW r, Goto(p, l, r),
           Joining(l) => Joining(pc[p]) /\ r.account = reg[p].account,
           UNCHANGED <<accounts, contested>>
    PROVE  RegistrationInv' /\ KeepsAccounts
<1>1. \A q \in Clients : Joining(pc'[q]) => Joining(pc[q]) /\ reg'[q].account = reg[q].account
  BY InvParts DEF Goto, ProcsType
<1>2. RegistrationInv'
  BY <1>1, RegistrationKept DEF Free
<1> QED BY <1>2 DEF KeepsAccounts

LEMMA DoneRegistration ==
    ASSUME Inv, RegistrationInv, NEW p \in Clients, Done(p), UNCHANGED <<accounts, contested>>
    PROVE  RegistrationInv' /\ KeepsAccounts
BY OtherRequest DEF Done, Labels, Joining

LEMMA NewAccountBeginRegistration ==
    ASSUME Inv, RegistrationInv, NEW p \in Clients, NEW a \in AccountIds, NEW k \in Keys,
           NewAccountBegin(p, a, k)
    PROVE  RegistrationInv' /\ KeepsAccounts
<1>1. /\ pc' = [pc EXCEPT ![p] = "lookup"]
      /\ reg' = [reg EXCEPT ![p] = [NoReg EXCEPT !.account = a, !.key = k]]
      /\ UNCHANGED accounts
  BY DEF NewAccountBegin, Goto
<1>2. pc'[p] = "lookup" /\ reg'[p].account = a /\ ~Joining(pc[p])
  BY <1>1, InvParts DEF ProcsType, NewAccountBegin, Joining, NoReg
<1>3. \A q \in Clients : q # p => pc'[q] = pc[q] /\ reg'[q] = reg[q]
  BY <1>1, InvParts DEF ProcsType
<1>4. Free(a)'
  BY <1>1 DEF NewAccountBegin, MayRegister, Free
<1>5. contested' = IF Registering(a) = {} THEN contested ELSE contested \cup {a}
  BY DEF NewAccountBegin
<1>6. contested \subseteq contested'
  BY <1>5
<1>7. \A q \in Clients : q # p /\ Joining(pc[q]) /\ reg[q].account = a => a \in contested'
  BY <1>5 DEF Registering, Joining
<1>8. \A q \in Clients : Joining(pc'[q]) => reg'[q].account \in contested' \/ Free(reg[q].account)'
  BY <1>1, <1>2, <1>3, <1>4, <1>6 DEF RegistrationInv, Free
<1>9. RegistrationInv'
  BY <1>2, <1>3, <1>6, <1>7, <1>8 DEF RegistrationInv
<1> QED BY <1>1, <1>9 DEF KeepsAccounts

LEMMA NewAccountBindRegistration ==
    ASSUME Inv, RegistrationInv, NEW p \in Clients, NewAccountBind(p)
    PROVE  RegistrationInv' /\ KeepsAccounts
<1> DEFINE a == reg[p].account
<1>1. /\ pc[p] = "bind" /\ pc' = [pc EXCEPT ![p] = "idle"] /\ reg' = [reg EXCEPT ![p] = NoReg]
      /\ contested' = contested
      /\ DOMAIN accounts' = DOMAIN accounts
      /\ \A b \in DOMAIN accounts : b # a => accounts'[b] = accounts[b]
  BY DEF NewAccountBind, Done, Goto
<1>2. a \in contested \/ Free(a)
  BY <1>1 DEF RegistrationInv, Joining
<1>3. \A q \in Clients : Joining(pc'[q]) =>
          q # p /\ Joining(pc[q]) /\ reg'[q].account = reg[q].account
  BY <1>1, InvParts DEF ProcsType, Joining
<1>4. \A q \in Clients : Joining(pc'[q]) => reg[q].account # a \/ a \in contested
  BY <1>1, <1>3 DEF RegistrationInv, Joining
<1>5. RegistrationInv'
  BY <1>1, <1>3, <1>4, RegistrationKept DEF Free
<1>6. KeepsAccounts
  BY <1>1, <1>2 DEF KeepsAccounts, Free
<1> QED BY <1>5, <1>6

\* The administrator marks an account whose registration is under way.
LEMMA DeactivateRegistration ==
    ASSUME Inv, RegistrationInv, NEW a \in AccountIds, Deactivate(a)
    PROVE  RegistrationInv' /\ KeepsAccounts
<1>1. /\ DOMAIN accounts' = DOMAIN accounts /\ UNCHANGED <<pc, reg>>
      /\ contested \subseteq contested'
      /\ \A b \in DOMAIN accounts : b # a => accounts'[b] = accounts[b]
      /\ accounts'[a].key = accounts[a].key /\ accounts'[a].status = "deactivated"
  BY InvParts DEF Deactivate, AccountsType, Account
<1>2. \A q \in Clients : Joining(pc[q]) /\ reg[q].account = a => a \in contested'
  BY DEF Deactivate, Registering, Joining
<1>3. RegistrationInv'
  BY <1>1, <1>2, RegistrationKept DEF Free
<1> QED BY <1>1, <1>3 DEF KeepsAccounts

LEMMA PurgeDeleteRegistration ==
    ASSUME Inv, RegistrationInv, NEW p \in Clients, PurgeDelete(p)
    PROVE  RegistrationInv' /\ KeepsAccounts
<1> DEFINE a == reg[p].account
           S == {o \in DOMAIN orders : orders[o].account = a}
<1>1. /\ pc' = [pc EXCEPT ![p] = "idle"] /\ reg' = [MarkStale(S) EXCEPT ![p] = NoReg]
      /\ accounts' = Drop(accounts, {a})
      /\ contested' = IF Registering(a) = {} THEN contested ELSE contested \cup {a}
  BY DEF PurgeDelete
<1>2. /\ DOMAIN accounts' = DOMAIN accounts \ {a}
      /\ \A b \in DOMAIN accounts' : accounts'[b] = accounts[b]
  BY <1>1 DEF Drop
<1>3. \A q \in Clients : Joining(pc'[q]) =>
          Joining(pc[q]) /\ reg'[q].account = reg[q].account
  BY <1>1, InvParts DEF ProcsType, Joining, MarkStale, Reg
<1>4. \A q \in Clients : Joining(pc[q]) /\ reg[q].account = a => a \in contested'
  BY <1>1 DEF Registering, Joining
<1>5. RegistrationInv'
  <2>1. contested \subseteq contested'
    BY <1>1
  <2> HIDE DEF a
  <2> QED BY <1>2, <1>3, <1>4, <2>1, RegistrationKept DEF Free
<1> QED BY <1>2, <1>5 DEF KeepsAccounts

\* An order disappears: the requests keep the account they have read.
LEMMA ForgetRegistration ==
    ASSUME Inv, RegistrationInv, NEW S, reg' = MarkStale(S), UNCHANGED <<accounts, pc, contested>>
    PROVE  RegistrationInv' /\ KeepsAccounts
<1>1. \A q \in Clients : reg'[q].account = reg[q].account
  BY InvParts DEF ProcsType, MarkStale, Reg
<1>2. RegistrationInv'
  BY <1>1, RegistrationKept DEF Free
<1> QED BY <1>2 DEF KeepsAccounts

LEMMA CreateAccountRegistration ==
    ASSUME Inv, RegistrationInv, NEW a \in AccountIds, NEW auto \in BOOLEAN, CreateAccount(a, auto)
    PROVE  RegistrationInv' /\ KeepsAccounts
<1>1. a \notin DOMAIN accounts
  BY AcmeAssumption DEF CreateAccount, IsNextId, AccountIds
<1>2. /\ UNCHANGED <<pc, reg, contested>>
      /\ DOMAIN accounts \subseteq DOMAIN accounts'
      /\ \A b \in DOMAIN accounts : accounts'[b] = accounts[b]
  BY <1>1 DEF CreateAccount, Put
<1>3. RegistrationInv'
  BY <1>2, RegistrationKept DEF Free
<1> QED BY <1>2, <1>3 DEF KeepsAccounts

LEMMA UpdateAccountRegistration ==
    ASSUME Inv, RegistrationInv, NEW a \in AccountIds, NEW auto \in BOOLEAN, UpdateAccount(a, auto)
    PROVE  RegistrationInv' /\ KeepsAccounts
<1>1. /\ UNCHANGED <<pc, reg, contested>>
      /\ DOMAIN accounts' = DOMAIN accounts
      /\ \A b \in DOMAIN accounts : /\ accounts'[b].key = accounts[b].key
                                    /\ accounts'[b].status = accounts[b].status
  BY InvParts DEF UpdateAccount, UpdatedAccount, AccountsType, Account
<1>2. RegistrationInv'
  BY <1>1, RegistrationKept DEF Free
<1> QED BY <1>1, <1>2 DEF KeepsAccounts

\* The requests that write no account.
LEMMA RequestRegistration ==
    ASSUME Inv, RegistrationInv, NEW p \in Clients, Request(p)
    PROVE  RegistrationInv' /\ KeepsAccounts
<1>1. ASSUME NewAccountLookup(p) PROVE RegistrationInv' /\ KeepsAccounts
  <2>1. CASE Done(p)
    BY <1>1, <2>1, DoneRegistration DEF NewAccountLookup
  <2>2. CASE Goto(p, "bind", reg[p])
    BY <1>1, <2>2, OtherRequest DEF NewAccountLookup, Joining, Labels
  <2> QED BY <1>1, <2>1, <2>2 DEF NewAccountLookup
<1>2. ASSUME NEW a \in AccountIds, NewOrderBegin(p, a) \/ PurgeBegin(p, a)
      PROVE  RegistrationInv' /\ KeepsAccounts
  BY <1>2, OtherRequest DEF NewOrderBegin, PurgeBegin, Joining, Labels
<1>3. ASSUME NewOrderCount(p) PROVE RegistrationInv' /\ KeepsAccounts
  <2>1. CASE Done(p)
    BY <1>3, <2>1, DoneRegistration DEF NewOrderCount
  <2>2. CASE Goto(p, "insert_order", reg[p])
    BY <1>3, <2>2, OtherRequest DEF NewOrderCount, Joining, Labels
  <2> QED BY <1>3, <2>1, <2>2 DEF NewOrderCount
<1>4. ASSUME NewOrderInsert(p) \/ ChallengeReady(p) \/ ChallengeFail(p) \/ FinalizeDone(p)
      PROVE  RegistrationInv' /\ KeepsAccounts
  BY <1>4, DoneRegistration DEF NewOrderInsert, ChallengeReady, ChallengeFail, FinalizeDone
<1>5. ASSUME NEW o \in OrderIds, NEW i \in Index, ChallengeBegin(p, o, i)
      PROVE  RegistrationInv' /\ KeepsAccounts
  BY <1>5, OtherRequest DEF ChallengeBegin, Joining, Labels
<1>6. ASSUME ChallengeValidate(p) PROVE RegistrationInv' /\ KeepsAccounts
  <2>1. CASE Done(p)
    BY <1>6, <2>1, DoneRegistration DEF ChallengeValidate
  <2>2. CASE \E r : Goto(p, "write", r)
    BY <1>6, <2>2, OtherRequest DEF ChallengeValidate, Joining, Labels
  <2> QED BY <1>6, <2>1, <2>2 DEF ChallengeValidate
<1>7. ASSUME ChallengeWrite(p) PROVE RegistrationInv' /\ KeepsAccounts
  BY <1>7, OtherRequest DEF ChallengeWrite, Joining, Labels
<1>8. ASSUME ChallengeReread(p) PROVE RegistrationInv' /\ KeepsAccounts
  <2>1. CASE Done(p)
    BY <1>8, <2>1, DoneRegistration DEF ChallengeReread
  <2>2. CASE Goto(p, "ready", reg[p])
    BY <1>8, <2>2, OtherRequest DEF ChallengeReread, Joining, Labels
  <2> QED BY <1>8, <2>1, <2>2 DEF ChallengeReread
<1>9. ASSUME NEW o \in OrderIds, FinalizeBegin(p, o) PROVE RegistrationInv' /\ KeepsAccounts
  BY <1>9, OtherRequest DEF FinalizeBegin, Joining, Labels
<1>10. ASSUME FinalizeIssue(p) PROVE RegistrationInv' /\ KeepsAccounts
  <2>1. CASE Done(p)
    BY <1>10, <2>1, DoneRegistration DEF FinalizeIssue
  <2>2. CASE \E r : Goto(p, "own", r)
    BY <1>10, <2>2, OtherRequest DEF FinalizeIssue, Joining, Labels
  <2> QED BY <1>10, <2>1, <2>2 DEF FinalizeIssue
<1>11. ASSUME FinalizeOwn(p) PROVE RegistrationInv' /\ KeepsAccounts
  BY <1>11, OtherRequest DEF FinalizeOwn, Joining, Labels
<1> QED BY <1>1, <1>2, <1>3, <1>4, <1>5, <1>6, <1>7, <1>8, <1>9, <1>10, <1>11,
           NewAccountBeginRegistration, NewAccountBindRegistration, PurgeDeleteRegistration
        DEF Request

LEMMA WorldRegistration ==
    ASSUME Inv, RegistrationInv, World
    PROVE  RegistrationInv' /\ KeepsAccounts
<1>1. ASSUME NEW o \in OrderIds, DeleteOrder(o) PROVE RegistrationInv' /\ KeepsAccounts
  BY <1>1, ForgetRegistration DEF DeleteOrder
<1>2. ASSUME Cleanup PROVE RegistrationInv' /\ KeepsAccounts
  BY <1>2, ForgetRegistration DEF Cleanup
<1>3. ASSUME NEW o \in OrderIds, Expire(o) PROVE RegistrationInv' /\ KeepsAccounts
  BY <1>3, RegistrationKept DEF Expire, KeepsAccounts, Free
<1>4. ASSUME Restart PROVE RegistrationInv' /\ KeepsAccounts
  <2>1. \A q \in Clients : ~Joining(pc'[q])
    BY <1>4 DEF Restart, Joining
  <2> QED BY <1>4, <2>1, RegistrationKept DEF Restart, KeepsAccounts
<1> QED BY <1>1, <1>2, <1>3, <1>4, CreateAccountRegistration, UpdateAccountRegistration,
           DeactivateRegistration DEF World

\* The write of set_acme_account_jwk replaces no key and revives no deactivated
\* account, however many requests are under way, unless new_account was running
\* for that account more than once or while the administrator changed it.
THEOREM AccountsFinal == Spec => AccountFinal
<1>1. Init => RegistrationInv
  BY DEF Init, RegistrationInv, Joining
<1>2. Inv /\ RegistrationInv /\ [Next]_vars => RegistrationInv' /\ [KeepsAccounts]_vars
  <2> SUFFICES ASSUME Inv, RegistrationInv, [Next]_vars
               PROVE  RegistrationInv' /\ [KeepsAccounts]_vars
    OBVIOUS
  <2>1. CASE UNCHANGED vars
    BY <2>1, RegistrationKept DEF vars, Free
  <2>2. CASE Next
    BY <2>2, RequestRegistration, WorldRegistration DEF Next
  <2> QED BY <2>1, <2>2
<1>3. Spec => [][KeepsAccounts]_vars
  BY <1>1, <1>2, InitInv, NextInv, PTL DEF Spec
<1> QED BY <1>3 DEF AccountFinal, KeepsAccounts
=============================================================================
