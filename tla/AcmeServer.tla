----------------------------- MODULE AcmeServer -----------------------------
(***************************************************************************)
(* The ACME server (backend/src/acme): registration of account keys against *)
(* EAB credentials, orders, challenges, finalisation, and the               *)
(* administrator's side.  Every handler is cut where it awaits the database  *)
(* or the network, so requests interleave there.                            *)
(*                                                                         *)
(* The signature of a request is what authenticates it: a request of account *)
(* a is one signed with the key registered for a.  The tables hand out the   *)
(* lowest id above all others, so the id of a deleted row comes back.        *)
(***************************************************************************)
EXTENDS FiniteSets, Integers

CONSTANTS MaxAccount,   \* bound on account ids
          MaxOrder,     \* bound on order ids
          MaxCert,      \* bound on issued certificates
          Idents,       \* the number of identifiers of an order
          Keys,         \* account keys of the clients
          Clients,      \* requests in progress at the same time
          RateLimit,    \* orders per account in the window
          Null

AccountIds == 1..MaxAccount
OrderIds == 1..MaxOrder
CertIds == 1..MaxCert
Index == 1..Idents

ASSUME AcmeAssumption ==
    /\ {MaxAccount, MaxOrder, MaxCert, RateLimit} \subseteq Nat
    /\ Idents \in Nat \ {0}
    /\ IsFiniteSet(Clients)
    /\ Null \notin Keys /\ Null \notin Int

VARIABLES
    accounts,   \* acme_accounts: id to row
    orders,     \* acme_orders: id to row
    certs,      \* certificates issued for orders: id to row
    pc, reg,    \* where each request is, and what it has read
    proven,     \* history: the identifiers of the orders that were validated
    tainted,    \* history: orders written by a request meant for the deleted
                \* order whose id they have taken over
    contested   \* history: accounts whose registration overlapped another one
                \* or an act of the administrator

vars == <<accounts, orders, certs, pc, reg, proven, tainted, contested>>

Account == [key : Keys \cup {Null}, status : {"pending", "valid", "deactivated"},
            auto : BOOLEAN]

Verdict == {"pending", "valid", "invalid"}

Order == [account : AccountIds, status : {"pending", "ready", "valid", "invalid"},
          idents : [Index -> Verdict], cert : CertIds \cup {Null}, expired : BOOLEAN]

\* authorised records whether every name had been validated for this order.
Cert == [account : AccountIds \cup {Null}, authorised : BOOLEAN]

Labels == {"idle", "lookup", "bind", "count", "insert_order", "validate", "write",
           "reread", "ready", "fail", "issue", "own", "done", "purge"}

Reg == [account : AccountIds \cup {Null}, key : Keys \cup {Null},
        order : OrderIds \cup {Null}, ident : Index \cup {Null}, verdict : Verdict,
        cert : CertIds \cup {Null}, authorised : BOOLEAN, stale : BOOLEAN]

NoReg == [account |-> Null, key |-> Null, order |-> Null, ident |-> Null,
          verdict |-> "pending", cert |-> Null, authorised |-> FALSE, stale |-> FALSE]

Empty == [x \in {} |-> x]

Put(f, k, v) == [x \in DOMAIN f \cup {k} |-> IF x = k THEN v ELSE f[x]]

Drop(f, S) == [x \in DOMAIN f \ S |-> f[x]]

\* An INTEGER PRIMARY KEY without AUTOINCREMENT: one above the highest in use.
IsNextId(f, id) ==
    /\ \A x \in DOMAIN f : x < id
    /\ id = 1 \/ id - 1 \in DOMAIN f

Init ==
    /\ accounts = Empty
    /\ orders = Empty
    /\ certs = Empty
    /\ pc = [p \in Clients |-> "idle"]
    /\ reg = [p \in Clients |-> NoReg]
    /\ proven = {}
    /\ tainted = {}
    /\ contested = {}

Goto(p, label, r) ==
    /\ pc' = [pc EXCEPT ![p] = label]
    /\ reg' = [reg EXCEPT ![p] = r]

Done(p) == Goto(p, "idle", NoReg)

----------------------------------------------------------------------------
(* new_account: the credentials are looked up and checked against the row   *)
(* read, then the key against the other accounts, then both are written.    *)

Registering(a) == {p \in Clients : pc[p] \in {"lookup", "bind"} /\ reg[p].account = a}

\* Mutant: a key that is already bound is not looked at.
MayRegisterAny(a) == accounts[a].status \in {"valid", "pending"}

\* With a key bound already the request is refused, or answered with the
\* account as it is when the key is the same.
MayRegister(a) == accounts[a].status \in {"valid", "pending"} /\ accounts[a].key = Null

NewAccountBegin(p, a, k) ==
    /\ pc[p] = "idle"
    /\ a \in DOMAIN accounts
    /\ MayRegister(a)
    /\ Goto(p, "lookup", [NoReg EXCEPT !.account = a, !.key = k])
    /\ contested' = IF Registering(a) = {} THEN contested ELSE contested \cup {a}
    /\ UNCHANGED <<accounts, orders, certs, proven, tainted>>

NewAccountLookup(p) ==
    /\ pc[p] = "lookup"
    /\ IF \E b \in DOMAIN accounts : b # reg[p].account /\ accounts[b].key = reg[p].key
       THEN Done(p)
       ELSE Goto(p, "bind", reg[p])
    /\ UNCHANGED <<accounts, orders, certs, proven, tainted, contested>>

\* set_acme_account_jwk writes whatever the row holds by now.
NewAccountBind(p) ==
    /\ pc[p] = "bind"
    /\ LET a == reg[p].account IN
         accounts' = IF a \in DOMAIN accounts
                     THEN [accounts EXCEPT ![a].key = reg[p].key, ![a].status = "valid"]
                     ELSE accounts
    /\ Done(p)
    /\ UNCHANGED <<orders, certs, proven, tainted, contested>>

----------------------------------------------------------------------------
(* authenticate_jws: the account is valid and the signature is of its key.  *)

Authenticated(a) ==
    a \in DOMAIN accounts /\ accounts[a].status = "valid" /\ accounts[a].key # Null

----------------------------------------------------------------------------
(* new_order: the account and its domains, then the rate limit, then the    *)
(* insert.                                                                  *)

NewOrderBegin(p, a) ==
    /\ pc[p] = "idle"
    /\ Authenticated(a)
    /\ Goto(p, "count", [NoReg EXCEPT !.account = a])
    /\ UNCHANGED <<accounts, orders, certs, proven, tainted, contested>>

\* count_recent_orders_for_account: an order expires when it leaves the window.
RecentOrders(a) == {o \in DOMAIN orders : orders[o].account = a /\ ~ orders[o].expired}

RateOk(a) == Cardinality(RecentOrders(a)) < RateLimit

NewOrderCount(p) ==
    /\ pc[p] = "count"
    /\ IF RateOk(reg[p].account) THEN Goto(p, "insert_order", reg[p]) ELSE Done(p)
    /\ UNCHANGED <<accounts, orders, certs, proven, tainted, contested>>

NewOrderRow(a) ==
    [account |-> a, status |-> "pending", idents |-> [i \in Index |-> "pending"],
     cert |-> Null, expired |-> FALSE]

\* insert_acme_order; the foreign key refuses an account that is gone.
NewOrderInsert(p) ==
    /\ pc[p] = "insert_order"
    /\ \/ /\ reg[p].account \in DOMAIN accounts
          /\ \E o \in OrderIds :
               /\ IsNextId(orders, o)
               /\ orders' = Put(orders, o, NewOrderRow(reg[p].account))
       \/ /\ reg[p].account \notin DOMAIN accounts
          /\ UNCHANGED orders
    /\ Done(p)
    /\ UNCHANGED <<accounts, certs, proven, tainted, contested>>

----------------------------------------------------------------------------
(* get_challenge.                                                           *)

\* A row of the order the request was meant for, or of a later one that has
\* its id, is overwritten; without a row nothing happens.
WriteOrder(p, row) ==
    LET o == reg[p].order IN
    /\ orders' = IF o \in DOMAIN orders THEN [orders EXCEPT ![o] = row] ELSE orders
    /\ tainted' = IF o \in DOMAIN orders /\ reg[p].stale THEN tainted \cup {o} ELSE tainted

\* update_acme_order_status sets the certificate too, to NULL if there is none.
SetStatus(p, status, cert) ==
    WriteOrder(p, [orders[reg[p].order] EXCEPT !.status = status, !.cert = cert])

\* The status of the order is not looked at, only that of the identifier.
ChallengeBegin(p, o, i) ==
    /\ pc[p] = "idle"
    /\ o \in DOMAIN orders
    /\ Authenticated(orders[o].account)
    /\ orders[o].idents[i] # "valid"
    /\ Goto(p, "validate", [NoReg EXCEPT !.account = orders[o].account, !.order = o, !.ident = i])
    /\ UNCHANGED <<accounts, orders, certs, proven, tainted, contested>>

\* The account is read again and has to have a key; unless it is trusted
\* blindly the domain is asked over the network, which takes its time and may
\* give either answer.
ChallengeValidate(p) ==
    LET a == reg[p].account
        found == a \in DOMAIN accounts /\ accounts[a].key # Null
    IN
    /\ pc[p] = "validate"
    /\ \/ ~ found /\ Done(p) /\ UNCHANGED proven
       \/ /\ found
          /\ Goto(p, "write", [reg[p] EXCEPT !.verdict = "valid"])
          /\ proven' = IF reg[p].stale THEN proven
                       ELSE proven \cup {<<reg[p].order, reg[p].ident>>}
       \/ /\ found /\ ~ accounts[a].auto
          /\ Goto(p, "write", [reg[p] EXCEPT !.verdict = "invalid"])
          /\ UNCHANGED proven
    /\ UNCHANGED <<accounts, orders, certs, tainted, contested>>

\* update_acme_order_identifier_status.
ChallengeWrite(p) ==
    /\ pc[p] = "write"
    /\ WriteOrder(p, [orders[reg[p].order] EXCEPT !.idents[reg[p].ident] = reg[p].verdict])
    /\ Goto(p, IF reg[p].verdict = "valid" THEN "reread" ELSE "fail", reg[p])
    /\ UNCHANGED <<accounts, certs, proven, contested>>

\* Mutant: one valid identifier is enough.
AllValidAny(o) == \E i \in Index : orders[o].idents[i] = "valid"

AllValid(o) == \A i \in Index : orders[o].idents[i] = "valid"

ChallengeReread(p) ==
    /\ pc[p] = "reread"
    /\ IF reg[p].order \in DOMAIN orders /\ AllValid(reg[p].order)
       THEN Goto(p, "ready", reg[p])
       ELSE Done(p)
    /\ UNCHANGED <<accounts, orders, certs, proven, tainted, contested>>

ChallengeReady(p) ==
    /\ pc[p] = "ready"
    /\ SetStatus(p, "ready", Null)
    /\ Done(p)
    /\ UNCHANGED <<accounts, certs, proven, contested>>

ChallengeFail(p) ==
    /\ pc[p] = "fail"
    /\ SetStatus(p, "invalid", Null)
    /\ Done(p)
    /\ UNCHANGED <<accounts, certs, proven, contested>>

----------------------------------------------------------------------------
(* finalize_order.                                                          *)

FinalizeBegin(p, o) ==
    /\ pc[p] = "idle"
    /\ o \in DOMAIN orders
    /\ Authenticated(orders[o].account)
    /\ orders[o].status = "ready"
    /\ ~ orders[o].expired
    /\ Goto(p, "issue",
            [NoReg EXCEPT !.account = orders[o].account, !.order = o,
                          !.authorised = o \in tainted \/ \A i \in Index : <<o, i>> \in proven])
    /\ UNCHANGED <<accounts, orders, certs, proven, tainted, contested>>

\* issue_cert_from_csr and insert_user_cert, for the names read at the start; a
\* CSR that cannot be signed makes the order invalid, and the request ends with
\* an error when the account is gone or its CA is, or has no key.
FinalizeIssue(p) ==
    /\ pc[p] = "issue"
    /\ \/ /\ reg[p].account \in DOMAIN accounts
          /\ \E c \in CertIds :
               /\ IsNextId(certs, c)
               /\ certs' = Put(certs, c, [account |-> Null, authorised |-> reg[p].authorised])
               /\ Goto(p, "own", [reg[p] EXCEPT !.cert = c])
          /\ UNCHANGED <<orders, tainted>>
       \/ /\ reg[p].account \in DOMAIN accounts
          /\ SetStatus(p, "invalid", Null)
          /\ Done(p)
          /\ UNCHANGED certs
       \/ /\ Done(p)
          /\ UNCHANGED <<certs, orders, tainted>>
    /\ UNCHANGED <<accounts, proven, contested>>

\* set_cert_acme_account, whose failure is ignored.
FinalizeOwn(p) ==
    /\ pc[p] = "own"
    /\ certs' = IF reg[p].account \in DOMAIN accounts
                THEN [certs EXCEPT ![reg[p].cert].account = reg[p].account]
                ELSE certs
    /\ Goto(p, "done", reg[p])
    /\ UNCHANGED <<accounts, orders, proven, tainted, contested>>

FinalizeDone(p) ==
    /\ pc[p] = "done"
    /\ SetStatus(p, "valid", reg[p].cert)
    /\ Done(p)
    /\ UNCHANGED <<accounts, certs, proven, contested>>

----------------------------------------------------------------------------
(* The administrator and time.                                              *)

\* insert_acme_account: the key comes with the first new_account.
NewAccountRow(auto) == [key |-> Null, status |-> "pending", auto |-> auto]

CreateAccount(a, auto) ==
    /\ IsNextId(accounts, a)
    /\ accounts' = Put(accounts, a, NewAccountRow(auto))
    /\ UNCHANGED <<orders, certs, pc, reg, proven, tainted, contested>>

\* update_acme_account: name, domains and CA apart, the validation; never the
\* status, which the administrator's handler leaves out.
UpdatedAccount(row, auto) == [row EXCEPT !.auto = auto]

UpdateAccount(a, auto) ==
    /\ a \in DOMAIN accounts
    /\ accounts' = [accounts EXCEPT ![a] = UpdatedAccount(accounts[a], auto)]
    /\ UNCHANGED <<orders, certs, pc, reg, proven, tainted, contested>>

Deactivate(a) ==
    /\ a \in DOMAIN accounts
    /\ accounts' = [accounts EXCEPT ![a].status = "deactivated"]
    /\ contested' = IF Registering(a) = {} THEN contested ELSE contested \cup {a}
    /\ UNCHANGED <<orders, certs, pc, reg, proven, tainted>>

\* Orders disappear: what was proved for them with them, and requests under way
\* go on with what they have read.
Forget(S) ==
    /\ orders' = Drop(orders, S)
    /\ proven' = {x \in proven : x[1] \notin S}
    /\ tainted' = tainted \ S

MarkStale(S) == [q \in Clients |-> [reg[q] EXCEPT !.stale = @ \/ reg[q].order \in S]]

DeleteOrder(o) ==
    /\ o \in DOMAIN orders
    /\ Forget({o})
    /\ reg' = MarkStale({o})
    /\ UNCHANGED <<accounts, certs, pc, contested>>

\* purge_acme_account: the status is read, then account and orders are deleted.
PurgeBegin(p, a) ==
    /\ pc[p] = "idle"
    /\ a \in DOMAIN accounts
    /\ accounts[a].status = "deactivated"
    /\ Goto(p, "purge", [NoReg EXCEPT !.account = a])
    /\ UNCHANGED <<accounts, orders, certs, proven, tainted, contested>>

PurgeDelete(p) ==
    LET a == reg[p].account
        S == {o \in DOMAIN orders : orders[o].account = a}
    IN  /\ pc[p] = "purge"
        /\ Forget(S)
        /\ accounts' = Drop(accounts, {a})
        /\ certs' = [c \in DOMAIN certs |->
                       IF certs[c].account = a THEN [certs[c] EXCEPT !.account = Null] ELSE certs[c]]
        /\ pc' = [pc EXCEPT ![p] = "idle"]
        /\ reg' = [MarkStale(S) EXCEPT ![p] = NoReg]
        /\ contested' = IF Registering(a) = {} THEN contested ELSE contested \cup {a}

Expire(o) ==
    /\ o \in DOMAIN orders
    /\ ~ orders[o].expired
    /\ orders' = [orders EXCEPT ![o].expired = TRUE]
    /\ UNCHANGED <<accounts, certs, pc, reg, proven, tainted, contested>>

\* cleanup_expired_orders, run after every response of the ACME endpoints, also
\* of those that only read.
Cleanup ==
    LET S == {o \in DOMAIN orders : orders[o].expired} IN
    /\ S # {}
    /\ Forget(S)
    /\ reg' = MarkStale(S)
    /\ UNCHANGED <<accounts, certs, pc, contested>>

Restart ==
    /\ pc' = [p \in Clients |-> "idle"]
    /\ reg' = [p \in Clients |-> NoReg]
    /\ UNCHANGED <<accounts, orders, certs, proven, tainted, contested>>

Request(p) ==
    \/ \E a \in AccountIds, k \in Keys : NewAccountBegin(p, a, k)
    \/ NewAccountLookup(p) \/ NewAccountBind(p)
    \/ \E a \in AccountIds : NewOrderBegin(p, a) \/ PurgeBegin(p, a)
    \/ NewOrderCount(p) \/ NewOrderInsert(p) \/ PurgeDelete(p)
    \/ \E o \in OrderIds, i \in Index : ChallengeBegin(p, o, i)
    \/ ChallengeValidate(p) \/ ChallengeWrite(p) \/ ChallengeReread(p)
    \/ ChallengeReady(p) \/ ChallengeFail(p)
    \/ \E o \in OrderIds : FinalizeBegin(p, o)
    \/ FinalizeIssue(p) \/ FinalizeOwn(p) \/ FinalizeDone(p)

World ==
    \/ \E a \in AccountIds, auto \in BOOLEAN : CreateAccount(a, auto) \/ UpdateAccount(a, auto)
    \/ \E a \in AccountIds : Deactivate(a)
    \/ \E o \in OrderIds : DeleteOrder(o) \/ Expire(o)
    \/ Cleanup \/ Restart

Next == (\E p \in Clients : Request(p)) \/ World

Spec == Init /\ [][Next]_vars

----------------------------------------------------------------------------
TypeOK ==
    /\ DOMAIN accounts \subseteq AccountIds
    /\ accounts \in [DOMAIN accounts -> Account]
    /\ DOMAIN orders \subseteq OrderIds
    /\ orders \in [DOMAIN orders -> Order]
    /\ DOMAIN certs \subseteq CertIds
    /\ certs \in [DOMAIN certs -> Cert]
    /\ pc \in [Clients -> Labels]
    /\ reg \in [Clients -> Reg]
    /\ proven \subseteq OrderIds \X Index
    /\ tainted \subseteq OrderIds
    /\ contested \subseteq AccountIds

\* Every certificate was issued for an order all of whose identifiers had been
\* validated for that very order, however challenges, retries, finalisations
\* and deletions interleave, unless a request meant for a deleted order had
\* written to the order that took over its id.
IssuedAuthorised == \A c \in DOMAIN certs : certs[c].authorised

\* A registered key is never replaced and a deactivated account never comes
\* back, unless registrations of the account overlapped each other or an act
\* of the administrator.
AccountFinal ==
    [][\A a \in (DOMAIN accounts \cap DOMAIN accounts') \ contested :
         /\ accounts[a].key # Null => accounts'[a].key = accounts[a].key
         /\ accounts[a].status = "deactivated" => accounts'[a].status = "deactivated"]_vars
=============================================================================
