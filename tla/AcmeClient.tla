----------------------------- MODULE AcmeClient -----------------------------
(***************************************************************************)
(* The ACME client: orders at an external CA, opened and issued by requests   *)
(* (backend/src/acme_client/routes.rs).  The watcher's own renewals             *)
(* (handle_acme_renewal) are not here: they are for ACME rows with the method   *)
(* Renew, and rows are inserted with Notify, which no request changes.         *)
(*                                                                         *)
(* An order lives twice, as a row of acme_client_orders and at the CA.  A      *)
(* handler reads its rows, talks to the CA, and writes its rows, each in a step *)
(* of its own; a kill forgets the handlers and keeps the rows.  One provider   *)
(* stands for all: orders of different providers share nothing.  The CA is    *)
(* external: any call can fail, and an order ends once.                       *)
(***************************************************************************)
EXTENDS Integers

CONSTANTS Directories,  \* directory URLs
          MaxOrder, MaxCert, MaxRemote, MaxAccount,  \* bounds on ids
          MaxUntil,     \* expiries are 1..MaxUntil
          Clients,      \* concurrent requests
          Null

OrderIds == 1..MaxOrder
CertIds == 1..MaxCert
RemoteIds == 1..MaxRemote
AccountIds == 1..MaxAccount
Untils == 1..MaxUntil

VARIABLES
    provider,  \* the row of acme_client_providers, or Null
    orders,    \* acme_client_orders: id to row
    certs,     \* the ACME rows of user_certificates: id to row
    accounts,  \* the CA: account to its directory
    remote,    \* the CA: order to its account and status
    pc, reg,   \* the handlers under way
    written,   \* history: remote orders whose material a certificate had
    crossed,   \* history: the provider was written by handlers that overlapped
    clashed    \* history: orders with two handlers at once, or deleted under one

vars == <<provider, orders, certs, accounts, remote, pc, reg, written, crossed, clashed>>

Provider == [dir : Directories, creds : AccountIds \cup {Null}]

\* expires_at is always NULL (create_order).
Order == [status : {"pending_dns", "valid", "failed"}, remote : RemoteIds,
          cert : CertIds \cup {Null}, renews : CertIds \cup {Null}]

\* mat names the remote order that issued the material; acme: acme_provider_id is
\* not NULL.
Cert == [mat : RemoteIds, until : Untils, revoked : BOOLEAN, acme : BOOLEAN]

Remote == [account : AccountIds, status : {"pending", "ready", "valid", "invalid"}]

\* Null is none of the values it stands for the absence of.
ASSUME AcmeClientAssumption ==
    /\ {MaxOrder, MaxCert, MaxRemote, MaxAccount, MaxUntil} \subseteq Nat
    /\ Null \notin Nat \cup Directories \cup Provider

Labels == {"idle", "update", "order", "creds", "insert", "issue", "compare", "replace",
           "store", "status", "failed"}

Reg == [order : OrderIds \cup {Null}, cert : CertIds \cup {Null}, seen : Provider \cup {Null},
        fresh : AccountIds \cup {Null}, remote : RemoteIds \cup {Null},
        until : Untils \cup {Null}, stale : BOOLEAN]

NoReg == [order |-> Null, cert |-> Null, seen |-> Null, fresh |-> Null, remote |-> Null,
          until |-> Null, stale |-> FALSE]

Empty == [x \in {} |-> x]
Put(f, k, v) == [x \in DOMAIN f \cup {k} |-> IF x = k THEN v ELSE f[x]]
Drop(f, S) == [x \in DOMAIN f \ S |-> f[x]]
Partial(f, S, T) == DOMAIN f \subseteq S /\ \A x \in DOMAIN f : f[x] \in T

\* An INTEGER PRIMARY KEY without AUTOINCREMENT.
IsNextId(f, id) ==
    /\ \A x \in DOMAIN f : x < id
    /\ id = 1 \/ id - 1 \in DOMAIN f

\* Well-typed tables, in which no order is without its provider or names a
\* certificate that was deleted as its own.
TypeOK ==
    /\ provider \in Provider \cup {Null}
    /\ Partial(orders, OrderIds, Order) /\ (provider = Null => orders = Empty)
    /\ Partial(certs, CertIds, Cert)
    /\ \A o \in DOMAIN orders : orders[o].cert \in DOMAIN certs \cup {Null}
    /\ written \subseteq RemoteIds
    /\ Partial(accounts, AccountIds, Directories)
    /\ Partial(remote, RemoteIds, Remote)
    /\ pc \in [Clients -> Labels]
    /\ reg \in [Clients -> Reg]
    /\ crossed \in BOOLEAN
    /\ clashed \subseteq OrderIds

\* insert_acme_client_provider: the account at the CA comes with the first order.
InsertProvider(d) == [dir |-> d, creds |-> Null]

Init ==
    /\ provider \in {InsertProvider(d) : d \in Directories}
    /\ orders = Empty /\ certs = Empty /\ written = {}
    /\ accounts = Empty /\ remote = Empty
    /\ pc = [a \in Clients |-> "idle"]
    /\ reg = [a \in Clients |-> NoReg]
    /\ crossed = FALSE /\ clashed = {}

Goto(a, label, r) ==
    /\ pc' = [pc EXCEPT ![a] = label]
    /\ reg' = [reg EXCEPT ![a] = r]

Done(a) == Goto(a, "idle", NoReg)

----------------------------------------------------------------------------
(* Providers.                                                               *)

\* Handlers that have read the provider and will write it.
ReadProvider == {q \in Clients : pc[q] \in {"order", "creds", "update"}}

MarkStale(S) == [q \in Clients |-> IF q \in S THEN [reg[q] EXCEPT !.stale = TRUE] ELSE reg[q]]

CreateProvider(d) ==
    /\ provider = Null
    /\ provider' = InsertProvider(d)
    /\ crossed' = FALSE
    /\ UNCHANGED <<orders, certs, written, accounts, remote, pc, reg, clashed>>

\* update_acme_client_provider reads the row ...
UpdateProviderRead(p) ==
    /\ pc[p] = "idle"
    /\ provider # Null
    /\ Goto(p, "update", [NoReg EXCEPT !.seen = provider])
    /\ UNCHANGED <<provider, orders, certs, written, accounts, remote, crossed, clashed>>

\* Mutant: the account stays when the directory changes.
UpdatedCredsKept(seen, d) == provider.creds

\* The account of another directory is of no use.
UpdatedCreds(seen, d) == IF seen.dir # d THEN Null ELSE provider.creds

\* ... and writes it, with the account that goes by what it has read.
UpdateProviderWrite(p, d) ==
    /\ pc[p] = "update"
    /\ provider' = IF provider = Null THEN Null
                   ELSE [dir |-> d, creds |-> UpdatedCreds(reg[p].seen, d)]
    /\ crossed' = (provider # Null /\ UpdatedCreds(reg[p].seen, d) # Null
                     /\ (crossed \/ reg[p].stale))
    /\ pc' = [pc EXCEPT ![p] = "idle"]
    /\ reg' = [MarkStale(ReadProvider) EXCEPT ![p] = NoReg]
    /\ UNCHANGED <<orders, certs, written, accounts, remote, clashed>>

\* The handlers that work on one of the orders in S.
WorkingOn(S) == {q \in Clients : reg[q].order # Null /\ reg[q].order \in S}

OrdersInUse(S) == {o \in S : WorkingOn({o}) # {}}

\* delete_acme_client_provider: its orders go, its certificates lose the link.
DeleteProvider ==
    /\ provider # Null
    /\ provider' = Null
    /\ orders' = Empty
    /\ certs' = [c \in DOMAIN certs |-> [certs[c] EXCEPT !.acme = FALSE]]
    /\ clashed' = OrdersInUse(DOMAIN orders) \cup OrdersInUse(clashed)
    /\ reg' = MarkStale(ReadProvider)
    /\ UNCHANGED <<written, accounts, remote, pc, crossed>>

----------------------------------------------------------------------------
(* Phase 1: an order is opened at the CA and stored.                         *)

\* create_acme_client_order, of a new certificate or to renew one of the
\* provider's.
CreateOrder(p, c) ==
    /\ pc[p] = "idle"
    /\ provider # Null
    /\ c # Null => c \in DOMAIN certs /\ certs[c].acme
    /\ Goto(p, "order", [NoReg EXCEPT !.seen = provider, !.cert = c])
    /\ UNCHANGED <<provider, orders, certs, written, accounts, remote, crossed, clashed>>

\* account_for: the stored account, or one that is registered now.
AccountFor(seen, x) ==
    IF seen.creds # Null
    THEN x = seen.creds /\ UNCHANGED accounts
    ELSE IsNextId(accounts, x) /\ accounts' = Put(accounts, x, seen.dir)

\* create_order: an authorization that is still valid needs no TXT record.
NewOrder(a, x, n, txt) ==
    /\ pc[a] = "order"
    /\ AccountFor(reg[a].seen, x)
    /\ IsNextId(remote, n)
    /\ remote' = Put(remote, n, [account |-> x, status |-> IF txt THEN "pending" ELSE "ready"])
    /\ LET fresh == reg[a].seen.creds = Null IN
       Goto(a, IF fresh THEN "creds" ELSE "insert",
            [reg[a] EXCEPT !.remote = n, !.fresh = IF fresh THEN x ELSE Null])
    /\ UNCHANGED <<provider, orders, certs, written, crossed, clashed>>

\* The CA cannot be reached, or refuses.
NewOrderFails(a) ==
    /\ pc[a] = "order"
    /\ Done(a)
    /\ UNCHANGED <<provider, orders, certs, written, accounts, remote, crossed, clashed>>

\* update_acme_client_provider_credentials.
StoreCreds(a) ==
    /\ pc[a] = "creds"
    /\ provider' = IF provider = Null THEN Null ELSE [provider EXCEPT !.creds = reg[a].fresh]
    /\ crossed' = (crossed \/ (reg[a].stale /\ provider # Null))
    /\ Goto(a, "insert", reg[a])
    /\ UNCHANGED <<orders, certs, written, accounts, remote, clashed>>

\* insert_acme_client_order; the foreign key refuses a provider that is gone.
InsertOrder(a, o) ==
    /\ pc[a] = "insert"
    /\ IsNextId(orders, o)
    /\ IF provider = Null THEN UNCHANGED <<orders, clashed>>
       ELSE /\ orders' = Put(orders, o, [status |-> "pending_dns", remote |-> reg[a].remote,
                                         cert |-> Null, renews |-> reg[a].cert])
            /\ clashed' = (clashed \ {o}) \cup OrdersInUse({o})
    /\ Done(a)
    /\ UNCHANGED <<provider, certs, written, accounts, remote, crossed>>

----------------------------------------------------------------------------
(* Phase 2: the order is validated, issued and written.                      *)

\* Mutant: an order can be issued again.
IssuableAgain(o) == TRUE

Issuable(o) == orders[o].status \in {"pending_dns", "failed"}

\* issue_acme_client_order.
IssueOrder(p, o) ==
    /\ pc[p] = "idle"
    /\ o \in DOMAIN orders
    /\ Issuable(o)
    /\ Goto(p, "issue", [NoReg EXCEPT !.seen = provider, !.order = o,
                                      !.cert = orders[o].renews, !.remote = orders[o].remote])
    /\ clashed' = IF WorkingOn({o}) = {} THEN clashed ELSE clashed \cup {o}
    /\ UNCHANGED <<provider, orders, certs, written, accounts, remote, crossed>>

\* Whether the request's account may act on the order; one that is registered
\* for this call may not, and is forgotten.
OwnOrder(a) == reg[a].seen.creds = remote[reg[a].remote].account

\* Mutant: a replacement with the same expiry is taken too.
RenewalExtendsOrEqual(issued, current) == issued >= current

RenewalExtendsExpiry(issued, current) == issued > current

\* issue_order: the TXT records are visible, the challenge is answered, the CSR of
\* a new key is finalized and the certificate comes back.
IssueSucceeds(a, until) ==
    /\ pc[a] = "issue"
    /\ OwnOrder(a)
    /\ remote[reg[a].remote].status \in {"pending", "ready"}
    /\ remote' = [remote EXCEPT ![reg[a].remote].status = "valid"]
    /\ Goto(a, IF reg[a].cert = Null THEN "store" ELSE "compare", [reg[a] EXCEPT !.until = until])
    /\ UNCHANGED <<provider, orders, certs, written, accounts, crossed, clashed>>

\* What a failed attempt may leave at the CA: nothing, a rejected challenge, an
\* answered one, or a certificate nobody has fetched.
LeftAtCa(a, status) ==
    LET s == remote[reg[a].remote].status IN
    \/ status = s
    \/ OwnOrder(a) /\ s = "pending" /\ status \in {"ready", "invalid"}
    \/ OwnOrder(a) /\ s \in {"pending", "ready"} /\ status = "valid"

IssueFails(a, status) ==
    /\ pc[a] = "issue"
    /\ LeftAtCa(a, status)
    /\ remote' = [remote EXCEPT ![reg[a].remote].status = status]
    /\ Goto(a, "failed", reg[a])
    /\ UNCHANGED <<provider, orders, certs, written, accounts, crossed, clashed>>

\* The expiry is compared with that of the row as it is now.
Compare(p) ==
    /\ pc[p] = "compare"
    /\ LET c == reg[p].cert IN
       IF c \in DOMAIN certs /\ RenewalExtendsExpiry(reg[p].until, certs[c].until)
       THEN Goto(p, "replace", reg[p])
       ELSE Goto(p, "failed", reg[p])
    /\ UNCHANGED <<provider, orders, certs, written, accounts, remote, crossed, clashed>>

\* Handlers whose comparison is about to be out of date.
Compared(c) == {q \in Clients : reg[q].cert = c /\ pc[q] = "replace"}

\* replace_certificate under ReplaceGuard::AcmeRenewal.
Replace(a) ==
    /\ pc[a] = "replace"
    /\ LET c == reg[a].cert IN
       IF c \in DOMAIN certs /\ certs[c].acme /\ ~certs[c].revoked
       THEN /\ certs' = [certs EXCEPT ![c].mat = reg[a].remote, ![c].until = reg[a].until]
            /\ written' = written \cup {reg[a].remote}
            /\ pc' = [pc EXCEPT ![a] = "status"]
            /\ reg' = [MarkStale(Compared(c)) EXCEPT ![a] = reg[a]]
       ELSE Goto(a, "failed", reg[a]) /\ UNCHANGED <<certs, written>>
    /\ UNCHANGED <<provider, orders, accounts, remote, crossed, clashed>>

\* insert_acme_client_certificate, with method Notify.
InsertCert(p, c) ==
    /\ pc[p] = "store"
    /\ IsNextId(certs, c)
    /\ IF provider = Null
       THEN Goto(p, "failed", reg[p]) /\ UNCHANGED <<certs, written>>
       ELSE /\ certs' = Put(certs, c, [mat |-> reg[p].remote, until |-> reg[p].until,
                                       revoked |-> FALSE, acme |-> TRUE])
            /\ written' = written \cup {reg[p].remote}
            /\ pc' = [pc EXCEPT ![p] = "status"]
            /\ reg' = [MarkStale(Compared(c)) EXCEPT ![p] = [reg[p] EXCEPT !.cert = c]]
    /\ UNCHANGED <<provider, orders, accounts, remote, crossed, clashed>>

SetStatus(o, status, c) ==
    orders' = IF o \in DOMAIN orders
              THEN [orders EXCEPT ![o].status = status, ![o].cert = IF c = Null THEN @ ELSE c]
              ELSE orders

\* update_acme_client_order_status, "valid"; it fails on a certificate that is
\* gone.
StatusValid(a) ==
    /\ pc[a] = "status"
    /\ LET o == reg[a].order
           fails == o \in DOMAIN orders /\ reg[a].cert \notin DOMAIN certs
       IN /\ IF fails THEN UNCHANGED orders ELSE SetStatus(o, "valid", reg[a].cert)
          /\ IF fails THEN Goto(a, "failed", reg[a]) ELSE Done(a)
    /\ UNCHANGED <<provider, certs, written, accounts, remote, crossed, clashed>>

\* Mutant: an order whose renewal was refused counts as issued.
FailureStatusValid(a) == IF reg[a].cert # Null /\ reg[a].until # Null THEN "valid" ELSE "failed"

FailureStatus(a) == "failed"

\* record_order_failure.
RecordFailure(a) ==
    /\ pc[a] = "failed"
    /\ SetStatus(reg[a].order, FailureStatus(a), Null)
    /\ Done(a)
    /\ UNCHANGED <<provider, certs, written, accounts, remote, crossed, clashed>>

----------------------------------------------------------------------------
(* What else happens to the rows.                                           *)

DeleteOrder(o) ==
    /\ o \in DOMAIN orders
    /\ orders' = Drop(orders, {o})
    /\ clashed' = (clashed \ {o}) \cup OrdersInUse({o})
    /\ UNCHANGED <<provider, certs, written, accounts, remote, pc, reg, crossed>>

\* cert_id: ON DELETE SET NULL; renews_cert_id refers to nothing.
WithoutCert(c) == [o \in DOMAIN orders |->
    IF orders[o].cert = c THEN [orders[o] EXCEPT !.cert = Null] ELSE orders[o]]

DeleteCert(c) ==
    /\ c \in DOMAIN certs
    /\ certs' = Drop(certs, {c})
    /\ orders' = WithoutCert(c)
    /\ UNCHANGED <<provider, written, accounts, remote, pc, reg, crossed, clashed>>

\* revoke_cert of the ACME server, by whoever has the key of the certificate (an
\* internal revocation refuses a row without ca_id).
RevokeCert(c) ==
    /\ c \in DOMAIN certs
    /\ ~certs[c].revoked
    /\ certs' = [certs EXCEPT ![c].revoked = TRUE]
    /\ UNCHANGED <<provider, orders, written, accounts, remote, pc, reg, crossed, clashed>>

Kill ==
    /\ \E a \in Clients : pc[a] # "idle"
    /\ pc' = [a \in Clients |-> "idle"]
    /\ reg' = [a \in Clients |-> NoReg]
    /\ UNCHANGED <<provider, orders, certs, written, accounts, remote, crossed, clashed>>

\* The steps of a handler once it has been started.
Step(a) ==
    \/ \E x \in AccountIds, n \in RemoteIds, t \in BOOLEAN : NewOrder(a, x, n, t)
    \/ NewOrderFails(a) \/ StoreCreds(a)
    \/ \E o \in OrderIds : InsertOrder(a, o)
    \/ \E u \in Untils : IssueSucceeds(a, u)
    \/ \E s \in {"pending", "ready", "valid", "invalid"} : IssueFails(a, s)
    \/ Compare(a) \/ Replace(a) \/ StatusValid(a) \/ RecordFailure(a)
    \/ \E c \in CertIds : InsertCert(a, c)

Request(p) ==
    \/ UpdateProviderRead(p)
    \/ \E d \in Directories : UpdateProviderWrite(p, d)
    \/ \E c \in CertIds \cup {Null} : CreateOrder(p, c)
    \/ \E o \in OrderIds : IssueOrder(p, o)

Rows ==
    \/ DeleteProvider
    \/ \E d \in Directories : CreateProvider(d)
    \/ \E o \in OrderIds : DeleteOrder(o)
    \/ \E c \in CertIds : DeleteCert(c) \/ RevokeCert(c)

Next ==
    \/ \E p \in Clients : Request(p) \/ Step(p)
    \/ Rows \/ Kill

Spec == Init /\ [][Next]_vars

----------------------------------------------------------------------------
\* An order that is "valid" has delivered: the material issued for it was written
\* to a certificate, whatever was killed, revoked, deleted or refused in between
\* (unless the order was deleted under a handler and its id came back).
ValidMeansStored ==
    \A o \in DOMAIN orders \ clashed :
        orders[o].status = "valid" => orders[o].remote \in written

\* An order that has delivered is final: no later attempt turns it into a failure
\* (unless two handlers worked on it at once).
ValidStays ==
    [][\A o \in DOMAIN orders \cap DOMAIN orders' :
         orders[o].status = "valid" /\ o \notin clashed =>
             orders'[o].status = "valid" /\ orders'[o].remote = orders[o].remote]_vars

\* The stored account belongs to the directory that is configured: orders go
\* to no other CA (unless a handler that had read the provider wrote it after
\* the directory was changed).
AccountMatches ==
    provider # Null /\ provider.creds # Null /\ ~crossed
        => accounts[provider.creds] = provider.dir

\* A renewal extends the expiry of the certificate it replaces (unless the
\* row was written between the comparison and the replacement).
RenewalExtends ==
    [][\A a \in Clients :
         pc[a] = "replace" /\ pc'[a] = "status" /\ ~reg[a].stale =>
             certs'[reg[a].cert].until > certs[reg[a].cert].until]_vars

=============================================================================
