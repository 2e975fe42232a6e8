------------------------------ MODULE CertStore ------------------------------
(***************************************************************************)
(* The life of a certificate row: every handler and background task of the *)
(* backend that reads a row and later writes it.                           *)
(*                                                                         *)
(* A handler is a process that takes one action per database call; between *)
(* two calls it awaits and everything else may run, so what it read may be *)
(* stale when it writes.  Reads that no write separates are one action.    *)
(* Requests are served by Clients, the expiry watcher (watch_expiry, one   *)
(* task) is the process Watcher.  A restart loses every process and runs   *)
(* the startup backfill.                                                   *)
(*                                                                         *)
(* Authorization, the CRL files and SSH certificates are not part of this  *)
(* module.  Time is abstracted: any certificate may be due at any pass of  *)
(* the watcher.  RenewAndNotify is "renew": it differs by a mail only.     *)
(***************************************************************************)
EXTENDS CertTable

CONSTANTS
  Clients,   \* concurrent requests
  Watcher,   \* the task watch_expiry
  Untils,    \* expiry dates (valid_until)
  Ops,       \* the operations the environment asks for
  Choices,   \* the renewal methods it asks for
  MaxVersion \* bound: no update of a row is asked for at this version

ASSUME StoreAssumption ==
  /\ Watcher \notin Clients
  /\ Choices \subseteq RenewMethods
  /\ MaxVersion \in Nat
  /\ Untils \subseteq Nat

Procs == Clients \cup {Watcher}

VARIABLES
  orders,    \* acme_client_orders that renew a certificate: its id
  issued,    \* every material that exists: who it is for, who signed it
  uploaded,  \* history: the materials some request has uploaded
  silent,    \* history: materials whose expiry needs no (further) notice
  pc,        \* per process: the database call it is about to make
  reg,       \* per process: what it remembers from its earlier calls
  todo,      \* the rows watch_expiry read and has not handled yet
  reused,    \* history, per id: what still meant the row that had it before
  overtaken, \* history, per id: what still meant the content replaced since
  doubled    \* history: materials that two requests were storing at once

marks == <<reused, overtaken, doubled>>

vars == <<certs, versions, orders, issued, uploaded, silent, pc, reg, todo, marks>>

Origins == {"internal", "upload", "acme"}

\* What the fields and the signature of a certificate reveal: ca is the CA whose
\* key verifies it.
Attributes == [subject : Subjects, ca : CAs, origin : Origins, until : Untils]

Labels == {"idle", "create_insert", "import_check", "import_insert", "set_serial",
           "update_check", "update_replace", "acme_insert", "acme_reread", "acme_replace",
           "revoke_write", "delete_write", "purge_write",
           "scan", "renew_replace", "notify_reset"}

Reg == [id      : CertIds \cup {0},
        m       : Materials \cup {0},
        renew   : RenewMethods,
        version : Nat]

NoReg == [id |-> 0, m |-> 0, renew |-> "none", version |-> 0]

\* Every variable has its type.
TypeOK ==
  /\ TableTypeOK
  /\ orders \subseteq CertIds
  /\ DOMAIN issued \subseteq Materials
  /\ issued \in [DOMAIN issued -> Attributes]
  /\ uploaded \subseteq DOMAIN issued
  /\ silent \subseteq Materials
  /\ pc \in [Procs -> Labels]
  /\ reg \in [Procs -> Reg]
  /\ DOMAIN todo \subseteq CertIds
  /\ todo \in [DOMAIN todo -> Row]
  /\ reused \in [CertIds -> SUBSET Labels]
  /\ overtaken \in [CertIds -> SUBSET Labels]
  /\ doubled \subseteq Materials

Empty == [x \in {} |-> x]

Init ==
  /\ certs = Empty
  /\ versions = {}
  /\ orders = {}
  /\ issued = Empty
  /\ uploaded = {}
  /\ silent = {}
  /\ pc = [p \in Procs |-> "idle"]
  /\ reg = [p \in Procs |-> NoReg]
  /\ todo = Empty
  /\ reused = [c \in CertIds |-> {}]
  /\ overtaken = [c \in CertIds |-> {}]
  /\ doubled = {}

-----------------------------------------------------------------------------
\* Control of a process, and where certificates come from.

Goto(p, label, r) ==
  /\ pc' = [pc EXCEPT ![p] = label]
  /\ reg' = [reg EXCEPT ![p] = r]

Finish(p) == Goto(p, "idle", NoReg)

Starts(p, op) == pc[p] = "idle" /\ op \in Ops

\* A certificate comes into being: generated here, obtained from a public CA
\* or uploaded for the first time.
Mint(m, a) ==
  /\ m \in Materials
  /\ \A k \in DOMAIN issued : k < m
  /\ m = 1 \/ m - 1 \in DOMAIN issued
  /\ issued' = Put(issued, m, a)

\* Someone uploads material m: one never seen here, or any that exists.
Upload(m, a) ==
  /\ \/ a.origin = "upload" /\ Mint(m, a)
     \/ m \in DOMAIN issued /\ issued[m] = a /\ UNCHANGED issued
  /\ uploaded' = uploaded \cup {m}

\* renew_method `none' was asked for: no notice is due for m.
Chosen(m, rn) == silent' = IF rn = "none" THEN silent \cup {m} ELSE silent

\* The calls other handlers are about to make on row c, and the watcher's copy.
Remembering(p, c) ==
  {pc[q] : q \in {r \in Procs \ {p} : reg[r].id = c}}
    \cup (IF c \in DOMAIN todo THEN {"scan"} ELSE {})

\* Marks left by p: it inserts row c, it replaces the content of row c, it is
\* about to store a material that another request is about to store as well.
MarkInsert(p, c) ==
  /\ reused' = [reused EXCEPT ![c] = Remembering(p, c)]
  /\ overtaken' = [overtaken EXCEPT ![c] = {}]
  /\ UNCHANGED doubled

MarkReplace(p, c, guard) ==
  /\ overtaken' = IF c \in DOMAIN certs /\ MayReplace(guard, certs[c])
                  THEN [overtaken EXCEPT ![c] = @ \cup Remembering(p, c)]
                  ELSE overtaken
  /\ UNCHANGED <<reused, doubled>>

Storing == {"import_insert", "update_replace"}

MarkStore(m) ==
  /\ doubled' = IF \E q \in Procs : pc[q] \in Storing /\ reg[q].m = m
                THEN doubled \cup {m} ELSE doubled
  /\ UNCHANGED <<reused, overtaken>>

NewRow(m, ca, imported, acme, renew) ==
  [subject  |-> issued[m].subject,
   data     |-> m,
   hex      |-> Null,
   fp       |-> imported,
   ca       |-> ca,
   imported |-> imported,
   acme     |-> acme,
   revoked  |-> FALSE,
   version  |-> 1,
   renew    |-> renew]

-----------------------------------------------------------------------------
\* create_user_certificate: pick the CA and build, insert the row, then record
\* its serial.

CreateBegin(p) ==
  /\ Starts(p, "create")
  /\ \E m \in Materials, a \in Attributes, rn \in Choices :
       /\ a.origin = "internal"
       /\ Mint(m, a)
       /\ Goto(p, "create_insert", [NoReg EXCEPT !.m = m, !.renew = rn])
       /\ Chosen(m, rn)
  /\ UNCHANGED <<certs, versions, orders, uploaded, todo, marks>>

CreateInsert(p) ==
  /\ pc[p] = "create_insert"
  /\ \E c \in CertIds :
       /\ IsNextRowid(c)
       /\ InsertRow(c, NewRow(reg[p].m, issued[reg[p].m].ca, FALSE, FALSE, reg[p].renew))
       /\ MarkInsert(p, c)
       /\ Goto(p, "set_serial", [reg[p] EXCEPT !.id = c])
  /\ UNCHANGED <<orders, issued, uploaded, silent, todo>>

\* The last call of create_user_certificate and of import_certificate.
RecordSerial(p) ==
  /\ pc[p] = "set_serial"
  /\ SetCertSerial(reg[p].id, reg[p].m)
  /\ Finish(p)
  /\ UNCHANGED <<orders, issued, uploaded, silent, todo, marks>>

-----------------------------------------------------------------------------
\* import_certificate: refuse a leaf that is already stored, insert the row,
\* record its serial.

ImportBegin(p) ==
  /\ Starts(p, "import")
  /\ \E m \in Materials, a \in Attributes, rn \in Choices :
       /\ Upload(m, a)
       /\ Goto(p, "import_check", [NoReg EXCEPT !.m = m, !.renew = rn])
       /\ Chosen(m, rn)
  /\ UNCHANGED <<certs, versions, orders, todo, marks>>

\* Both lookups in one action: a content moves from the current row to the
\* history, the order in which the code looks.
ImportCheck(p) ==
  /\ pc[p] = "import_check"
  /\ IF HoldersOf(reg[p].m) = {}
     THEN Goto(p, "import_insert", reg[p]) /\ MarkStore(reg[p].m)
     ELSE Finish(p) /\ UNCHANGED marks
  /\ UNCHANGED <<certs, versions, orders, issued, uploaded, silent, todo>>

ImportInsert(p) ==
  /\ pc[p] = "import_insert"
  /\ \E c \in CertIds :
       /\ IsNextRowid(c)
       /\ InsertRow(c, NewRow(reg[p].m, issued[reg[p].m].ca, TRUE, FALSE, reg[p].renew))
       /\ MarkInsert(p, c)
       /\ Goto(p, "set_serial", [reg[p] EXCEPT !.id = c])
  /\ UNCHANGED <<orders, issued, uploaded, silent, todo>>

-----------------------------------------------------------------------------
\* update_certificate: check the upload against the row as read at the start,
\* refuse a leaf another certificate holds, replace.

\* Mutant of UpdateAllowed: no check of the CN.
UpdateAllowedAnyCn(r, a) == ~r.acme /\ r.imported /\ ~r.revoked

\* The checks on the row: what may be replaced, same CN.  A validity that is not
\* extended is refused unless a local admin asks for it, so any is possible.
UpdateAllowed(r, a) ==
  /\ ~r.acme /\ r.imported /\ ~r.revoked
  /\ a.subject = r.subject

\* Mutant of Rearmed: a row that is mute stays mute.
RearmedNever(r, sent) == IF sent \in RenewMethods THEN sent ELSE r.renew

\* The renewal method an update stores: the one sent, else the present one,
\* with `none' armed again.
Rearmed(r, sent) ==
  CASE sent \in RenewMethods -> sent
    [] sent = "unsent" /\ r.renew = "none" -> "notify"
    [] OTHER -> r.renew

UpdateBegin(p) ==
  /\ Starts(p, "update")
  /\ \E c \in DOMAIN certs, m \in Materials, a \in Attributes :
       /\ certs[c].version < MaxVersion
       /\ UpdateAllowed(certs[c], a)
       /\ Upload(m, a)
       /\ \E sent \in Choices \cup {"unsent"} :
            /\ Goto(p, "update_check",
                    [NoReg EXCEPT !.id = c, !.m = m, !.renew = Rearmed(certs[c], sent)])
            /\ Chosen(m, sent)
  /\ UNCHANGED <<certs, versions, orders, todo, marks>>

\* Mutant of UpdateCheck: any leaf may be stored.
UpdateCheckNothing(p) ==
  /\ pc[p] = "update_check"
  /\ Goto(p, "update_replace", reg[p]) /\ MarkStore(reg[p].m)
  /\ UNCHANGED <<certs, versions, orders, issued, uploaded, silent, todo>>

UpdateCheck(p) ==
  /\ pc[p] = "update_check"
  /\ IF HoldersOf(reg[p].m) \subseteq {reg[p].id}
     THEN Goto(p, "update_replace", reg[p]) /\ MarkStore(reg[p].m)
     ELSE Finish(p) /\ UNCHANGED marks
  /\ UNCHANGED <<certs, versions, orders, issued, uploaded, silent, todo>>

UpdateReplace(p) ==
  /\ pc[p] = "update_replace"
  /\ ReplaceCertificate(reg[p].id, reg[p].m, issued[reg[p].m].ca, reg[p].renew, "imported_manual")
  /\ MarkReplace(p, reg[p].id, "imported_manual")
  /\ Finish(p)
  /\ UNCHANGED <<orders, issued, uploaded, silent, todo>>

-----------------------------------------------------------------------------
\* issue_acme_client_order: the certificate comes from a public CA.  An order
\* without renews_cert_id inserts a row, one with it replaces the row's content.

\* Mutant of AcmeIssue: the new row is armed for automatic renewal.
AcmeIssueArmed(p) ==
  /\ Starts(p, "acme")
  /\ \E m \in Materials, a \in Attributes :
       /\ a.origin = "acme"
       /\ Mint(m, a)
       /\ Goto(p, "acme_insert", [NoReg EXCEPT !.m = m, !.renew = "renew"])
  /\ UNCHANGED <<certs, versions, orders, uploaded, silent, todo, marks>>

AcmeIssue(p) ==
  /\ Starts(p, "acme")
  /\ \E m \in Materials, a \in Attributes :
       /\ a.origin = "acme"
       /\ Mint(m, a)
       /\ Goto(p, "acme_insert", [NoReg EXCEPT !.m = m, !.renew = "notify"])
  /\ UNCHANGED <<certs, versions, orders, uploaded, silent, todo, marks>>

\* insert_acme_client_certificate: no ca_id, no serial_hex, no fingerprint.
AcmeInsert(p) ==
  /\ pc[p] = "acme_insert"
  /\ \E c \in CertIds :
       /\ IsNextRowid(c)
       /\ InsertRow(c, NewRow(reg[p].m, Null, FALSE, TRUE, reg[p].renew))
       /\ MarkInsert(p, c)
  /\ Finish(p)
  /\ UNCHANGED <<orders, issued, uploaded, silent, todo>>

\* create_acme_client_order with renews_cert_id.  The order is for any domain.
AcmeOrder(p) ==
  /\ Starts(p, "acme")
  /\ \E c \in DOMAIN certs : certs[c].acme /\ orders' = orders \cup {c}
  /\ UNCHANGED <<certs, versions, issued, uploaded, silent, pc, reg, todo, marks>>

AcmeRenew(p) ==
  /\ Starts(p, "acme")
  /\ \E c \in orders, m \in Materials, a \in Attributes :
       /\ a.origin = "acme"
       /\ Mint(m, a)
       /\ Goto(p, "acme_reread", [NoReg EXCEPT !.id = c, !.m = m])
  /\ UNCHANGED <<certs, versions, orders, uploaded, silent, todo, marks>>

\* A row that is gone, or whose validity is not extended, fails the order.
AcmeReread(p) ==
  /\ pc[p] = "acme_reread"
  /\ IF reg[p].id \in DOMAIN certs
        /\ issued[reg[p].m].until > issued[certs[reg[p].id].data].until
     THEN Goto(p, "acme_replace", reg[p])
     ELSE Finish(p)
  /\ UNCHANGED <<certs, versions, orders, issued, uploaded, silent, todo, marks>>

\* The replacement and, when it went through, the order's status `valid'.
AcmeReplace(p) ==
  /\ pc[p] = "acme_replace"
  /\ LET c == reg[p].id IN
       /\ ReplaceCertificate(c, reg[p].m, Null, "keep", "acme_renewal")
       /\ orders' = IF c \in DOMAIN certs /\ MayReplace("acme_renewal", certs[c])
                    THEN orders \ {c} ELSE orders
  /\ MarkReplace(p, reg[p].id, "acme_renewal")
  /\ Finish(p)
  /\ UNCHANGED <<issued, uploaded, silent, todo>>

\* delete_acme_client_provider: its orders go, its certificates stay.
DeleteProvider(p) ==
  /\ Starts(p, "provider")
  /\ ForgetProvider
  /\ orders' = {}
  /\ UNCHANGED <<issued, uploaded, silent, pc, reg, todo, marks>>

-----------------------------------------------------------------------------
\* revoke_cert_and_update_crl, delete_user_cert and delete_certificate_version,
\* each a read that decides and a write by id.

RevokeBegin(p) ==
  /\ Starts(p, "revoke")
  /\ \E c \in DOMAIN certs :
       /\ ~certs[c].revoked
       /\ certs[c].ca # Null
       /\ Goto(p, "revoke_write", [NoReg EXCEPT !.id = c])
  /\ UNCHANGED <<certs, versions, orders, issued, uploaded, silent, todo, marks>>

RevokeWrite(p) ==
  /\ pc[p] = "revoke_write"
  /\ RevokeRow(reg[p].id)
  /\ Finish(p)
  /\ UNCHANGED <<orders, issued, uploaded, silent, todo, marks>>

DeleteBegin(p) ==
  /\ Starts(p, "delete")
  /\ \E c \in DOMAIN certs : Goto(p, "delete_write", [NoReg EXCEPT !.id = c])
  /\ UNCHANGED <<certs, versions, orders, issued, uploaded, silent, todo, marks>>

DeleteWrite(p) ==
  /\ pc[p] = "delete_write"
  /\ DeleteRow(reg[p].id)
  /\ Finish(p)
  /\ UNCHANGED <<orders, issued, uploaded, silent, todo, marks>>

\* The history of a revoked certificate, and the current version, stay.
MayPurge(r, n) == n # r.version /\ ~r.revoked

PurgeBegin(p) ==
  /\ Starts(p, "purge")
  /\ \E c \in DOMAIN certs, v \in versions :
       /\ v.cert = c
       /\ MayPurge(certs[c], v.version)
       /\ Goto(p, "purge_write", [NoReg EXCEPT !.id = c, !.version = v.version])
  /\ UNCHANGED <<certs, versions, orders, issued, uploaded, silent, todo, marks>>

PurgeWrite(p) ==
  /\ pc[p] = "purge_write"
  /\ DeleteVersion(reg[p].id, reg[p].version)
  /\ Finish(p)
  /\ UNCHANGED <<orders, issued, uploaded, silent, todo, marks>>

-----------------------------------------------------------------------------
\* watch_expiry: read the rows that are not revoked, then handle them one by
\* one from that copy.  Rows are taken in any order; whether one is due is not
\* known here.

WatchScan ==
  /\ Starts(Watcher, "watch")
  /\ todo' = [c \in {d \in DOMAIN certs : ~certs[d].revoked} |-> certs[c]]
  /\ Goto(Watcher, "scan", NoReg)
  /\ UNCHANGED <<certs, versions, orders, issued, uploaded, silent, marks>>

Handled(c) == todo' = [d \in DOMAIN todo \ {c} |-> todo[d]]

\* Internally issued rows renew themselves; an ACME row would too, but no
\* request gives one that method.
RenewsItself(r) == r.renew = "renew" /\ ~r.imported /\ ~r.acme

OneShotNotice(r) == r.renew = "notify" \/ (r.imported /\ r.renew # "none")

\* Not due, nothing to do, or handle_expiry failed.
WatchSkip(c) ==
  /\ pc[Watcher] = "scan"
  /\ c \in DOMAIN todo
  /\ Handled(c)
  /\ UNCHANGED <<certs, versions, orders, issued, uploaded, silent, pc, reg, marks>>

\* handle_expiry, Renew: build from the copy, signed by the latest CA ...
WatchRenew(c) ==
  /\ pc[Watcher] = "scan"
  /\ c \in DOMAIN todo
  /\ RenewsItself(todo[c])
  /\ \E m \in Materials, a \in Attributes :
       /\ a.origin = "internal" /\ a.subject = todo[c].subject
       /\ Mint(m, a)
       /\ Goto(Watcher, "renew_replace", [NoReg EXCEPT !.id = c, !.m = m])
  /\ Handled(c)
  /\ UNCHANGED <<certs, versions, orders, uploaded, silent, marks>>

\* ... and replace the row's content, issuer included.
WatchRenewReplace ==
  /\ pc[Watcher] = "renew_replace"
  /\ LET r == reg[Watcher] IN
       ReplaceCertificate(r.id, r.m, issued[r.m].ca, "keep", "renewal")
  /\ MarkReplace(Watcher, reg[Watcher].id, "renewal")
  /\ Goto(Watcher, "scan", NoReg)
  /\ UNCHANGED <<orders, issued, uploaded, silent, todo>>

\* A mail goes out, then renew_method is reset so that it goes out once.
WatchNotify(c) ==
  /\ pc[Watcher] = "scan"
  /\ c \in DOMAIN todo
  /\ OneShotNotice(todo[c])
  /\ silent' = silent \cup {todo[c].data}
  /\ Goto(Watcher, "notify_reset", [NoReg EXCEPT !.id = c])
  /\ Handled(c)
  /\ UNCHANGED <<certs, versions, orders, issued, uploaded, marks>>

WatchNotifyReset ==
  /\ pc[Watcher] = "notify_reset"
  /\ ClearRenewMethod(reg[Watcher].id)
  /\ Goto(Watcher, "scan", NoReg)
  /\ UNCHANGED <<orders, issued, uploaded, silent, todo, marks>>

WatchDone ==
  /\ pc[Watcher] = "scan"
  /\ DOMAIN todo = {}
  /\ Finish(Watcher)
  /\ UNCHANGED <<certs, versions, orders, issued, uploaded, silent, todo, marks>>

-----------------------------------------------------------------------------
\* The server stops at any point and starts again.
Restart ==
  /\ "restart" \in Ops
  /\ Backfill
  /\ pc' = [p \in Procs |-> "idle"]
  /\ reg' = [p \in Procs |-> NoReg]
  /\ todo' = Empty
  /\ UNCHANGED <<orders, issued, uploaded, silent, marks>>

Handler(p) ==
  \/ CreateBegin(p) \/ CreateInsert(p) \/ RecordSerial(p)
  \/ ImportBegin(p) \/ ImportCheck(p) \/ ImportInsert(p)
  \/ UpdateBegin(p) \/ UpdateCheck(p) \/ UpdateReplace(p)
  \/ AcmeIssue(p) \/ AcmeInsert(p)
  \/ AcmeOrder(p) \/ AcmeRenew(p) \/ AcmeReread(p) \/ AcmeReplace(p)
  \/ DeleteProvider(p)
  \/ RevokeBegin(p) \/ RevokeWrite(p)
  \/ DeleteBegin(p) \/ DeleteWrite(p)
  \/ PurgeBegin(p) \/ PurgeWrite(p)

Watch ==
  \/ WatchScan \/ WatchDone
  \/ \E c \in CertIds : WatchSkip(c) \/ WatchRenew(c) \/ WatchNotify(c)
  \/ WatchRenewReplace \/ WatchNotifyReset

Next == (\E p \in Clients : Handler(p)) \/ Watch \/ Restart

Spec == Init /\ [][Next]_vars

-----------------------------------------------------------------------------
\* What holds whatever the interleaving.

\* replace_certificate numbers versions without gaps or clashes: a history row
\* belongs to a certificate that exists, is older than its current content, and
\* is the only one with its number (the UNIQUE(cert_id, version) never fires).
HistoryBelowCurrent ==
  \A v \in versions :
    /\ v.cert \in DOMAIN certs
    /\ v.version < certs[v.cert].version
    /\ \A w \in versions : w.cert = v.cert /\ w.version = v.version => w = v

\* Wherever a ca_id is stored, next to the current content or to a superseded
\* one, it is the CA that signed THAT content: renewals that change the issuer
\* and replacements by an upload signed elsewhere keep the two together.
CaTruthful ==
  /\ \A c \in DOMAIN certs : certs[c].ca \in {Null, issued[certs[c].data].ca}
  /\ \A v \in versions : v.ca \in {Null, issued[v.data].ca}

\* The contents certificate c carries or has carried.
Held(c) == {certs[c].data} \cup {v.data : v \in {w \in versions : w.cert = c}}

\* The guards of replace_certificate keep the sources apart whoever loses a
\* race: an imported row carries what was uploaded and never what the internal
\* CA made in its place, an ACME row what a public CA issued.
OriginSeparated ==
  \A c \in DOMAIN certs :
    /\ certs[c].imported => Held(c) \subseteq uploaded
    /\ certs[c].acme => \A m \in Held(c) : issued[m].origin = "acme"

Entries(c) ==
  {[version |-> certs[c].version, content |-> <<certs[c].data, certs[c].ca>>]}
    \cup {[version |-> v.version, content |-> <<v.data, v.ca>>] :
            v \in {w \in versions : w.cert = c}}

Ledger == INSTANCE CertLedger WITH
  Ids <- CertIds,
  Contents <- Materials \X (CAs \cup {Null}),
  live <- DOMAIN certs,
  ledger <- [c \in DOMAIN certs |-> Entries(c)],
  revoked <- {c \in DOMAIN certs : certs[c].revoked}

\* The two tables and all the handlers implement the append-only ledger: no
\* interleaving overwrites a content, replaces one of a revoked certificate,
\* un-revokes, or purges the current version.
ImplementsLedger == Ledger!LSpec

-----------------------------------------------------------------------------
\* What a handler breaks by writing to a row that is no longer the one it read.
\* Each property holds for every row, however the handlers interleave, except
\* for the rows on which the mark shows the named call to have gone astray.

\* set_cert_serial is a call of its own, after the insert.
SerialAstray(c) == "set_serial" \in reused[c] \cup overtaken[c]

UpdateAstray(c) == reused[c] \cap {"update_check", "update_replace"} # {}

RenewalAstray(c) == reused[c] \cap {"scan", "renew_replace"} # {}

NoticeAstray(c) ==
  RenewalAstray(c) \/ (reused[c] \cup overtaken[c]) \cap {"scan", "notify_reset"} # {}

\* Deleting an ACME provider strips its certificates of what marks them, and the
\* guards now take them for internal ones; still the internal CA never replaces
\* their content, because no request arms them for renewal.  The exception: the
\* watcher still had the row deleted before under the same id.
PublicMaterialKept ==
  \A c \in DOMAIN certs :
    ~certs[c].imported /\ ~RenewalAstray(c) =>
      \A m \in Held(c) : issued[m].origin = IF certs[c].ca = Null THEN "acme" ELSE "internal"

\* /certificates/validate finds a serial only if serial_hex describes the
\* content stored beside it: it does, unless the row was replaced or its id
\* reused before the request that inserted it had recorded the serial.
SerialColumnTruthful ==
  /\ \A c \in DOMAIN certs : SerialAstray(c) \/ certs[c].hex \in {certs[c].data, Null}
  /\ \A v \in versions : SerialAstray(v.cert) \/ v.hex \in {v.data, Null}

\* A certificate handed out earlier does not become unknown to validate once it
\* has been replaced.  (An ACME row, ca_id NULL, is inserted without its serial.)
KnownAfterRotation ==
  \A v \in versions :
    SerialAstray(v.cert) \/ v.ca = Null \/ CertStatusBySerial(v.data) # {"unknown"}

\* An imported certificate only ever holds leaves with its own CN, unless an
\* update had been checked against the row that had the id before.
SubjectMatches ==
  \A c \in DOMAIN certs :
    certs[c].imported /\ ~UpdateAstray(c) =>
      \A m \in Held(c) : issued[m].subject = certs[c].subject

\* No leaf is held by two imported certificates, as current or as superseded
\* content, unless two requests were storing it at the same time.
ImportedLeavesDistinct ==
  \A c, d \in DOMAIN certs :
    certs[c].imported /\ certs[d].imported /\ c # d => Held(c) \cap Held(d) \subseteq doubled

\* A row is mute only if nobody wants to hear of its content: `none' was asked
\* for, or the notice about this very content has gone out.  The exception: the
\* row was replaced, or its id reused, while the watcher held the earlier one.
\* (ACME rows, ca_id NULL, renewed in place after their one notice, stay mute.)
NoLostNotice ==
  \A c \in DOMAIN certs :
    certs[c].renew = "none" /\ certs[c].ca # Null /\ ~NoticeAstray(c)
      => certs[c].data \in silent

\* delete_certificate_version: the history of a revoked certificate is what keeps
\* its superseded serials revoked; while the certificate stays revoked, no history
\* row goes.  (Two requests can break this: the check precedes the delete.)
RevokedHistoryKept ==
  [][\A v \in versions :
       v.cert \in DOMAIN certs' /\ certs[v.cert].revoked /\ certs'[v.cert].revoked
         => v \in versions']_vars

=============================================================================
