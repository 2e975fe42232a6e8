------------------------------ MODULE Revocation -----------------------------
(***************************************************************************)
(* Revocation and the publication of CRLs (revoke_cert_and_update_crl,     *)
(* download_crl, create_crl_params, create_and_save_crl, delete_ca in      *)
(* api.rs and certs/tls_cert.rs; revoke_cert in acme/routes.rs).           *)
(*                                                                         *)
(* A CRL is a file per CA id, rebuilt as a whole from the database: the    *)
(* revoked rows of the CA, then the serials its revoked certificates wore  *)
(* before.  One action is one database call or one file write; requests    *)
(* interleave between them and a restart may cut them short.               *)
(*                                                                         *)
(* Certificates come, are renewed and go in single steps here (CertStore   *)
(* has their details).  CAs are TLS CAs with a private key; an SSH CA goes *)
(* through the same steps with a KRL, without history.                     *)
(***************************************************************************)
EXTENDS CertTable

CONSTANTS
  Clients,    \* concurrent requests
  AnySubject, \* the owner and CN of the certificates
  MaxNumber,  \* bound: CRLs built for one CA
  MaxGen      \* bound: CAs created under one id

ASSUME RevocationAssumption ==
  /\ CAs \subseteq Nat
  /\ AnySubject \in Subjects
  /\ MaxNumber \in Nat
  /\ MaxGen \in Nat

VARIABLES
  signer,    \* every material that exists: the CA id it was signed under
  number,    \* ca_certificates: the crl_number of every CA that exists
  gen,       \* history: how many CAs have been created under an id
  file,      \* the CRL files: per CA id
  dead,      \* history: the materials some revocation covers
  promised,  \* history: materials whose revocation was acknowledged
  pc, reg,   \* per request: the next call, and what it remembers
  behind,    \* history: requests since whose reading a revocation saved its CRL
  crossed    \* history: CAs whose CRL file a request that was behind has written

order == <<behind, crossed>>

vars == <<certs, versions, signer, number, gen, file, dead, promised, pc, reg, order>>

Labels == {"idle", "read_ca", "mark", "rows", "history", "save", "bump",
           "bump_first", "save_last", "acme_mark", "delete_ca"}

Reg == [cert    : CertIds \cup {0},
        ca      : CAs \cup {Null},
        number  : Nat,
        gen     : Nat,
        serials : SUBSET Materials,
        covers  : SUBSET Materials,  \* history: what its revocation condemned
        revokes : BOOLEAN]           \* a revocation, not a download

NoReg == [cert |-> 0, ca |-> Null, number |-> 0, gen |-> 0, serials |-> {}, covers |-> {},
          revokes |-> FALSE]

Crl == [number : Nat, gen : Nat, serials : SUBSET Materials]

\* Every variable has its type.
TypeOK ==
  /\ TableTypeOK
  /\ DOMAIN signer \subseteq Materials
  /\ signer \in [DOMAIN signer -> CAs]
  /\ DOMAIN number \subseteq CAs
  /\ number \in [DOMAIN number -> Nat]
  /\ gen \in [CAs -> Nat]
  /\ DOMAIN file \subseteq CAs
  /\ file \in [DOMAIN file -> Crl]
  /\ dead \subseteq Materials
  /\ promised \subseteq Materials
  /\ pc \in [Clients -> Labels]
  /\ reg \in [Clients -> Reg]
  /\ behind \subseteq Clients
  /\ crossed \subseteq CAs

Empty == [x \in {} |-> x]

Init ==
  /\ certs = Empty
  /\ versions = {}
  /\ signer = Empty
  /\ number = Empty
  /\ gen = [ca \in CAs |-> 0]
  /\ file = Empty
  /\ dead = {}
  /\ promised = {}
  /\ pc = [p \in Clients |-> "idle"]
  /\ reg = [p \in Clients |-> NoReg]
  /\ behind = {}
  /\ crossed = {}

Goto(p, label, r) ==
  /\ pc' = [pc EXCEPT ![p] = label]
  /\ reg' = [reg EXCEPT ![p] = r]

Finish(p) == Goto(p, "idle", NoReg)

-----------------------------------------------------------------------------
\* The world around: CAs and certificates.

\* insert_ca: the id of a deleted last CA is handed out again.
CreateCa(ca) ==
  /\ \A d \in DOMAIN number : d < ca
  /\ \A d \in CAs : d < ca => d \in DOMAIN number
  /\ gen[ca] < MaxGen
  /\ gen' = [gen EXCEPT ![ca] = @ + 1]
  /\ number' = Put(number, ca, 0)
  /\ UNCHANGED <<certs, versions, signer, file, dead, promised, pc, reg, order>>

Sign(m, ca) ==
  /\ \A k \in DOMAIN signer : k < m
  /\ m = 1 \/ m - 1 \in DOMAIN signer
  /\ signer' = Put(signer, m, ca)

Issue(c, m, ca) ==
  /\ IsNextRowid(c)
  /\ ca \in DOMAIN number
  /\ Sign(m, ca)
  /\ InsertRow(c, [subject |-> AnySubject, data |-> m, hex |-> m, fp |-> TRUE, ca |-> ca,
                   imported |-> FALSE, acme |-> FALSE, revoked |-> FALSE,
                   version |-> 1, renew |-> "renew"])
  /\ UNCHANGED <<number, gen, file, dead, promised, pc, reg, order>>

\* A renewal, under any CA that exists.
Renew(c, m, ca) ==
  /\ c \in DOMAIN certs
  /\ MayReplace("renewal", certs[c])
  /\ ca \in DOMAIN number
  /\ Sign(m, ca)
  /\ ReplaceCertificate(c, m, ca, "keep", "renewal")
  /\ UNCHANGED <<number, gen, file, dead, promised, pc, reg, order>>

DeleteCert(c) ==
  /\ c \in DOMAIN certs
  /\ DeleteRow(c)
  /\ UNCHANGED <<signer, number, gen, file, dead, promised, pc, reg, order>>

-----------------------------------------------------------------------------
\* revoke_cert_and_update_crl.

Worn(c) == {certs[c].data} \cup {v.data : v \in {w \in versions : w.cert = c}}

\* What revoking row c condemns.
Covered(c) == IF c \in DOMAIN certs THEN Worn(c) ELSE {}

\* The row is read ...
RevokeBegin(p) ==
  /\ pc[p] = "idle"
  /\ \E c \in DOMAIN certs :
       /\ ~certs[c].revoked
       /\ certs[c].ca # Null
       /\ Goto(p, "read_ca", [NoReg EXCEPT !.cert = c, !.ca = certs[c].ca, !.revokes = TRUE])
  /\ UNCHANGED <<certs, versions, signer, number, gen, file, dead, promised, order>>

\* ... then its CA, whose crl_number is used much later.  (A request that would
\* exceed the bound is turned away like one whose CA is gone.)
ReadCa(p) ==
  /\ pc[p] = "read_ca"
  /\ LET ca == reg[p].ca IN
       IF ca \in DOMAIN number /\ number[ca] < MaxNumber
       THEN Goto(p, "mark", [reg[p] EXCEPT !.number = number[ca], !.gen = gen[ca]])
       ELSE Finish(p)
  /\ UNCHANGED <<certs, versions, signer, number, gen, file, dead, promised, order>>

\* revoke_user_cert, from here on the certificate counts as revoked.
Mark(p) ==
  /\ pc[p] = "mark"
  /\ RevokeRow(reg[p].cert)
  /\ dead' = dead \cup Covered(reg[p].cert)
  /\ Goto(p, "rows", [reg[p] EXCEPT !.covers = Covered(reg[p].cert)])
  /\ UNCHANGED <<signer, number, gen, file, promised, order>>

\* Mutant of CrlRows: every row of the CA is listed.
CrlRowsAll(p) ==
  /\ pc[p] = "rows"
  /\ Goto(p, "history",
          [reg[p] EXCEPT !.serials = {certs[c].data : c \in {d \in DOMAIN certs : certs[d].ca = reg[p].ca}}])
  /\ UNCHANGED <<certs, versions, signer, number, gen, file, dead, promised, order>>

\* create_crl_params: the revoked rows of the CA, with the serials of their blobs ...
CrlRows(p) ==
  /\ pc[p] = "rows"
  /\ Goto(p, "history", [reg[p] EXCEPT !.serials = {certs[c].data : c \in RevokedRows(reg[p].ca)}])
  /\ UNCHANGED <<certs, versions, signer, number, gen, file, dead, promised, order>>

\* Mutant of CrlHistory: superseded serials are forgotten.
CrlHistoryNone(p) ==
  /\ pc[p] = "history"
  /\ Goto(p, IF reg[p].revokes THEN "save" ELSE "bump_first", reg[p])
  /\ UNCHANGED <<certs, versions, signer, number, gen, file, dead, promised, order>>

\* ... and the superseded serials, as recorded.
CrlHistory(p) ==
  /\ pc[p] = "history"
  /\ Goto(p, IF reg[p].revokes THEN "save" ELSE "bump_first",
          [reg[p] EXCEPT !.serials = @ \cup RevokedHistorySerials(reg[p].ca)])
  /\ UNCHANGED <<certs, versions, signer, number, gen, file, dead, promised, order>>

\* create_crl: signed with the key read at the start, numbered after the number
\* read at the start.
SignedCrl(r) == [number |-> r.number + 1, gen |-> r.gen, serials |-> r.serials]

Overwrite(p) ==
  /\ file' = Put(file, reg[p].ca, SignedCrl(reg[p]))
  /\ crossed' = IF p \in behind THEN crossed \cup {reg[p].ca} ELSE crossed \ {reg[p].ca}

\* The requests that have read, and not yet written, a CRL of this CA.
Building(ca) ==
  {q \in Clients : pc[q] \in {"history", "save", "bump_first", "save_last"} /\ reg[q].ca = ca}

\* create_and_save_crl overwrites the file ...
SaveCrl(p) ==
  /\ pc[p] = "save"
  /\ Overwrite(p)
  /\ behind' = (behind \cup Building(reg[p].ca)) \ {p}
  /\ Goto(p, "bump", reg[p])
  /\ UNCHANGED <<certs, versions, signer, number, gen, dead, promised>>

WriteNumber(ca, n) == number' = IF ca \in DOMAIN number THEN [number EXCEPT ![ca] = n] ELSE number

\* ... increase_ca_crl_number writes the absolute number, and the caller is told.
BumpNumber(p) ==
  /\ pc[p] = "bump"
  /\ WriteNumber(reg[p].ca, reg[p].number + 1)
  /\ promised' = promised \cup {m \in reg[p].covers : signer[m] = reg[p].ca}
  /\ Finish(p)
  /\ UNCHANGED <<certs, versions, signer, gen, file, dead, order>>

-----------------------------------------------------------------------------
\* download_crl: the file as it is, or a first one.  Here the number is written
\* before the file.

DownloadBegin(p) ==
  /\ pc[p] = "idle"
  /\ \E ca \in DOMAIN number \ DOMAIN file :
       /\ number[ca] < MaxNumber
       /\ Goto(p, "rows", [NoReg EXCEPT !.ca = ca, !.number = number[ca], !.gen = gen[ca]])
  /\ UNCHANGED <<certs, versions, signer, number, gen, file, dead, promised, order>>

BumpFirst(p) ==
  /\ pc[p] = "bump_first"
  /\ WriteNumber(reg[p].ca, reg[p].number + 1)
  /\ Goto(p, "save_last", reg[p])
  /\ UNCHANGED <<certs, versions, signer, gen, file, dead, promised, order>>

SaveLast(p) ==
  /\ pc[p] = "save_last"
  /\ Overwrite(p)
  /\ behind' = behind \ {p}
  /\ Finish(p)
  /\ UNCHANGED <<certs, versions, signer, number, gen, dead, promised>>

-----------------------------------------------------------------------------
\* revoke_cert of the ACME server: find the row by serial, mark it.  No CRL is
\* built.

AcmeRevokeBegin(p) ==
  /\ pc[p] = "idle"
  /\ \E c \in DOMAIN certs :
       /\ certs[c].hex # Null
       /\ Goto(p, "acme_mark", [NoReg EXCEPT !.cert = c])
  /\ UNCHANGED <<certs, versions, signer, number, gen, file, dead, promised, order>>

AcmeMark(p) ==
  /\ pc[p] = "acme_mark"
  /\ RevokeRow(reg[p].cert)
  /\ dead' = dead \cup Covered(reg[p].cert)
  /\ Finish(p)
  /\ UNCHANGED <<signer, number, gen, file, promised, order>>

-----------------------------------------------------------------------------
\* delete_ca: refused while rows carry the CA; the delete cascades.

RowsOf(ca) == {c \in DOMAIN certs : certs[c].ca = ca}

DeleteCaBegin(p) ==
  /\ pc[p] = "idle"
  /\ \E ca \in DOMAIN number :
       /\ RowsOf(ca) = {}
       /\ Goto(p, "delete_ca", [NoReg EXCEPT !.ca = ca])
  /\ UNCHANGED <<certs, versions, signer, number, gen, file, dead, promised, order>>

\* The CRL file of the CA stays where it is.
DeleteCa(p) ==
  /\ pc[p] = "delete_ca"
  /\ LET gone == RowsOf(reg[p].ca) IN
       /\ number' = [ca \in DOMAIN number \ {reg[p].ca} |-> number[ca]]
       /\ certs' = [c \in DOMAIN certs \ gone |-> certs[c]]
       /\ versions' = {v \in versions : v.cert \notin gone}
  /\ Finish(p)
  /\ UNCHANGED <<signer, gen, file, dead, promised, order>>

\* The server stops at any point and starts again.
Restart ==
  /\ pc' = [p \in Clients |-> "idle"]
  /\ reg' = [p \in Clients |-> NoReg]
  /\ behind' = {}
  /\ UNCHANGED <<certs, versions, signer, number, gen, file, dead, promised, crossed>>

Request(p) ==
  \/ RevokeBegin(p) \/ ReadCa(p) \/ Mark(p) \/ CrlRows(p) \/ CrlHistory(p)
  \/ SaveCrl(p) \/ BumpNumber(p)
  \/ DownloadBegin(p) \/ BumpFirst(p) \/ SaveLast(p)
  \/ AcmeRevokeBegin(p) \/ AcmeMark(p)
  \/ DeleteCaBegin(p) \/ DeleteCa(p)

World ==
  \/ \E ca \in CAs : CreateCa(ca)
  \/ \E c \in CertIds, m \in Materials, ca \in CAs : Issue(c, m, ca) \/ Renew(c, m, ca)
  \/ \E c \in CertIds : DeleteCert(c)

Next == (\E p \in Clients : Request(p)) \/ World \/ Restart

Spec == Init /\ [][Next]_vars

-----------------------------------------------------------------------------
\* A CRL condemns only what was revoked: every serial in the file of a CA was
\* signed under it and belongs to a certificate that has been revoked, although
\* rows and history are read in two calls and renewals run in between.
CrlSound ==
  \A ca \in DOMAIN file : \A s \in file[ca].serials : s \in dead /\ signer[s] = ca

\* Once a revocation has been acknowledged, the CRL of the CA it went to lists
\* the certificate's serials of that CA, superseded ones included, and every CRL
\* written later still does, as long as the certificate is not deleted.  The
\* exception: the file is the work of a request that had read the tables before
\* another revocation saved its own CRL; the next build makes up for it.
PublishedStays ==
  \A c \in DOMAIN certs :
    certs[c].revoked =>
      \A m \in Worn(c) \cap promised :
        \/ signer[m] \in crossed
        \/ signer[m] \in DOMAIN file /\ m \in file[signer[m]].serials

\* Every serial an acknowledged revocation covers is on the CRL of the CA that
\* signed it, if that CA has a CRL.
SupersededSerialsPublished ==
  \A c \in DOMAIN certs :
    certs[c].revoked /\ Worn(c) \cap promised # {} =>
      \A m \in Worn(c) : signer[m] \in DOMAIN file => m \in file[signer[m]].serials

=============================================================================
