------------------------------ MODULE CertTable ------------------------------
(***************************************************************************)
(* The two tables certificates live in, and the database calls on them     *)
(* (backend/src/db.rs).  user_certificates holds one row per certificate,  *)
(* the CURRENT content; certificate_versions holds the superseded          *)
(* contents.  Every operator here is one db_do! call: the connection pool  *)
(* has a single connection, so a call is atomic and calls interleave.      *)
(*                                                                         *)
(* Content (key, leaf, PKCS#12 bytes) is abstracted to a MATERIAL, a       *)
(* number handed out in order of creation; a material stands for its       *)
(* serial number and its fingerprint, which it determines.                 *)
(***************************************************************************)
EXTENDS Naturals

CONSTANTS
  MaxCertId,    \* bound: rowids 1..MaxCertId are available
  MaxMaterial,  \* bound: at most this many certificates ever exist
  Subjects,     \* common names (with their owner)
  CAs,          \* ids of certificate authorities
  Null          \* the NULL of a column

ASSUME TableAssumption ==
  /\ MaxCertId \in Nat
  /\ MaxMaterial \in Nat
  /\ Null \notin CAs
  /\ Null \notin Nat

VARIABLES
  certs,     \* user_certificates: rowid -> row, the domain is the set of rows
  versions   \* certificate_versions: a set of superseded contents

CertIds == 1..MaxCertId
Materials == 1..MaxMaterial
RenewMethods == {"none", "notify", "renew"}

\* A row of user_certificates.  `data' is what the blob holds.  The serial_hex
\* and fingerprint columns are derived from it but not always written with it:
\* `hex' is the material serial_hex describes, `fp' whether the fingerprint is
\* recorded (when it is, it is that of the blob).
Row == [subject  : Subjects,
        data     : Materials,
        hex      : Materials \cup {Null},
        fp       : BOOLEAN,
        ca       : CAs \cup {Null},
        imported : BOOLEAN,
        acme     : BOOLEAN,        \* acme_provider_id IS NOT NULL
        revoked  : BOOLEAN,        \* revoked_at IS NOT NULL
        version  : Nat,
        renew    : RenewMethods]

\* A row of certificate_versions.
VersionRow == [cert    : CertIds,
               version : Nat,
               data    : Materials,
               hex     : Materials \cup {Null},
               fp      : BOOLEAN,
               ca      : CAs \cup {Null}]

TableTypeOK ==
  /\ DOMAIN certs \subseteq CertIds
  /\ certs \in [DOMAIN certs -> Row]
  /\ versions \subseteq VersionRow

-----------------------------------------------------------------------------
\* Reads.

\* The rowid SQLite gives the next row: one more than the largest in use
\* (INTEGER PRIMARY KEY without AUTOINCREMENT), so the id of a deleted last
\* row is handed out again.
IsNextRowid(c) ==
  /\ c \in CertIds
  /\ \A d \in DOMAIN certs : d < c
  /\ c = 1 \/ c - 1 \in DOMAIN certs

\* get_user_certs filtered by ca_id and revoked_at IS NOT NULL.
RevokedRows(ca) == {c \in DOMAIN certs : certs[c].revoked /\ certs[c].ca = ca}

\* get_revoked_history_serials_for_ca: a version counts for the CA that signed
\* the VERSION, its revocation is that of the current row, and a version
\* without a recorded serial is left out.
RevokedHistorySerials(ca) ==
  {v.hex : v \in {w \in versions : /\ w.ca = ca
                                   /\ w.cert \in DOMAIN certs
                                   /\ certs[w.cert].revoked
                                   /\ w.hex # Null}}

\* get_cert_status_by_serial_hex followed by compute_cert_status, without the
\* validity window: the current rows first, then the history, whose revocation
\* is read from the current row.
CertStatusBySerial(s) ==
  LET current == {c \in DOMAIN certs : certs[c].hex = s}
      history == {v \in versions : v.hex = s /\ v.cert \in DOMAIN certs}
  IN  IF current # {} THEN {IF certs[c].revoked THEN "revoked" ELSE "good" : c \in current}
      ELSE IF history # {} THEN {IF certs[v.cert].revoked THEN "revoked" ELSE "good" : v \in history}
      ELSE {"unknown"}

\* find_cert_by_fingerprint and find_cert_version_by_fingerprint: the ids of
\* the certificates whose current or superseded content is known to be material
\* m.  A fingerprint that was not recorded is not found.
HoldersOf(m) == {c \in DOMAIN certs : certs[c].fp /\ certs[c].data = m}
                  \cup {v.cert : v \in {w \in versions : w.fp /\ w.data = m}}

-----------------------------------------------------------------------------
\* Writes.  Each leaves the tables as the SQL statement does; a statement whose
\* WHERE selects nothing changes nothing.

Put(f, x, r) == [y \in DOMAIN f \cup {x} |-> IF y = x THEN r ELSE f[y]]

\* insert_user_cert / insert_acme_client_certificate (the id is IsNextRowid).
InsertRow(c, r) ==
  /\ certs' = Put(certs, c, r)
  /\ UNCHANGED versions

\* Mutant of DeleteRow: the foreign keys are not enforced.
DeleteRowOnly(c) ==
  /\ certs' = [d \in DOMAIN certs \ {c} |-> certs[d]]
  /\ UNCHANGED versions

\* delete_user_cert: ON DELETE CASCADE takes the history with the row.
DeleteRow(c) ==
  /\ certs' = [d \in DOMAIN certs \ {c} |-> certs[d]]
  /\ versions' = {v \in versions : v.cert # c}

\* delete_certificate_version.
DeleteVersion(c, n) ==
  /\ versions' = {v \in versions : ~(v.cert = c /\ v.version = n)}
  /\ UNCHANGED certs

\* UPDATE user_certificates SET <one column> WHERE id = c.
UpdateRow(c, r) ==
  /\ certs' = IF c \in DOMAIN certs THEN [certs EXCEPT ![c] = r] ELSE certs
  /\ UNCHANGED versions

\* revoke_user_cert.
RevokeRow(c) == UpdateRow(c, [certs[c] EXCEPT !.revoked = TRUE])

\* set_cert_serial.
SetCertSerial(c, m) == UpdateRow(c, [certs[c] EXCEPT !.hex = m])

\* update_cert_renew_method(c, None).
ClearRenewMethod(c) == UpdateRow(c, [certs[c] EXCEPT !.renew = "none"])

\* Mutants of the guards: a revoked row may be replaced; the internal CA may
\* replace an imported row.
ImportedManualGuardRevoked(r) == r.imported /\ ~r.acme
RenewalGuardImported(r) == ~r.revoked /\ ~r.acme

\* The WHERE clause of replace_certificate for each ReplaceGuard.
ImportedManualGuard(r) == ~r.revoked /\ r.imported /\ ~r.acme
RenewalGuard(r) == ~r.revoked /\ ~r.acme /\ ~r.imported
AcmeRenewalGuard(r) == ~r.revoked /\ r.acme

ReplaceGuards == {"imported_manual", "renewal", "acme_renewal"}

MayReplace(guard, r) ==
  \/ guard = "imported_manual" /\ ImportedManualGuard(r)
  \/ guard = "renewal" /\ RenewalGuard(r)
  \/ guard = "acme_renewal" /\ AcmeRenewalGuard(r)

\* Mutant of Superseded: the serial stays behind.
SupersededNoSerial(c) == [cert    |-> c,
                          version |-> certs[c].version,
                          data    |-> certs[c].data,
                          hex     |-> Null,
                          fp      |-> certs[c].fp,
                          ca      |-> certs[c].ca]

\* What replace_certificate moves into the history ...
Superseded(c) == [cert    |-> c,
                  version |-> certs[c].version,
                  data    |-> certs[c].data,
                  hex     |-> certs[c].hex,
                  fp      |-> certs[c].fp,
                  ca      |-> certs[c].ca]

\* Mutants of Replacement: the old issuer, or the old serial, is kept.
ReplacementSameCa(r, m, ca, renew) ==
  [r EXCEPT !.data = m, !.hex = m, !.fp = TRUE, !.version = @ + 1,
            !.renew = IF renew = "keep" THEN @ ELSE renew]

ReplacementSameSerial(r, m, ca, renew) ==
  [r EXCEPT !.data = m, !.fp = TRUE, !.version = @ + 1,
            !.ca = IF ca = Null THEN @ ELSE ca,
            !.renew = IF renew = "keep" THEN @ ELSE renew]

\* ... and what it writes over the row.  ca = Null stands for the 0 that keeps
\* the issuer, renew = "keep" for the None that keeps the renewal method.
Replacement(r, m, ca, renew) ==
  [r EXCEPT !.data = m,
            !.hex = m,
            !.fp = TRUE,
            !.version = @ + 1,
            !.ca = IF ca = Null THEN @ ELSE ca,
            !.renew = IF renew = "keep" THEN @ ELSE renew]

\* replace_certificate: one transaction.  A row that is gone, or that the guard
\* no longer selects, rolls everything back.
ReplaceCertificate(c, m, ca, renew, guard) ==
  IF c \in DOMAIN certs /\ MayReplace(guard, certs[c])
  THEN /\ versions' = versions \cup {Superseded(c)}
       /\ certs' = [certs EXCEPT ![c] = Replacement(@, m, ca, renew)]
  ELSE UNCHANGED <<certs, versions>>

\* ON DELETE SET NULL of acme_provider_id, when the provider is deleted.
ForgetProvider ==
  /\ certs' = [c \in DOMAIN certs |-> [certs[c] EXCEPT !.acme = FALSE]]
  /\ UNCHANGED versions

\* backfill_serials and backfill_fingerprints, run at startup before requests
\* are served.  The history is not touched.
Backfill ==
  /\ certs' = [c \in DOMAIN certs |->
                 [certs[c] EXCEPT !.hex = IF @ = Null THEN certs[c].data ELSE @,
                                  !.fp = TRUE]]
  /\ UNCHANGED versions

=============================================================================
