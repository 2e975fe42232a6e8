--------------------------- MODULE RevocationProofs --------------------------
(***************************************************************************)
(* CrlSound and PublishedStays for every number of requests, CAs and       *)
(* certificates, whatever overlaps.  The invariant follows a serial from   *)
(* the tables through the request that collects it into the file: first    *)
(* that nothing gets there that should not, then that nothing an answered  *)
(* revocation covers is missing.                                           *)
(***************************************************************************)
EXTENDS Revocation, TLAPS

\* The tables: history belongs to rows, and the recorded serial and CA are those
\* of the content beside them.
RowsSound ==
  \A c \in DOMAIN certs : /\ certs[c].data \in DOMAIN signer
                          /\ certs[c].ca = signer[certs[c].data]
                          /\ certs[c].hex = certs[c].data

HistorySound ==
  \A v \in versions : /\ v.cert \in DOMAIN certs
                      /\ v.data \in DOMAIN signer
                      /\ v.ca = signer[v.data]
                      /\ v.hex = v.data

\* What a revoked certificate wears and wore is recorded as dead.
DeadCovers == \A c \in DOMAIN certs : certs[c].revoked => Worn(c) \subseteq dead

Condemned(S, ca) == \A s \in S : s \in dead /\ s \in DOMAIN signer /\ signer[s] = ca

Collecting == {"history", "save", "bump", "bump_first", "save_last"}

Reading == {"read_ca", "mark", "rows"} \cup Collecting

\* What a request has collected so far is sound already, for a CA it has read.
CollectedSound ==
  \A p \in Clients : /\ pc[p] \in Collecting => Condemned(reg[p].serials, reg[p].ca)
                     /\ pc[p] \in Reading => reg[p].ca \in CAs

FilesSound == \A ca \in DOMAIN file : Condemned(file[ca].serials, ca)

Inv ==
  /\ TypeOK
  /\ RowsSound
  /\ HistorySound
  /\ DeadCovers
  /\ CollectedSound
  /\ FilesSound

\* A serial once condemned stays so.
Forward ==
  /\ dead \subseteq dead'
  /\ DOMAIN signer \subseteq DOMAIN signer'
  /\ \A k \in DOMAIN signer : signer'[k] = signer[k]

LEMMA CondemnedForward ==
  ASSUME Forward, NEW S, NEW ca, Condemned(S, ca)
  PROVE  \A s \in S : s \in dead' /\ s \in DOMAIN signer' /\ signer'[s] = ca
BY DEF Forward, Condemned

\* A request moves: only what it carries itself has to be looked at.
LEMMA Moves ==
  ASSUME Inv, Forward, NEW p \in Clients, NEW l \in Labels, NEW r \in Reg, Goto(p, l, r),
         l \in Collecting => Condemned(r.serials, r.ca),
         l \in Reading => r.ca \in CAs
  PROVE  CollectedSound' /\ pc' \in [Clients -> Labels] /\ reg' \in [Clients -> Reg]
<1>1. /\ pc' = [pc EXCEPT ![p] = l] /\ reg' = [reg EXCEPT ![p] = r]
      /\ pc \in [Clients -> Labels] /\ reg \in [Clients -> Reg]
  BY DEF Goto, Inv, TypeOK
<1>2. CollectedSound'
  <2> SUFFICES ASSUME NEW q \in Clients
               PROVE  /\ pc'[q] \in Collecting =>
                           \A s \in reg'[q].serials :
                             s \in dead' /\ s \in DOMAIN signer' /\ signer'[s] = reg'[q].ca
                      /\ pc'[q] \in Reading => reg'[q].ca \in CAs
    BY DEF CollectedSound, Condemned
  <2>1. CASE q = p
    <3>1. pc'[q] = l /\ reg'[q] = r
      BY <1>1, <2>1
    <3> QED BY <3>1, CondemnedForward
  <2>2. CASE q # p
    <3>1. pc'[q] = pc[q] /\ reg'[q] = reg[q]
      BY <1>1, <2>2
    <3>2. /\ pc[q] \in Collecting => Condemned(reg[q].serials, reg[q].ca)
          /\ pc[q] \in Reading => reg[q].ca \in CAs
      BY DEF Inv, CollectedSound
    <3> QED BY <3>1, <3>2, CondemnedForward
  <2> QED BY <2>1, <2>2
<1> QED BY <1>1, <1>2

LEMMA NoRegType == NoReg \in Reg /\ "idle" \in Labels /\ "idle" \notin Reading
BY DEF NoReg, Reg, Labels, Reading, Collecting

LEMMA Finishes ==
  ASSUME Inv, Forward, NEW p \in Clients, Finish(p)
  PROVE  CollectedSound' /\ pc' \in [Clients -> Labels] /\ reg' \in [Clients -> Reg]
BY NoRegType, Moves DEF Finish, Reading

LEMMA FilesKept ==
  ASSUME Inv, Forward, file' = file
  PROVE  FilesSound'
BY DEF Inv, FilesSound, Condemned, Forward

Tables ==
  /\ TableTypeOK
  /\ DOMAIN signer \subseteq Materials
  /\ signer \in [DOMAIN signer -> CAs]
  /\ dead \subseteq Materials
  /\ RowsSound /\ HistorySound /\ DeadCovers

LEMMA SameTables ==
  ASSUME Inv, UNCHANGED <<certs, versions, signer, dead>>
  PROVE  Tables' /\ Forward
BY DEF Inv, TypeOK, TableTypeOK, Tables, RowsSound, HistorySound, DeadCovers, Worn, Forward

\* revoke_user_cert, by either route.
LEMMA MarkTables ==
  ASSUME Inv, NEW c, RevokeRow(c), UNCHANGED signer,
         dead' = dead \cup Covered(c)
  PROVE  Tables' /\ Forward
<1>1. CASE c \notin DOMAIN certs
  <2>1. UNCHANGED <<certs, versions, signer, dead>>
    BY <1>1 DEF RevokeRow, UpdateRow, Covered
  <2> QED BY <2>1, SameTables
<1>2. CASE c \in DOMAIN certs
  <2> DEFINE s == [certs[c] EXCEPT !.revoked = TRUE]
  <2>1. /\ s \in Row /\ s.data = certs[c].data /\ s.ca = certs[c].ca
        /\ s.hex = certs[c].hex /\ s.revoked = TRUE
    BY <1>2 DEF Inv, TypeOK, TableTypeOK, Row
  <2>2. certs' = [certs EXCEPT ![c] = s] /\ versions' = versions
    BY <1>2 DEF RevokeRow, UpdateRow
  <2> HIDE DEF s
  <2>3. /\ DOMAIN certs' = DOMAIN certs /\ certs'[c] = s
        /\ \A d \in DOMAIN certs : d # c => certs'[d] = certs[d]
    BY <1>2, <2>2
  <2>4. \A d \in DOMAIN certs : Worn(d)' = Worn(d)
    BY <2>1, <2>2, <2>3 DEF Worn
  <2>5. DeadCovers'
    BY <1>2, <2>3, <2>4 DEF Inv, DeadCovers, Covered
  <2>6. RowsSound' /\ HistorySound'
    BY <2>1, <2>2, <2>3 DEF Inv, RowsSound, HistorySound
  <2>7. TableTypeOK'
    BY <2>1, <2>2, <2>3 DEF Inv, TypeOK, TableTypeOK
  <2>8. Worn(c) \subseteq Materials
    BY <1>2 DEF Worn, Inv, TypeOK, TableTypeOK, Row, VersionRow
  <2> QED BY <1>2, <2>5, <2>6, <2>7, <2>8 DEF Tables, Forward, Inv, TypeOK, Covered
<1> QED BY <1>1, <1>2

\* Rows go, each with its history: delete_user_cert and the cascade of delete_ca.
LEMMA RemoveTables ==
  ASSUME Inv, NEW G, UNCHANGED <<signer, dead>>,
         certs' = [c \in DOMAIN certs \ G |-> certs[c]],
         versions' = {v \in versions : v.cert \notin G}
  PROVE  Tables' /\ Forward
<1>1. DOMAIN certs' = DOMAIN certs \ G /\ \A c \in DOMAIN certs' : certs'[c] = certs[c]
  OBVIOUS
<1>2. \A c \in DOMAIN certs' : Worn(c)' = Worn(c)
  BY <1>1 DEF Worn
<1>3. TableTypeOK'
  BY <1>1 DEF Inv, TypeOK, TableTypeOK
<1> QED BY <1>1, <1>2, <1>3 DEF Inv, TypeOK, Tables, RowsSound, HistorySound, DeadCovers, Forward

LEMMA SignFacts ==
  ASSUME Inv, NEW m \in Materials, NEW ca \in CAs, Sign(m, ca), dead' = dead
  PROVE  /\ Forward
         /\ DOMAIN signer' = DOMAIN signer \cup {m}
         /\ signer'[m] = ca
         /\ DOMAIN signer' \subseteq Materials
         /\ signer' \in [DOMAIN signer' -> CAs]
<1>1. m \notin DOMAIN signer
  BY TableAssumption DEF Sign, Inv, TypeOK, Materials
<1>2. signer' = [y \in DOMAIN signer \cup {m} |-> IF y = m THEN ca ELSE signer[y]]
  BY DEF Sign, Put
<1> QED BY <1>1, <1>2 DEF Forward, Inv, TypeOK

LEMMA IssueTables ==
  ASSUME Inv, NEW c \in CertIds, NEW m \in Materials, NEW ca \in CAs, Issue(c, m, ca)
  PROVE  Tables' /\ Forward
<1> DEFINE r == [subject |-> AnySubject, data |-> m, hex |-> m, fp |-> TRUE, ca |-> ca,
                 imported |-> FALSE, acme |-> FALSE, revoked |-> FALSE,
                 version |-> 1, renew |-> "renew"]
<1>1. /\ Forward
      /\ DOMAIN signer' = DOMAIN signer \cup {m}
      /\ signer'[m] = ca
      /\ DOMAIN signer' \subseteq Materials
      /\ signer' \in [DOMAIN signer' -> CAs]
  BY SignFacts DEF Issue
<1>2. r \in Row
  BY RevocationAssumption DEF Row, RenewMethods
<1>3. r.data = m /\ r.hex = m /\ r.ca = ca /\ r.revoked = FALSE
  OBVIOUS
<1>4. InsertRow(c, r) /\ IsNextRowid(c) /\ dead' = dead
  BY DEF Issue
<1> HIDE DEF r
<1>5. c \notin DOMAIN certs
  BY <1>4 DEF IsNextRowid, CertIds
<1>6. /\ certs' = [y \in DOMAIN certs \cup {c} |-> IF y = c THEN r ELSE certs[y]]
      /\ DOMAIN certs' = DOMAIN certs \cup {c}
      /\ certs'[c] = r
      /\ \A d \in DOMAIN certs : certs'[d] = certs[d]
      /\ versions' = versions
  BY <1>4, <1>5 DEF InsertRow, Put
<1>7. TableTypeOK'
  BY <1>2, <1>6 DEF Inv, TypeOK, TableTypeOK
<1>8. RowsSound' /\ HistorySound'
  BY <1>1, <1>3, <1>6 DEF Inv, RowsSound, HistorySound, Forward
<1>9. DeadCovers'
  <2>1. \A d \in DOMAIN certs : Worn(d)' = Worn(d)
    BY <1>6 DEF Worn
  <2> QED BY <1>3, <1>4, <1>6, <2>1 DEF Inv, DeadCovers
<1> QED BY <1>1, <1>4, <1>7, <1>8, <1>9 DEF Tables, Inv, TypeOK

LEMMA RenewTables ==
  ASSUME Inv, NEW c \in CertIds, NEW m \in Materials, NEW ca \in CAs, Renew(c, m, ca)
  PROVE  Tables' /\ Forward
<1> DEFINE r == certs[c]
           s == Replacement(r, m, ca, "keep")
<1>1. /\ Forward
      /\ DOMAIN signer' = DOMAIN signer \cup {m}
      /\ signer'[m] = ca
      /\ DOMAIN signer' \subseteq Materials
      /\ signer' \in [DOMAIN signer' -> CAs]
  BY SignFacts DEF Renew
<1>2. /\ c \in DOMAIN certs /\ r \in Row /\ ~r.revoked /\ dead' = dead
      /\ certs' = [certs EXCEPT ![c] = s]
      /\ versions' = versions \cup {Superseded(c)}
  BY DEF Renew, ReplaceCertificate, MayReplace, RenewalGuard, Inv, TypeOK, TableTypeOK
<1>3. ca # Null /\ r.version + 1 \in Nat
  BY <1>2, TableAssumption DEF Row
<1>4. /\ s \in Row /\ s.data = m /\ s.hex = m /\ s.ca = ca /\ s.revoked = r.revoked
  BY <1>2, <1>3 DEF Replacement, Row
<1>5. /\ Superseded(c) \in VersionRow
      /\ Superseded(c).cert = c
      /\ Superseded(c).data = r.data
      /\ Superseded(c).ca = r.ca
      /\ Superseded(c).hex = r.hex
  BY <1>2 DEF Superseded, VersionRow, Row
<1> HIDE DEF s
<1>6. /\ DOMAIN certs' = DOMAIN certs
      /\ certs'[c] = s
      /\ \A d \in DOMAIN certs : d # c => certs'[d] = certs[d]
  BY <1>2
<1>7. TableTypeOK'
  <2>1. versions' \subseteq VersionRow
    BY <1>2, <1>5 DEF Inv, TypeOK, TableTypeOK
  <2> QED BY <1>2, <1>4, <1>6, <2>1 DEF Inv, TypeOK, TableTypeOK
<1>8. RowsSound'
  BY <1>1, <1>4, <1>6 DEF Inv, RowsSound, Forward
<1>9. HistorySound'
  BY <1>1, <1>2, <1>5, <1>6 DEF Inv, HistorySound, RowsSound, Forward
<1>10. DeadCovers'
  <2>1. \A d \in DOMAIN certs : d # c => Worn(d)' = Worn(d)
    BY <1>2, <1>5, <1>6 DEF Worn
  <2> QED BY <1>2, <1>4, <1>6, <2>1 DEF Inv, DeadCovers
<1> QED BY <1>1, <1>2, <1>7, <1>8, <1>9, <1>10 DEF Tables, Inv, TypeOK

-----------------------------------------------------------------------------
\* The pieces of Inv put together.

Books ==
  /\ DOMAIN number \subseteq CAs
  /\ number \in [DOMAIN number -> Nat]
  /\ gen \in [CAs -> Nat]
  /\ DOMAIN file \subseteq CAs
  /\ file \in [DOMAIN file -> Crl]
  /\ promised \subseteq Materials
  /\ behind \subseteq Clients
  /\ crossed \subseteq CAs

LEMMA Assemble ==
  ASSUME Tables', Books', FilesSound',
         CollectedSound' /\ pc' \in [Clients -> Labels] /\ reg' \in [Clients -> Reg]
  PROVE  Inv'
BY DEF Tables, Books, Inv, TypeOK

LEMMA SameBooks ==
  ASSUME Inv, UNCHANGED <<number, gen, file, promised, order>>
  PROVE  Books'
BY DEF Inv, TypeOK, Books, order

LEMMA NumberWritten ==
  ASSUME Inv, NEW ca, NEW n \in Nat, WriteNumber(ca, n)
  PROVE  DOMAIN number' \subseteq CAs /\ number' \in [DOMAIN number' -> Nat]
BY DEF WriteNumber, Inv, TypeOK

\* Steps of the world around leave the requests where they are.
LEMMA RequestsKept ==
  ASSUME Inv, Forward, UNCHANGED <<pc, reg>>
  PROVE  CollectedSound' /\ pc' \in [Clients -> Labels] /\ reg' \in [Clients -> Reg]
BY DEF Inv, TypeOK, CollectedSound, Condemned, Forward

LEMMA InvWorld ==
  ASSUME Inv, World
  PROVE  Inv'
<1>1. ASSUME NEW ca \in CAs, CreateCa(ca)
      PROVE  Inv'
  <2>1. UNCHANGED <<certs, versions, signer, file, dead, promised, pc, reg, order>>
    BY <1>1 DEF CreateCa
  <2>2. Tables' /\ Forward
    BY <2>1, SameTables
  <2>3. gen' \in [CAs -> Nat]
    BY <1>1 DEF CreateCa, Inv, TypeOK
  <2>4. DOMAIN number' \subseteq CAs /\ number' \in [DOMAIN number' -> Nat]
    BY <1>1 DEF CreateCa, Put, Inv, TypeOK
  <2>5. Books'
    BY <2>1, <2>3, <2>4 DEF Inv, TypeOK, Books, order
  <2> QED BY <2>1, <2>2, <2>5, FilesKept, RequestsKept, Assemble
<1>2. ASSUME NEW c \in CertIds, NEW m \in Materials, NEW ca \in CAs, Issue(c, m, ca)
      PROVE  Inv'
  <2>1. UNCHANGED <<number, gen, file, promised, pc, reg, order>>
    BY <1>2 DEF Issue
  <2>2. Tables' /\ Forward
    BY <1>2, IssueTables
  <2> QED BY <2>1, <2>2, SameBooks, FilesKept, RequestsKept, Assemble
<1>3. ASSUME NEW c \in CertIds, NEW m \in Materials, NEW ca \in CAs, Renew(c, m, ca)
      PROVE  Inv'
  <2>1. UNCHANGED <<number, gen, file, promised, pc, reg, order>>
    BY <1>3 DEF Renew
  <2>2. Tables' /\ Forward
    BY <1>3, RenewTables
  <2> QED BY <2>1, <2>2, SameBooks, FilesKept, RequestsKept, Assemble
<1>4. ASSUME NEW c \in CertIds, DeleteCert(c)
      PROVE  Inv'
  <2>1. UNCHANGED <<signer, dead, number, gen, file, promised, pc, reg, order>>
    BY <1>4 DEF DeleteCert
  <2>2. /\ certs' = [d \in DOMAIN certs \ {c} |-> certs[d]]
        /\ versions' = {v \in versions : v.cert \notin {c}}
    BY <1>4 DEF DeleteCert, DeleteRow
  <2>3. Tables' /\ Forward
    BY <2>1, <2>2, RemoveTables
  <2> QED BY <2>1, <2>3, SameBooks, FilesKept, RequestsKept, Assemble
<1> QED BY <1>1, <1>2, <1>3, <1>4 DEF World

\* The calls that only read.
LEMMA InvReads ==
  ASSUME Inv, NEW p \in Clients,
         RevokeBegin(p) \/ ReadCa(p) \/ DownloadBegin(p) \/ AcmeRevokeBegin(p) \/ DeleteCaBegin(p)
  PROVE  Inv'
<1>1. UNCHANGED <<certs, versions, signer, number, gen, file, dead, promised, order>>
  BY DEF RevokeBegin, ReadCa, DownloadBegin, AcmeRevokeBegin, DeleteCaBegin
<1>2. Tables' /\ Forward
  BY <1>1, SameTables
<1>3. CollectedSound' /\ pc' \in [Clients -> Labels] /\ reg' \in [Clients -> Reg]
  <2> USE DEF Labels, Collecting, Reading
  <2>1. reg[p] \in Reg
    BY DEF Inv, TypeOK
  <2>2. CASE RevokeBegin(p)
    <3> DEFINE r(c) == [NoReg EXCEPT !.cert = c, !.ca = certs[c].ca, !.revokes = TRUE]
    <3>1. PICK c \in DOMAIN certs : Goto(p, "read_ca", r(c))
      BY <2>2 DEF RevokeBegin
    <3>2. c \in CertIds /\ certs[c].ca \in CAs
      BY DEF Inv, TypeOK, TableTypeOK, RowsSound
    <3>3. r(c) \in Reg /\ r(c).ca = certs[c].ca
      BY <3>2 DEF NoReg, Reg
    <3> QED BY <1>2, <3>1, <3>2, <3>3, Moves
  <2>3. CASE ReadCa(p)
    <3> DEFINE r == [reg[p] EXCEPT !.number = number[reg[p].ca], !.gen = gen[reg[p].ca]]
    <3>1. CASE Finish(p)
      BY <1>2, <3>1, Finishes
    <3>2. CASE reg[p].ca \in DOMAIN number /\ Goto(p, "mark", r)
      <4>1. number[reg[p].ca] \in Nat /\ gen[reg[p].ca] \in Nat
        BY <3>2 DEF Inv, TypeOK
      <4>2. r \in Reg /\ r.ca \in CAs
        BY <2>1, <3>2, <4>1 DEF Reg, Inv, TypeOK
      <4> QED BY <1>2, <3>2, <4>2, Moves
    <3> QED BY <2>3, <3>1, <3>2 DEF ReadCa
  <2>4. CASE DownloadBegin(p)
    <3> DEFINE r(ca) == [NoReg EXCEPT !.ca = ca, !.number = number[ca], !.gen = gen[ca]]
    <3>1. PICK ca \in DOMAIN number : Goto(p, "rows", r(ca))
      BY <2>4 DEF DownloadBegin
    <3>2. ca \in CAs /\ number[ca] \in Nat /\ gen[ca] \in Nat
      BY DEF Inv, TypeOK
    <3>3. r(ca) \in Reg /\ r(ca).ca \in CAs
      BY <3>2 DEF NoReg, Reg
    <3> QED BY <1>2, <3>1, <3>3, Moves
  <2>5. CASE AcmeRevokeBegin(p)
    <3>1. PICK c \in DOMAIN certs : Goto(p, "acme_mark", [NoReg EXCEPT !.cert = c])
      BY <2>5 DEF AcmeRevokeBegin
    <3>2. [NoReg EXCEPT !.cert = c] \in Reg
      BY DEF NoReg, Reg, Inv, TypeOK, TableTypeOK
    <3> QED BY <1>2, <3>1, <3>2, Moves
  <2>6. CASE DeleteCaBegin(p)
    <3>1. PICK ca \in DOMAIN number : Goto(p, "delete_ca", [NoReg EXCEPT !.ca = ca])
      BY <2>6 DEF DeleteCaBegin
    <3>2. [NoReg EXCEPT !.ca = ca] \in Reg
      BY DEF NoReg, Reg, Inv, TypeOK
    <3> QED BY <1>2, <3>1, <3>2, Moves
  <2> QED BY <2>2, <2>3, <2>4, <2>5, <2>6
<1> QED BY <1>1, <1>2, <1>3, SameBooks, FilesKept, Assemble

\* The two calls that collect serials, and the two that publish them.
LEMMA InvPublish ==
  ASSUME Inv, NEW p \in Clients,
         CrlRows(p) \/ CrlHistory(p) \/ SaveCrl(p) \/ SaveLast(p)
  PROVE  Inv'
<1>1. UNCHANGED <<certs, versions, signer, number, gen, dead, promised>>
  BY DEF CrlRows, CrlHistory, SaveCrl, SaveLast
<1>2. Tables' /\ Forward
  BY <1>1, SameTables
<1>3. reg[p] \in Reg
  BY DEF Inv, TypeOK
<1>0. reg[p].ca \in CAs
  BY DEF CrlRows, CrlHistory, SaveCrl, SaveLast, Inv, CollectedSound, Reading, Collecting
<1>4. CASE CrlRows(p)
  <2> DEFINE S == {certs[c].data : c \in RevokedRows(reg[p].ca)}
             r == [reg[p] EXCEPT !.serials = S]
  <2>1. Condemned(S, reg[p].ca) /\ S \subseteq Materials
    BY DEF RevokedRows, Condemned, Inv, RowsSound, DeadCovers, Worn, TypeOK
  <2> HIDE DEF S
  <2>2. r \in Reg /\ r.serials = S /\ r.ca = reg[p].ca
    BY <1>3, <2>1 DEF Reg
  <2>3. Goto(p, "history", r) /\ UNCHANGED <<file, order>>
    BY <1>4 DEF CrlRows, S
  <2>4. CollectedSound' /\ pc' \in [Clients -> Labels] /\ reg' \in [Clients -> Reg]
    BY <1>2, <1>0, <2>1, <2>2, <2>3, Moves DEF Labels
  <2> QED BY <1>1, <1>2, <2>3, <2>4, SameBooks, FilesKept, Assemble
<1>5. CASE CrlHistory(p)
  <2> DEFINE H == RevokedHistorySerials(reg[p].ca)
             r == [reg[p] EXCEPT !.serials = reg[p].serials \cup H]
             l == IF reg[p].revokes THEN "save" ELSE "bump_first"
  <2>1. Condemned(H, reg[p].ca) /\ H \subseteq Materials
    <3> SUFFICES ASSUME NEW v \in versions, v.ca = reg[p].ca, v.cert \in DOMAIN certs,
                        certs[v.cert].revoked
                 PROVE  /\ v.hex \in dead /\ v.hex \in DOMAIN signer
                        /\ signer[v.hex] = reg[p].ca /\ v.hex \in Materials
      BY DEF RevokedHistorySerials, Condemned
    <3>1. v.data \in Worn(v.cert)
      BY DEF Worn
    <3> QED BY <3>1 DEF Inv, HistorySound, DeadCovers, TypeOK
  <2>2. Condemned(reg[p].serials, reg[p].ca)
    BY <1>5 DEF CrlHistory, Inv, CollectedSound, Collecting
  <2> HIDE DEF H
  <2>3. r \in Reg /\ r.serials = reg[p].serials \cup H /\ r.ca = reg[p].ca
    BY <1>3, <2>1 DEF Reg
  <2>4. Goto(p, l, r) /\ UNCHANGED <<file, order>> /\ l \in Labels
    BY <1>5 DEF CrlHistory, H, Labels
  <2>5. Condemned(r.serials, r.ca)
    BY <2>1, <2>2, <2>3 DEF Condemned
  <2> HIDE DEF r, l
  <2>6. CollectedSound' /\ pc' \in [Clients -> Labels] /\ reg' \in [Clients -> Reg]
    BY <1>2, <1>0, <2>3, <2>4, <2>5, Moves
  <2> QED BY <1>1, <1>2, <2>4, <2>6, SameBooks, FilesKept, Assemble
<1>6. CASE SaveCrl(p) \/ SaveLast(p)
  <2>1. Condemned(reg[p].serials, reg[p].ca)
    BY <1>6 DEF SaveCrl, SaveLast, Inv, CollectedSound, Collecting
  <2>2. CollectedSound' /\ pc' \in [Clients -> Labels] /\ reg' \in [Clients -> Reg]
    <3>1. CASE SaveCrl(p)
      BY <1>2, <1>3, <1>0, <2>1, <3>1, Moves DEF SaveCrl, Labels
    <3>2. CASE SaveLast(p)
      BY <1>2, <3>2, Finishes DEF SaveLast
    <3> QED BY <1>6, <3>1, <3>2
  <2>3. file' = [ca \in DOMAIN file \cup {reg[p].ca} |->
                   IF ca = reg[p].ca THEN SignedCrl(reg[p]) ELSE file[ca]]
    BY <1>6 DEF SaveCrl, SaveLast, Overwrite, Put
  <2>4. SignedCrl(reg[p]) \in Crl /\ SignedCrl(reg[p]).serials = reg[p].serials
    BY <1>3 DEF SignedCrl, Crl, Reg
  <2>5. FilesSound'
    BY <1>1, <2>1, <2>3, <2>4 DEF FilesSound, Condemned, Inv
  <2>6. behind' \subseteq Clients /\ crossed' \subseteq CAs
    BY <1>6, <1>0 DEF SaveCrl, SaveLast, Overwrite, Building, Inv, TypeOK
  <2>7. Books'
    BY <1>1, <1>0, <2>3, <2>4, <2>6 DEF Books, Inv, TypeOK
  <2> QED BY <1>2, <2>2, <2>5, <2>7, Assemble
<1> QED BY <1>4, <1>5, <1>6

\* The calls that write the tables of certificates and of CAs.
LEMMA InvWrites ==
  ASSUME Inv, NEW p \in Clients,
         Mark(p) \/ AcmeMark(p) \/ BumpNumber(p) \/ BumpFirst(p) \/ DeleteCa(p)
  PROVE  Inv'
<1>1. reg[p] \in Reg /\ file' = file
  BY DEF Inv, TypeOK, Mark, AcmeMark, BumpNumber, BumpFirst, DeleteCa
<1>2. CASE Mark(p)
  <2>1. Tables' /\ Forward
    BY <1>2, MarkTables DEF Mark
  <2>2. reg[p].ca \in CAs /\ "rows" \in Labels /\ "rows" \notin Collecting
    BY <1>2 DEF Mark, Inv, CollectedSound, Reading, Labels, Collecting
  <2>3. CollectedSound' /\ pc' \in [Clients -> Labels] /\ reg' \in [Clients -> Reg]
    <3> DEFINE r == [reg[p] EXCEPT !.covers = Covered(reg[p].cert)]
    <3>1. Covered(reg[p].cert) \subseteq Materials
      BY DEF Covered, Worn, Inv, TypeOK, RowsSound, HistorySound
    <3>2. r \in Reg /\ r.ca = reg[p].ca
      BY <1>1, <3>1 DEF Reg
    <3>3. Goto(p, "rows", r)
      BY <1>2 DEF Mark
    <3> HIDE DEF r
    <3> QED BY <2>1, <2>2, <3>2, <3>3, Moves
  <2>4. Books'
    BY <1>2, SameBooks DEF Mark
  <2> QED BY <1>1, <2>1, <2>3, <2>4, FilesKept, Assemble
<1>3. CASE AcmeMark(p)
  <2>1. Tables' /\ Forward
    BY <1>3, MarkTables DEF AcmeMark
  <2>2. CollectedSound' /\ pc' \in [Clients -> Labels] /\ reg' \in [Clients -> Reg]
    BY <1>3, <2>1, Finishes DEF AcmeMark
  <2>3. Books'
    BY <1>3, SameBooks DEF AcmeMark
  <2> QED BY <1>1, <2>1, <2>2, <2>3, FilesKept, Assemble
<1>4. reg[p].number + 1 \in Nat
  BY <1>1 DEF Reg
<1>5. CASE BumpNumber(p)
  <2>1. Tables' /\ Forward
    BY <1>5, SameTables DEF BumpNumber
  <2>2. CollectedSound' /\ pc' \in [Clients -> Labels] /\ reg' \in [Clients -> Reg]
    BY <1>5, <2>1, Finishes DEF BumpNumber
  <2>3. DOMAIN number' \subseteq CAs /\ number' \in [DOMAIN number' -> Nat]
    BY <1>4, <1>5, NumberWritten DEF BumpNumber
  <2>4. promised' \subseteq Materials
    <3>1. reg[p].covers \subseteq Materials
      BY <1>1 DEF Reg
    <3> QED BY <1>5, <3>1 DEF BumpNumber, Inv, TypeOK
  <2>5. Books'
    BY <1>5, <2>3, <2>4 DEF BumpNumber, Books, Inv, TypeOK, order
  <2> QED BY <1>1, <2>1, <2>2, <2>5, FilesKept, Assemble
<1>6. CASE BumpFirst(p)
  <2>1. Tables' /\ Forward
    BY <1>6, SameTables DEF BumpFirst
  <2>2. reg[p].ca \in CAs /\ Condemned(reg[p].serials, reg[p].ca) /\ "save_last" \in Labels
    BY <1>6 DEF BumpFirst, Inv, CollectedSound, Reading, Labels, Collecting
  <2>3. CollectedSound' /\ pc' \in [Clients -> Labels] /\ reg' \in [Clients -> Reg]
    BY <1>1, <1>6, <2>1, <2>2, Moves DEF BumpFirst
  <2>4. DOMAIN number' \subseteq CAs /\ number' \in [DOMAIN number' -> Nat]
    BY <1>4, <1>6, NumberWritten DEF BumpFirst
  <2>5. Books'
    BY <1>6, <2>4 DEF BumpFirst, Books, Inv, TypeOK, order
  <2> QED BY <1>1, <2>1, <2>3, <2>5, FilesKept, Assemble
<1>7. CASE DeleteCa(p)
  <2>1. Tables' /\ Forward
    BY <1>7, RemoveTables DEF DeleteCa
  <2>2. CollectedSound' /\ pc' \in [Clients -> Labels] /\ reg' \in [Clients -> Reg]
    BY <1>7, <2>1, Finishes DEF DeleteCa
  <2>3. Books'
    BY <1>7 DEF DeleteCa, Books, Inv, TypeOK, order
  <2> QED BY <1>1, <2>1, <2>2, <2>3, FilesKept, Assemble
<1> QED BY <1>2, <1>3, <1>5, <1>6, <1>7

LEMMA InvInit ==
  ASSUME Init
  PROVE  Inv
<1>1. TypeOK
  BY NoRegType DEF Init, Empty, TypeOK, TableTypeOK
<1> QED BY <1>1 DEF Init, Empty, Inv, RowsSound, HistorySound, DeadCovers, CollectedSound,
                    Collecting, Reading, FilesSound

LEMMA InvNext ==
  ASSUME Inv, [Next]_vars
  PROVE  Inv'
<1>1. CASE UNCHANGED <<certs, versions, signer, number, gen, file, dead, promised, crossed>>
            /\ (Restart \/ UNCHANGED <<pc, reg, behind>>)
  <2>1. Tables' /\ Forward
    BY <1>1, SameTables
  <2>2. CollectedSound' /\ pc' \in [Clients -> Labels] /\ reg' \in [Clients -> Reg]
    <3>1. CASE UNCHANGED <<pc, reg, behind>>
      BY <2>1, <3>1, RequestsKept
    <3>2. CASE Restart
      BY <3>2, NoRegType DEF Restart, CollectedSound, Collecting, Reading
    <3> QED BY <1>1, <3>1, <3>2
  <2>3. Books'
    BY <1>1 DEF Books, Inv, TypeOK, Restart
  <2> QED BY <1>1, <2>1, <2>2, <2>3, FilesKept, Assemble
<1>2. ASSUME NEW p \in Clients, Request(p)
      PROVE  Inv'
  BY <1>2, InvReads, InvPublish, InvWrites DEF Request
<1>3. CASE World
  BY <1>3, InvWorld
<1> QED BY <1>1, <1>2, <1>3 DEF Next, vars, order, Restart

\* Every variable keeps its type, in every execution.
THEOREM RevocationTypes == Spec => []TypeOK
<1>1. Inv => TypeOK
  BY DEF Inv
<1> QED BY <1>1, InvInit, InvNext, PTL DEF Spec

\* No CRL ever lists a certificate that was not revoked, or one of another CA,
\* whatever overlaps and wherever the server stops: create_crl_params reads rows
\* and history separately, but a revoked certificate is never renewed again.
THEOREM CrlsAreSound == Spec => []CrlSound
<1>1. Inv => CrlSound
  BY DEF Inv, FilesSound, Condemned, CrlSound
<1> QED BY <1>1, InvInit, InvNext, PTL DEF Spec

-----------------------------------------------------------------------------
(* What was acknowledged stays published, with any number of requests at once. *)
(* Three sets carry the argument: the materials the rows of today wear, the    *)
(* ones some revocation has condemned, and, of those, the ones whose CRL has   *)
(* been saved and which the files therefore owe.                               *)

Heads == {certs[c].data : c \in DOMAIN certs}
Live == UNION {Worn(c) : c \in DOMAIN certs}

Pledged == promised \cup UNION {reg[q].covers : q \in Clients}

Due == promised \cup {m \in Pledged : \E q \in Clients : /\ pc[q] = "bump"
                                                         /\ m \in reg[q].covers
                                                         /\ signer[m] = reg[q].ca}

\* No two certificates ever wear the same material.
WornOnce == \A c, d \in DOMAIN certs : c # d => Worn(c) \cap Worn(d) = {}

\* What was condemned had been issued, and whoever wears it is revoked.
PledgedRevoked ==
  /\ Pledged \subseteq DOMAIN signer
  /\ \A c \in DOMAIN certs : Worn(c) \cap Pledged # {} => certs[c].revoked

PledgeInv == WornOnce /\ PledgedRevoked

Full == {"save", "bump_first", "save_last"}

\* What a request at label l has gathered for its CA is complete, as far as it
\* has come: all that is owed, and what it condemned itself.
Gathered(l, r) ==
  /\ l = "history" =>
       \A m \in Heads \cap (Due \cup r.covers) : signer[m] = r.ca => m \in r.serials
  /\ l \in Full =>
       \A m \in Live \cap (Due \cup r.covers) : signer[m] = r.ca => m \in r.serials

FilesComplete ==
  \A m \in Live \cap Due :
    \/ signer[m] \in crossed
    \/ signer[m] \in DOMAIN file /\ m \in file[signer[m]].serials

ListInv ==
  /\ \A p \in Clients : p \in behind \/ Gathered(pc[p], reg[p])
  /\ FilesComplete

LEMMA WornIssued ==
  ASSUME Inv, NEW c \in DOMAIN certs
  PROVE  Worn(c) \subseteq DOMAIN signer
BY DEF Inv, RowsSound, HistorySound, Worn

\* No step gives a condemned material to a row, or back to one.
Steady ==
  /\ Forward
  /\ Heads' \cap DOMAIN signer \subseteq Heads
  /\ Live' \cap DOMAIN signer \subseteq Live

LEMMA SteadyQuiet ==
  ASSUME UNCHANGED <<certs, versions, signer, dead>>
  PROVE  Steady
BY DEF Steady, Forward, Heads, Live, Worn

\* revoke_user_cert wears nothing new.
LEMMA RevokeRowFacts ==
  ASSUME Inv, NEW c, RevokeRow(c)
  PROVE  /\ DOMAIN certs' = DOMAIN certs
         /\ \A d \in DOMAIN certs : /\ certs'[d].data = certs[d].data
                                    /\ certs[d].revoked \/ d = c => certs'[d].revoked
                                    /\ Worn(d)' = Worn(d)
<1>1. \A d \in DOMAIN certs : certs[d] \in Row
  BY DEF Inv, TypeOK, TableTypeOK
<1>2. /\ DOMAIN certs' = DOMAIN certs /\ versions' = versions
      /\ \A d \in DOMAIN certs : /\ certs'[d].data = certs[d].data
                                 /\ certs[d].revoked \/ d = c => certs'[d].revoked
  BY <1>1 DEF RevokeRow, UpdateRow, Row
<1> QED BY <1>2 DEF Worn

\* Rows go with their history.
LEMMA RemoveFacts ==
  ASSUME Inv, NEW G, UNCHANGED <<signer, dead>>,
         certs' = [c \in DOMAIN certs \ G |-> certs[c]],
         versions' = {v \in versions : v.cert \notin G}
  PROVE  /\ Steady
         /\ DOMAIN certs' \subseteq DOMAIN certs
         /\ \A c \in DOMAIN certs' : certs'[c] = certs[c] /\ Worn(c)' = Worn(c)
<1>1. DOMAIN certs' = DOMAIN certs \ G /\ \A c \in DOMAIN certs' : certs'[c] = certs[c]
  OBVIOUS
<1>2. \A c \in DOMAIN certs' : Worn(c)' = Worn(c)
  BY <1>1 DEF Worn
<1>3. Heads' \subseteq Heads /\ Live' \subseteq Live
  BY <1>1, <1>2 DEF Heads, Live
<1> QED BY <1>1, <1>2, <1>3 DEF Steady, Forward

\* The world: what it issues is new, what it renews is not revoked.
LEMMA SignedFacts ==
  ASSUME Inv, NEW c \in CertIds, NEW m \in Materials, NEW ca \in CAs, Sign(m, ca), dead' = dead,
         Issue(c, m, ca) \/ Renew(c, m, ca)
  PROVE  /\ Steady
         /\ m \notin DOMAIN signer
         /\ DOMAIN certs' \subseteq DOMAIN certs \cup {c}
         /\ \A d \in DOMAIN certs : d # c => certs'[d] = certs[d] /\ Worn(d)' = Worn(d)
         /\ c \in DOMAIN certs => ~certs[c].revoked
         /\ Worn(c)' \subseteq {m} \cup (IF c \in DOMAIN certs THEN Worn(c) ELSE {})
<1>1. Forward /\ m \notin DOMAIN signer
  <2>1. Forward
    BY SignFacts
  <2>2. m \notin DOMAIN signer
    BY TableAssumption DEF Sign, Materials
  <2> QED BY <2>1, <2>2
<1>2. /\ DOMAIN certs' \subseteq DOMAIN certs \cup {c}
      /\ \A d \in DOMAIN certs : d # c => certs'[d] = certs[d] /\ Worn(d)' = Worn(d)
      /\ certs'[c].data = m
      /\ c \in DOMAIN certs => ~certs[c].revoked
      /\ Worn(c)' \subseteq {m} \cup (IF c \in DOMAIN certs THEN Worn(c) ELSE {})
  <2>1. CASE Issue(c, m, ca)
    <3>1. c \notin DOMAIN certs
      BY <2>1 DEF Issue, IsNextRowid, CertIds
    <3>2. PICK n : n.data = m /\ InsertRow(c, n)
      BY <2>1 DEF Issue
    <3>3. /\ DOMAIN certs' = DOMAIN certs \cup {c} /\ certs'[c] = n /\ versions' = versions
          /\ \A d \in DOMAIN certs : certs'[d] = certs[d]
      BY <3>1, <3>2 DEF InsertRow, Put
    <3>4. \A v \in versions : v.cert # c
      BY <3>1 DEF Inv, HistorySound
    <3>5. Worn(c)' = {m} /\ \A d \in DOMAIN certs : Worn(d)' = Worn(d)
      BY <3>2, <3>3, <3>4 DEF Worn
    <3> QED BY <3>1, <3>2, <3>3, <3>5
  <2>2. CASE Renew(c, m, ca)
    <3> DEFINE s == Replacement(certs[c], m, ca, "keep")
    <3>1. /\ c \in DOMAIN certs /\ ~certs[c].revoked
          /\ certs' = [certs EXCEPT ![c] = s] /\ versions' = versions \cup {Superseded(c)}
      BY <2>2 DEF Renew, ReplaceCertificate, MayReplace, RenewalGuard
    <3>2. certs[c] \in Row
      BY <3>1 DEF Inv, TypeOK, TableTypeOK
    <3>3. s.data = m
      BY <3>2 DEF Replacement, Row
    <3>4. Superseded(c).cert = c /\ Superseded(c).data = certs[c].data
      BY DEF Superseded
    <3> HIDE DEF s
    <3>5. /\ DOMAIN certs' = DOMAIN certs /\ certs'[c] = s
          /\ \A d \in DOMAIN certs : d # c => certs'[d] = certs[d]
      BY <3>1
    <3>6. /\ Worn(c)' \subseteq {m} \cup Worn(c)
          /\ \A d \in DOMAIN certs : d # c => Worn(d)' = Worn(d)
      BY <3>1, <3>3, <3>4, <3>5 DEF Worn
    <3> QED BY <3>1, <3>3, <3>5, <3>6
  <2> QED BY <2>1, <2>2
<1>3. Heads' \subseteq Heads \cup {m}
  BY <1>2 DEF Heads
<1>4. Live' \subseteq Live \cup {m}
  BY <1>2 DEF Live
<1> QED BY <1>1, <1>2, <1>3, <1>4 DEF Steady

\* The steps that leave the requests alone, and what they do to the tables.
LEMMA WorldPledge ==
  ASSUME Inv, PledgeInv, World
  PROVE  PledgeInv' /\ Steady
<1>1. Pledged' = Pledged
  BY DEF World, CreateCa, Issue, Renew, DeleteCert, Pledged
<1>2. ASSUME NEW ca \in CAs, CreateCa(ca)
      PROVE  PledgeInv' /\ Steady
  <2>1. UNCHANGED <<certs, versions, signer, dead>>
    BY <1>2 DEF CreateCa
  <2>2. \A c : Worn(c)' = Worn(c)
    BY <2>1 DEF Worn
  <2> QED BY <1>1, <2>1, <2>2, SteadyQuiet DEF PledgeInv, WornOnce, PledgedRevoked
<1>3. ASSUME NEW c \in CertIds, DeleteCert(c)
      PROVE  PledgeInv' /\ Steady
  <2>1. /\ certs' = [d \in DOMAIN certs \ {c} |-> certs[d]]
        /\ versions' = {v \in versions : v.cert \notin {c}}
        /\ UNCHANGED <<signer, dead>>
    BY <1>3 DEF DeleteCert, DeleteRow
  <2>2. /\ Steady
        /\ DOMAIN certs' \subseteq DOMAIN certs
        /\ \A d \in DOMAIN certs' : certs'[d] = certs[d] /\ Worn(d)' = Worn(d)
    BY <2>1, RemoveFacts
  <2> QED BY <1>1, <2>1, <2>2 DEF PledgeInv, WornOnce, PledgedRevoked
<1>4. ASSUME NEW c \in CertIds, NEW m \in Materials, NEW ca \in CAs,
             Issue(c, m, ca) \/ Renew(c, m, ca)
      PROVE  PledgeInv' /\ Steady
  <2>1. Sign(m, ca) /\ dead' = dead
    BY <1>4 DEF Issue, Renew
  <2>2. /\ Steady
        /\ m \notin DOMAIN signer
        /\ DOMAIN certs' \subseteq DOMAIN certs \cup {c}
        /\ \A d \in DOMAIN certs : d # c => certs'[d] = certs[d] /\ Worn(d)' = Worn(d)
        /\ c \in DOMAIN certs => ~certs[c].revoked
        /\ Worn(c)' \subseteq {m} \cup (IF c \in DOMAIN certs THEN Worn(c) ELSE {})
    BY <1>4, <2>1, SignedFacts
  <2>3. \A d \in DOMAIN certs : Worn(d) \subseteq DOMAIN signer
    BY WornIssued
  <2>4. WornOnce'
    <3> SUFFICES ASSUME NEW d \in DOMAIN certs', NEW e \in DOMAIN certs', d # e,
                        NEW k \in Worn(d)', k \in Worn(e)'
                 PROVE  FALSE
      BY DEF WornOnce
    <3> QED BY <2>2, <2>3 DEF PledgeInv, WornOnce
  <2>5. PledgedRevoked'
    <3>1. Pledged \subseteq DOMAIN signer /\ DOMAIN signer \subseteq DOMAIN signer'
      BY <2>2 DEF PledgeInv, PledgedRevoked, Steady, Forward
    <3>2. ASSUME NEW d \in DOMAIN certs', NEW k \in Worn(d)', k \in Pledged
          PROVE  certs'[d].revoked
      <4>1. CASE d # c
        BY <2>2, <3>2, <4>1 DEF PledgeInv, PledgedRevoked
      <4>2. CASE d = c
        BY <2>2, <3>1, <3>2, <4>2 DEF PledgeInv, PledgedRevoked
      <4> QED BY <4>1, <4>2
    <3> QED BY <1>1, <3>1, <3>2 DEF PledgedRevoked
  <2> QED BY <2>2, <2>4, <2>5 DEF PledgeInv
<1> QED BY <1>2, <1>3, <1>4 DEF World

-----------------------------------------------------------------------------
\* Requests: what they condemn.

LEMMA PledgedMoves ==
  ASSUME Inv, NEW p \in Clients, NEW l, NEW r, Goto(p, l, r),
         promised' \subseteq promised \cup reg[p].covers
  PROVE  Pledged' \subseteq Pledged \cup r.covers
<1>1. reg'[p] = r /\ \A q \in Clients : q # p => reg'[q] = reg[q]
  BY DEF Goto, Inv, TypeOK
<1> QED BY <1>1 DEF Pledged

LEMMA PledgeKept ==
  ASSUME Inv, PledgeInv, UNCHANGED <<certs, versions, signer, dead>>, Pledged' \subseteq Pledged
  PROVE  PledgeInv' /\ Steady
<1>1. \A c : Worn(c)' = Worn(c)
  BY DEF Worn
<1> QED BY <1>1, SteadyQuiet DEF PledgeInv, WornOnce, PledgedRevoked

\* Every call but Mark condemns nothing new; Mark condemns what the row wears,
\* which no other row does.
LEMMA RequestPledge ==
  ASSUME Inv, PledgeInv, NEW p \in Clients, Request(p)
  PROVE  PledgeInv' /\ Steady
<1>1. reg[p] \in Reg /\ NoReg.covers = {} /\ reg[p].covers \subseteq Pledged
  BY DEF Inv, TypeOK, NoReg, Pledged
<1>2. CASE \/ RevokeBegin(p) \/ ReadCa(p) \/ DownloadBegin(p) \/ AcmeRevokeBegin(p)
           \/ DeleteCaBegin(p) \/ CrlRows(p) \/ CrlHistory(p) \/ SaveCrl(p) \/ SaveLast(p)
           \/ BumpNumber(p) \/ BumpFirst(p)
  <2>1. /\ UNCHANGED <<certs, versions, signer, dead>>
        /\ promised' \subseteq promised \cup reg[p].covers
    BY <1>2 DEF RevokeBegin, ReadCa, DownloadBegin, AcmeRevokeBegin, DeleteCaBegin, CrlRows,
                CrlHistory, SaveCrl, SaveLast, BumpNumber, BumpFirst
  <2>2. \E l, r : Goto(p, l, r) /\ r.covers \subseteq Pledged
    <3>1. CASE RevokeBegin(p)
      <4>1. PICK c \in DOMAIN certs :
              Goto(p, "read_ca", [NoReg EXCEPT !.cert = c, !.ca = certs[c].ca, !.revokes = TRUE])
        BY <3>1 DEF RevokeBegin
      <4>2. [NoReg EXCEPT !.cert = c, !.ca = certs[c].ca, !.revokes = TRUE].covers = {}
        BY DEF NoReg
      <4> QED BY <4>1, <4>2
    <3>2. CASE DownloadBegin(p)
      <4>1. PICK ca \in DOMAIN number :
              Goto(p, "rows", [NoReg EXCEPT !.ca = ca, !.number = number[ca], !.gen = gen[ca]])
        BY <3>2 DEF DownloadBegin
      <4>2. [NoReg EXCEPT !.ca = ca, !.number = number[ca], !.gen = gen[ca]].covers = {}
        BY DEF NoReg
      <4> QED BY <4>1, <4>2
    <3>3. CASE AcmeRevokeBegin(p)
      BY <1>1, <3>3 DEF AcmeRevokeBegin, NoReg
    <3>4. CASE DeleteCaBegin(p)
      BY <1>1, <3>4 DEF DeleteCaBegin, NoReg
    <3>5. CASE ReadCa(p)
      <4>1. [reg[p] EXCEPT !.number = number[reg[p].ca], !.gen = gen[reg[p].ca]].covers = reg[p].covers
        BY <1>1 DEF Reg
      <4> QED BY <1>1, <3>5, <4>1 DEF ReadCa, Finish
    <3>6. CASE CrlRows(p)
      <4>1. \A S : [reg[p] EXCEPT !.serials = S].covers = reg[p].covers
        BY <1>1 DEF Reg
      <4> QED BY <1>1, <3>6, <4>1 DEF CrlRows
    <3>7. CASE CrlHistory(p)
      <4>1. [reg[p] EXCEPT !.serials = @ \cup RevokedHistorySerials(reg[p].ca)].covers = reg[p].covers
        BY <1>1 DEF Reg
      <4> QED BY <1>1, <3>7, <4>1 DEF CrlHistory
    <3>8. CASE SaveCrl(p) \/ SaveLast(p) \/ BumpNumber(p) \/ BumpFirst(p)
      BY <1>1, <3>8 DEF SaveCrl, SaveLast, BumpNumber, BumpFirst, Finish
    <3> QED BY <1>2, <3>1, <3>2, <3>3, <3>4, <3>5, <3>6, <3>7, <3>8
  <2>3. PICK l, r : Goto(p, l, r) /\ r.covers \subseteq Pledged
    BY <2>2
  <2>4. Pledged' \subseteq Pledged
    BY <2>1, <2>3, PledgedMoves
  <2> QED BY <2>1, <2>4, PledgeKept
<1>3. CASE Mark(p) \/ AcmeMark(p)
  <2>1. PICK c : c = reg[p].cert
    OBVIOUS
  <2>2. RevokeRow(c) /\ UNCHANGED <<signer, promised>> /\ dead \subseteq dead'
    BY <1>3, <2>1 DEF Mark, AcmeMark
  <2>3. /\ DOMAIN certs' = DOMAIN certs
        /\ \A d \in DOMAIN certs : /\ certs'[d].data = certs[d].data
                                   /\ certs[d].revoked \/ d = c => certs'[d].revoked
                                   /\ Worn(d)' = Worn(d)
    BY <2>2, RevokeRowFacts
  <2>4. Pledged' \subseteq Pledged \cup Covered(c)
    <3>1. [reg[p] EXCEPT !.covers = Covered(reg[p].cert)].covers = Covered(c)
      BY <1>1, <2>1 DEF Reg
    <3>2. PICK l, r : Goto(p, l, r) /\ r.covers \subseteq Covered(c)
      BY <1>1, <1>3, <3>1 DEF Mark, AcmeMark, Finish
    <3> QED BY <2>2, <3>2, PledgedMoves
  <2>5. Covered(c) \subseteq DOMAIN signer
    BY WornIssued DEF Covered
  <2>6. WornOnce'
    BY <2>3 DEF PledgeInv, WornOnce
  <2>7. PledgedRevoked'
    <3>1. Pledged' \subseteq DOMAIN signer'
      BY <2>2, <2>4, <2>5 DEF PledgeInv, PledgedRevoked
    <3>2. ASSUME NEW d \in DOMAIN certs, NEW k \in Worn(d), k \in Pledged'
          PROVE  certs'[d].revoked
      <4>1. CASE k \in Pledged
        BY <2>3, <3>2, <4>1 DEF PledgeInv, PledgedRevoked
      <4>2. CASE k \in Covered(c)
        BY <2>3, <3>2, <4>2 DEF PledgeInv, WornOnce, Covered
      <4> QED BY <2>4, <3>2, <4>1, <4>2
    <3> QED BY <2>3, <3>1, <3>2 DEF PledgedRevoked
  <2>8. Heads' = Heads /\ Live' = Live
    BY <2>3 DEF Heads, Live
  <2> QED BY <2>2, <2>6, <2>7, <2>8 DEF PledgeInv, Steady, Forward
<1>4. CASE DeleteCa(p)
  <2>1. PICK G : /\ certs' = [c \in DOMAIN certs \ G |-> certs[c]]
                 /\ versions' = {v \in versions : v.cert \notin G}
    BY <1>4 DEF DeleteCa
  <2>2. UNCHANGED <<signer, dead, promised>> /\ Goto(p, "idle", NoReg)
    BY <1>4 DEF DeleteCa, Finish
  <2>3. /\ Steady
        /\ DOMAIN certs' \subseteq DOMAIN certs
        /\ \A d \in DOMAIN certs' : certs'[d] = certs[d] /\ Worn(d)' = Worn(d)
    BY <2>1, <2>2, RemoveFacts
  <2>4. Pledged' \subseteq Pledged
    BY <1>1, <2>2, PledgedMoves
  <2> QED BY <2>2, <2>3, <2>4 DEF PledgeInv, WornOnce, PledgedRevoked
<1> QED BY <1>2, <1>3, <1>4 DEF Request

LEMMA RestartPledge ==
  ASSUME Inv, PledgeInv, Restart
  PROVE  PledgeInv' /\ Steady
<1>1. UNCHANGED <<certs, versions, signer, dead>>
  BY DEF Restart
<1>2. Pledged' \subseteq Pledged
  BY DEF Restart, Pledged, NoReg
<1> QED BY <1>1, <1>2, PledgeKept

-----------------------------------------------------------------------------
\* Requests: what they gather and publish.

\* A complete list stays complete while nothing new of its CA becomes due.
LEMMA GatheredStays ==
  ASSUME Inv, PledgeInv, Steady, NEW l, NEW r, Gathered(l, r), r.covers \subseteq Pledged,
         Due' \subseteq Pledged,
         \A m \in Due' : signer[m] = r.ca => m \in Due
  PROVE  Gathered(l, r)'
<1>1. Pledged \subseteq DOMAIN signer /\ \A m \in Pledged : signer'[m] = signer[m]
  BY DEF PledgeInv, PledgedRevoked, Steady, Forward
<1>2. \A m \in Pledged : (m \in Heads' => m \in Heads) /\ (m \in Live' => m \in Live)
  BY <1>1 DEF Steady
<1>3. l = "history" =>
        \A m \in Heads' \cap (Due' \cup r.covers) : signer'[m] = r.ca => m \in r.serials
  BY <1>1, <1>2 DEF Gathered
<1>4. l \in Full =>
        \A m \in Live' \cap (Due' \cup r.covers) : signer'[m] = r.ca => m \in r.serials
  BY <1>1, <1>2 DEF Gathered
<1> QED BY <1>3, <1>4 DEF Gathered

LEMMA DueMoves ==
  ASSUME Inv, PledgeInv, Forward, NEW p \in Clients, NEW l, NEW r, Goto(p, l, r),
         l # "bump", promised' = promised
  PROVE  Due' \subseteq Due
<1>1. /\ pc'[p] = l /\ \A q \in Clients : q # p => pc'[q] = pc[q] /\ reg'[q] = reg[q]
  BY DEF Goto, Inv, TypeOK
<1>2. \A q \in Clients : reg[q].covers \subseteq Pledged
  BY DEF Pledged
<1>3. \A m \in Pledged : signer'[m] = signer[m]
  BY DEF PledgeInv, PledgedRevoked, Forward
<1> SUFFICES ASSUME NEW m \in Due', m \notin promised
             PROVE  m \in Due
  BY DEF Due
<1>4. PICK q \in Clients : pc'[q] = "bump" /\ m \in reg'[q].covers /\ signer'[m] = reg'[q].ca
  BY DEF Due
<1> QED BY <1>1, <1>2, <1>3, <1>4 DEF Due

LEMMA DuePledged == Due \subseteq Pledged
BY DEF Due, Pledged

LEMMA FilesStay ==
  ASSUME Inv, PledgeInv, Steady, FilesComplete, Due' \subseteq Due, UNCHANGED <<file, crossed>>
  PROVE  FilesComplete'
<1>1. Due \subseteq DOMAIN signer
  BY DuePledged DEF PledgeInv, PledgedRevoked
<1>2. \A m \in Due : signer'[m] = signer[m] /\ (m \in Live' => m \in Live)
  BY <1>1 DEF Steady, Forward
<1> QED BY <1>2 DEF FilesComplete

\* A request moves and writes no file: only what it carries itself has to be
\* looked at.
LEMMA ListMoves ==
  ASSUME Inv, PledgeInv, ListInv, Steady, NEW p \in Clients, NEW l, NEW r, Goto(p, l, r),
         Due' \subseteq Due, UNCHANGED <<file, order>>, p \in behind \/ Gathered(l, r)'
  PROVE  ListInv'
<1>1. /\ pc'[p] = l /\ reg'[p] = r
      /\ \A q \in Clients : q # p => pc'[q] = pc[q] /\ reg'[q] = reg[q]
  BY DEF Goto, Inv, TypeOK
<1>2. FilesComplete'
  BY FilesStay DEF ListInv, order
<1>3. ASSUME NEW q \in Clients, q \notin behind
      PROVE  Gathered(pc[q], reg[q])'
  <2>1. CASE q = p
    BY <1>1, <1>3, <2>1 DEF Gathered
  <2>2. CASE q # p
    <3>1. PICK k, s : k = pc[q] /\ s = reg[q]
      OBVIOUS
    <3>2. Gathered(k, s) /\ s.covers \subseteq Pledged
      BY <1>3, <3>1 DEF ListInv, Pledged
    <3>3. Gathered(k, s)'
      BY <3>2, DuePledged, GatheredStays
    <3> QED BY <1>1, <2>2, <3>1, <3>3 DEF Gathered
  <2> QED BY <2>1, <2>2
<1> QED BY <1>2, <1>3 DEF ListInv, order

Early == {"idle", "read_ca", "mark", "rows", "acme_mark", "delete_ca"}

LEMMA EarlyGathered ==
  ASSUME NEW l \in Early, NEW r
  PROVE  Gathered(l, r)'
BY DEF Gathered, Early, Full

LEMMA ListReads ==
  ASSUME Inv, PledgeInv, ListInv, Steady, NEW p \in Clients,
         \/ RevokeBegin(p) \/ ReadCa(p) \/ DownloadBegin(p) \/ AcmeRevokeBegin(p)
         \/ DeleteCaBegin(p) \/ Mark(p) \/ AcmeMark(p) \/ DeleteCa(p)
  PROVE  ListInv'
<1>1. UNCHANGED <<file, promised, order>>
  BY DEF RevokeBegin, ReadCa, DownloadBegin, AcmeRevokeBegin, DeleteCaBegin, Mark, AcmeMark, DeleteCa
<1>2. PICK l \in Early : \E r : Goto(p, l, r)
  BY DEF RevokeBegin, ReadCa, DownloadBegin, AcmeRevokeBegin, DeleteCaBegin, Mark, AcmeMark,
         DeleteCa, Finish, Early
<1>3. PICK r : Goto(p, l, r)
  BY <1>2
<1>4. Gathered(l, r)'
  BY EarlyGathered
<1>5. Due' \subseteq Due
  BY <1>1, <1>2, <1>3, DueMoves DEF Steady, Early
<1> QED BY <1>1, <1>3, <1>4, <1>5, ListMoves

\* create_crl_params: first the rows, then the history, are gathered completely.
LEMMA ListGathers ==
  ASSUME Inv, PledgeInv, ListInv, Steady, NEW p \in Clients,
         CrlRows(p) \/ CrlHistory(p) \/ BumpFirst(p)
  PROVE  ListInv'
<1>1. UNCHANGED <<certs, versions, signer, file, promised, order>>
  BY DEF CrlRows, CrlHistory, BumpFirst
<1>2. reg[p] \in Reg /\ (p \in behind \/ Gathered(pc[p], reg[p])) /\ reg[p].covers \subseteq Pledged
  BY DEF Inv, TypeOK, ListInv, Pledged
<1>3. Heads' = Heads /\ Live' = Live
  BY <1>1 DEF Heads, Live, Worn
<1>4. PICK l, r :
        /\ Goto(p, l, r) /\ l # "bump"
        /\ r.ca = reg[p].ca /\ r.covers = reg[p].covers
        /\ p \in behind \/ Gathered(l, r)
  <2>1. CASE CrlRows(p)
    <3>1. PICK r : r = [reg[p] EXCEPT !.serials = {certs[c].data : c \in RevokedRows(reg[p].ca)}]
      OBVIOUS
    <3>2. /\ r.ca = reg[p].ca /\ r.covers = reg[p].covers
          /\ r.serials = {certs[c].data : c \in RevokedRows(reg[p].ca)}
      BY <1>2, <3>1 DEF Reg
    <3>3. Goto(p, "history", r)
      BY <2>1, <3>1 DEF CrlRows
    <3>4. ASSUME NEW m \in Heads \cap (Due \cup r.covers), signer[m] = r.ca
          PROVE  m \in r.serials
      <4>1. PICK c \in DOMAIN certs : m = certs[c].data
        BY DEF Heads
      <4>2. m \in Worn(c) \cap Pledged
        BY <1>2, <3>2, <4>1, DuePledged DEF Worn
      <4>3. certs[c].revoked /\ certs[c].ca = reg[p].ca
        BY <3>2, <3>4, <4>1, <4>2 DEF PledgeInv, PledgedRevoked, Inv, RowsSound
      <4> QED BY <3>2, <4>1, <4>3 DEF RevokedRows
    <3>5. Gathered("history", r)
      BY <3>4 DEF Gathered, Full
    <3> QED BY <3>2, <3>3, <3>5
  <2>2. CASE CrlHistory(p)
    <3>1. PICK r : r = [reg[p] EXCEPT !.serials = @ \cup RevokedHistorySerials(reg[p].ca)]
      OBVIOUS
    <3>2. /\ r.ca = reg[p].ca /\ r.covers = reg[p].covers
          /\ r.serials = reg[p].serials \cup RevokedHistorySerials(reg[p].ca)
      BY <1>2, <3>1 DEF Reg
    <3>3. PICK l \in {"save", "bump_first"} : Goto(p, l, r)
      BY <2>2, <3>1 DEF CrlHistory
    <3>4. ASSUME p \notin behind, NEW m \in Live \cap (Due \cup r.covers), signer[m] = r.ca
          PROVE  m \in r.serials
      <4>1. PICK c \in DOMAIN certs : m \in Worn(c)
        BY DEF Live
      <4>2. certs[c].revoked
        BY <1>2, <3>2, <4>1, DuePledged DEF PledgeInv, PledgedRevoked
      <4>3. CASE m = certs[c].data
        <5>1. m \in Heads \cap (Due \cup reg[p].covers)
          BY <3>2, <4>3 DEF Heads
        <5> QED BY <1>2, <2>2, <3>2, <3>4, <5>1 DEF CrlHistory, Gathered
      <4>4. CASE m # certs[c].data
        <5>1. PICK v \in versions : v.cert = c /\ v.data = m
          BY <4>1, <4>4 DEF Worn
        <5>2. v.hex = m /\ v.ca = reg[p].ca /\ v.hex # Null
          BY <3>2, <3>4, <5>1, TableAssumption DEF Inv, TypeOK, HistorySound, Materials
        <5> QED BY <3>2, <4>2, <5>1, <5>2 DEF RevokedHistorySerials
      <4> QED BY <4>3, <4>4
    <3>5. p \in behind \/ Gathered(l, r)
      BY <3>3, <3>4 DEF Gathered, Full
    <3> QED BY <3>2, <3>3, <3>5
  <2>3. CASE BumpFirst(p)
    <3>1. Goto(p, "save_last", reg[p]) /\ pc[p] = "bump_first"
      BY <2>3 DEF BumpFirst
    <3>2. p \in behind \/ Gathered("save_last", reg[p])
      BY <1>2, <3>1 DEF Gathered, Full
    <3> QED BY <3>1, <3>2
  <2> QED BY <2>1, <2>2, <2>3
<1>5. Due' \subseteq Due
  BY <1>1, <1>4, DueMoves DEF Steady
<1>6. p \in behind \/ Gathered(l, r)'
  BY <1>2, <1>4, <1>5, DuePledged, GatheredStays
<1> QED BY <1>1, <1>4, <1>5, <1>6, ListMoves

\* The file is overwritten.  A list that was read in time has all it has to have;
\* one that was not is recorded in crossed; and what is now due for the CA puts
\* every other list under way behind.
LEMMA ListSaves ==
  ASSUME Inv, PledgeInv, ListInv, Steady, NEW p \in Clients, SaveCrl(p) \/ SaveLast(p)
  PROVE  ListInv'
<1>1. UNCHANGED <<certs, versions, signer, promised>>
  BY DEF SaveCrl, SaveLast
<1>2. PICK r : r = reg[p]
  OBVIOUS
<1>3. /\ r \in Reg /\ r.covers \subseteq Pledged /\ pc[p] \in Full
      /\ p \in behind \/ Gathered(pc[p], r)
  BY <1>2 DEF Inv, TypeOK, ListInv, Pledged, SaveCrl, SaveLast, Full
<1>4. /\ file' = Put(file, r.ca, SignedCrl(r)) /\ SignedCrl(r).serials = r.serials
      /\ crossed' = IF p \in behind THEN crossed \cup {r.ca} ELSE crossed \ {r.ca}
      /\ p \notin behind' /\ behind \ {p} \subseteq behind'
  BY <1>2 DEF SaveCrl, SaveLast, Overwrite, SignedCrl
<1>5. /\ DOMAIN file' = DOMAIN file \cup {r.ca} /\ file'[r.ca].serials = r.serials
      /\ \A ca \in DOMAIN file : ca # r.ca => file'[ca] = file[ca]
  BY <1>4 DEF Put
<1>6. PICK l, k : /\ Goto(p, l, k) /\ l \in {"bump", "idle"} /\ (l = "bump" => k = r)
                  /\ (l = "bump" => SaveCrl(p))
  BY <1>2 DEF SaveCrl, SaveLast, Finish
<1>7. /\ pc'[p] = l /\ reg'[p] = k
      /\ \A q \in Clients : q # p => pc'[q] = pc[q] /\ reg'[q] = reg[q]
  BY <1>6 DEF Goto, Inv, TypeOK
<1>8. \A m \in Due' : m \in Due \/ (l = "bump" /\ m \in r.covers /\ signer[m] = r.ca)
  <2> SUFFICES ASSUME NEW m \in Due', m \notin promised
               PROVE  m \in Due \/ (l = "bump" /\ m \in r.covers /\ signer[m] = r.ca)
    BY <1>1 DEF Due
  <2>1. PICK q \in Clients : pc'[q] = "bump" /\ m \in reg'[q].covers /\ signer[m] = reg'[q].ca
    BY <1>1 DEF Due
  <2>2. CASE q = p
    BY <1>6, <1>7, <2>1, <2>2
  <2>3. CASE q # p
    <3>1. m \in Pledged
      BY <1>7, <2>1, <2>3 DEF Pledged
    <3> QED BY <1>7, <2>1, <2>3, <3>1 DEF Due
  <2> QED BY <2>2, <2>3
<1>9. Due' \subseteq Pledged
  BY <1>3, <1>8, DuePledged
<1>10. Live' = Live
  BY <1>1 DEF Live, Worn
<1>11. FilesComplete'
  <2> SUFFICES ASSUME NEW m \in Live, m \in Due', signer[m] \notin crossed'
               PROVE  signer[m] \in DOMAIN file' /\ m \in file'[signer[m]].serials
    BY <1>1, <1>10 DEF FilesComplete
  <2>1. CASE signer[m] = r.ca
    <3>1. p \notin behind
      BY <1>4, <2>1
    <3>2. m \in Due \cup r.covers
      BY <1>8
    <3>3. m \in r.serials
      BY <1>3, <2>1, <3>1, <3>2 DEF Gathered
    <3> QED BY <1>5, <2>1, <3>3
  <2>2. CASE signer[m] # r.ca
    <3>1. m \in Due /\ signer[m] \notin crossed
      BY <1>4, <1>8, <2>2
    <3> QED BY <1>5, <2>2, <3>1 DEF ListInv, FilesComplete
  <2> QED BY <2>1, <2>2
<1>12. ASSUME NEW q \in Clients, q \notin behind'
       PROVE  Gathered(pc[q], reg[q])'
  <2>1. CASE q = p
    <3>1. Gathered(l, k)'
      BY <1>6 DEF Gathered, Full
    <3> QED BY <1>7, <2>1, <3>1 DEF Gathered
  <2>2. CASE q # p
    <3>1. PICK a, s : a = pc[q] /\ s = reg[q]
      OBVIOUS
    <3>2. Gathered(a, s) /\ s.covers \subseteq Pledged
      BY <1>4, <1>12, <2>2, <3>1 DEF ListInv, Pledged
    <3>3. CASE a \in Full \cup {"history"}
      <4>1. \A m \in Due' : signer[m] = s.ca => m \in Due
        <5>1. l = "bump" => s.ca # r.ca
          BY <1>2, <1>6, <1>12, <2>2, <3>1, <3>3 DEF SaveCrl, Building, Full
        <5> QED BY <1>8, <5>1
      <4>2. Gathered(a, s)'
        BY <1>9, <3>2, <4>1, GatheredStays
      <4> QED BY <1>7, <2>2, <3>1, <4>2 DEF Gathered
    <3>4. CASE a \notin Full \cup {"history"}
      BY <1>7, <2>2, <3>1, <3>4 DEF Gathered
    <3> QED BY <3>3, <3>4
  <2> QED BY <2>1, <2>2
<1> QED BY <1>11, <1>12 DEF ListInv

\* The caller is told: what is now promised was due already.
LEMMA ListTells ==
  ASSUME Inv, PledgeInv, ListInv, Steady, NEW p \in Clients, BumpNumber(p)
  PROVE  ListInv'
<1>1. UNCHANGED <<signer, file, order>> /\ Goto(p, "idle", NoReg) /\ pc[p] = "bump"
  BY DEF BumpNumber, Finish
<1>2. /\ pc'[p] = "idle"
      /\ \A q \in Clients : q # p => pc'[q] = pc[q] /\ reg'[q] = reg[q]
  BY <1>1 DEF Goto, Inv, TypeOK
<1>3. promised' \subseteq Due
  BY <1>1 DEF BumpNumber, Due, Pledged
<1>4. Due' \subseteq Due
  <2> SUFFICES ASSUME NEW m \in Due', m \notin promised'
               PROVE  m \in Due
    BY <1>3 DEF Due
  <2>1. PICK q \in Clients : pc'[q] = "bump" /\ m \in reg'[q].covers /\ signer[m] = reg'[q].ca
    BY <1>1 DEF Due
  <2>2. q # p /\ m \in reg[q].covers /\ pc[q] = "bump" /\ reg'[q] = reg[q]
    BY <1>2, <2>1
  <2> QED BY <2>1, <2>2 DEF Due, Pledged
<1>5. Gathered("idle", NoReg)'
  BY DEF Gathered, Full
<1> QED BY <1>1, <1>4, <1>5, ListMoves

LEMMA ListWorld ==
  ASSUME Inv, PledgeInv, ListInv, Steady, World
  PROVE  ListInv'
<1>1. UNCHANGED <<file, promised, pc, reg, order>>
  BY DEF World, CreateCa, Issue, Renew, DeleteCert
<1>2. \A m \in Pledged : signer'[m] = signer[m]
  BY DEF PledgeInv, PledgedRevoked, Steady, Forward
<1>3. Pledged' = Pledged
  BY <1>1 DEF Pledged
<1>4. Due' \subseteq Due
  BY <1>1, <1>2, <1>3 DEF Due
<1>5. FilesComplete'
  BY <1>1, <1>4, FilesStay DEF ListInv, order
<1>6. ASSUME NEW q \in Clients, q \notin behind
      PROVE  Gathered(pc[q], reg[q])'
  <2>1. PICK a, s : a = pc[q] /\ s = reg[q]
    OBVIOUS
  <2>2. Gathered(a, s) /\ s.covers \subseteq Pledged
    BY <1>6, <2>1 DEF ListInv, Pledged
  <2>3. Gathered(a, s)'
    BY <1>4, <2>2, DuePledged, GatheredStays
  <2> QED BY <1>1, <2>1, <2>3 DEF Gathered
<1> QED BY <1>1, <1>5, <1>6 DEF ListInv, order

LEMMA ListRestart ==
  ASSUME Inv, PledgeInv, ListInv, Steady, Restart
  PROVE  ListInv'
<1>1. UNCHANGED <<signer, file, promised, crossed>> /\ \A q \in Clients : pc'[q] = "idle"
  BY DEF Restart
<1>2. Due' \subseteq Due
  BY <1>1 DEF Due
<1>3. \A q \in Clients : Gathered(pc[q], reg[q])'
  BY <1>1 DEF Gathered, Full
<1> QED BY <1>1, <1>2, <1>3, FilesStay DEF ListInv

LEMMA PublishedInit ==
  ASSUME Init
  PROVE  PledgeInv /\ ListInv
<1>1. certs = Empty /\ promised = {} /\ \A p \in Clients : pc[p] = "idle" /\ reg[p].covers = {}
  BY DEF Init, NoReg
<1>2. DOMAIN certs = {} /\ Pledged = {}
  BY <1>1 DEF Empty, Pledged
<1>3. PledgeInv
  BY <1>2 DEF PledgeInv, WornOnce, PledgedRevoked
<1>4. ListInv
  BY <1>1, <1>2, DuePledged DEF ListInv, FilesComplete, Gathered, Full
<1> QED BY <1>3, <1>4

LEMMA PublishedNext ==
  ASSUME Inv, PledgeInv, ListInv, [Next]_vars
  PROVE  PledgeInv' /\ ListInv'
<1>1. ASSUME NEW p \in Clients, Request(p)
      PROVE  PledgeInv' /\ ListInv'
  <2>1. PledgeInv' /\ Steady
    BY <1>1, RequestPledge
  <2> QED BY <1>1, <2>1, ListReads, ListGathers, ListSaves, ListTells DEF Request
<1>2. CASE World
  BY <1>2, WorldPledge, ListWorld
<1>3. CASE Restart
  BY <1>3, RestartPledge, ListRestart
<1>4. CASE UNCHANGED vars
  <2>1. UNCHANGED <<certs, versions, signer, dead, file, promised, pc, reg, behind, crossed>>
    BY <1>4 DEF vars, order
  <2>2. PledgeInv' /\ Steady
    BY <2>1, PledgeKept DEF Pledged
  <2> QED BY <2>1, <2>2 DEF ListInv, Gathered, FilesComplete, Heads, Live, Worn, Due, Pledged
<1> QED BY <1>1, <1>2, <1>3, <1>4 DEF Next

\* Once revoke_cert_and_update_crl has answered, the CRL of the CA lists the
\* certificate's serials and every CRL that is built later still does, for any
\* number of revocations and downloads at once: a list is complete when it is
\* written, although rows and history are read in two calls between which
\* certificates are renewed, deleted and issued, ids come back and the server
\* may stop.  Only a request that had read before another revocation saved may
\* leave a file behind that lacks a serial, until the next build.
THEOREM AcknowledgedStaysPublished == Spec => []PublishedStays
<1>1. PledgeInv /\ ListInv => PublishedStays
  BY DEF ListInv, FilesComplete, PublishedStays, Live, Due
<1>2. Init => PledgeInv /\ ListInv
  BY PublishedInit
<1>3. Inv /\ PledgeInv /\ ListInv /\ [Next]_vars => PledgeInv' /\ ListInv'
  BY PublishedNext
<1> QED BY <1>1, <1>2, <1>3, InvInit, InvNext, PTL DEF Spec

=============================================================================
