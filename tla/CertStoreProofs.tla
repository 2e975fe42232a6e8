--------------------------- MODULE CertStoreProofs ---------------------------
(***************************************************************************)
(* Proofs about CertStore, for every number of requests, certificates and  *)
(* materials and every set of operations.                                  *)
(*                                                                         *)
(* No theorem restricts the interleaving: RaceInv (last part) says what a  *)
(* handler may rely on between its calls while no mark is set.             *)
(*                                                                         *)
(* The inductive invariant Inv has two halves.  TableInv speaks of the     *)
(* tables and of what has been issued; RegInv of what a process carries    *)
(* from one database call to the next.  Every database call is shown to    *)
(* keep TableInv in a lemma of its own; an action then only has to supply  *)
(* the lemma's premises from RegInv.                                       *)
(***************************************************************************)
EXTENDS CertStore, TLAPS

\* Every stored content has been issued.
Known ==
  /\ \A c \in DOMAIN certs : certs[c].data \in DOMAIN issued
  /\ \A v \in versions : v.data \in DOMAIN issued

\* An ACME row has no internal issuer and is not imported.
AcmeApart == \A c \in DOMAIN certs : certs[c].acme => certs[c].ca = Null /\ ~certs[c].imported

IssuedType ==
  /\ DOMAIN issued \subseteq Materials
  /\ issued \in [DOMAIN issued -> Attributes]
  /\ uploaded \subseteq DOMAIN issued

TableInv ==
  /\ TableTypeOK
  /\ IssuedType
  /\ Known
  /\ AcmeApart
  /\ HistoryBelowCurrent
  /\ CaTruthful
  /\ OriginSeparated

HasMaterial == {"create_insert", "import_check", "import_insert", "set_serial", "update_check",
                "update_replace", "acme_insert", "acme_reread", "acme_replace", "renew_replace"}

HasUpload == {"import_check", "import_insert", "update_check", "update_replace"}

HasAcme == {"acme_insert", "acme_reread", "acme_replace"}

\* What a process holds between two calls.
RegInv ==
  \A p \in Procs :
    /\ pc[p] \in HasMaterial => reg[p].m \in DOMAIN issued
    /\ pc[p] \in HasUpload => reg[p].m \in uploaded
    /\ pc[p] \in HasAcme => issued[reg[p].m].origin = "acme"

ProcType ==
  /\ orders \subseteq CertIds
  /\ silent \subseteq Materials
  /\ pc \in [Procs -> Labels]
  /\ reg \in [Procs -> Reg]
  /\ DOMAIN todo \subseteq CertIds
  /\ todo \in [DOMAIN todo -> Row]

Inv == TableInv /\ RegInv /\ ProcType

-----------------------------------------------------------------------------
\* What Mint does: the new material is new, nothing else changes.
LEMMA MintFacts ==
  ASSUME IssuedType, NEW m, NEW a \in Attributes, Mint(m, a)
  PROVE  /\ m \in Materials
         /\ m \notin DOMAIN issued
         /\ DOMAIN issued' = DOMAIN issued \cup {m}
         /\ issued' \in [DOMAIN issued' -> Attributes]
         /\ issued'[m] = a
         /\ \A k \in DOMAIN issued : issued'[k] = issued[k]
<1>1. m \in Materials /\ m \in Nat
  BY TableAssumption DEF Mint, Materials
<1>2. m \notin DOMAIN issued
  BY <1>1 DEF Mint, IssuedType, Materials
<1>3. issued' = [y \in DOMAIN issued \cup {m} |-> IF y = m THEN a ELSE issued[y]]
  BY DEF Mint, Put
<1>4. DOMAIN issued' = DOMAIN issued \cup {m}
  BY <1>3
<1>5. issued'[m] = a /\ \A k \in DOMAIN issued : issued'[k] = issued[k]
  BY <1>2, <1>3
<1>6. issued' \in [DOMAIN issued' -> Attributes]
  BY <1>2, <1>3, <1>4 DEF IssuedType
<1> QED BY <1>1, <1>2, <1>4, <1>5, <1>6

\* Issuing and uploading do not disturb what is stored.
Grows ==
  /\ IssuedType'
  /\ DOMAIN issued \subseteq DOMAIN issued'
  /\ \A k \in DOMAIN issued : issued'[k] = issued[k]
  /\ uploaded \subseteq uploaded'

LEMMA GrowsMint ==
  ASSUME IssuedType, NEW m, NEW a \in Attributes, Mint(m, a), uploaded' = uploaded
  PROVE  Grows
<1>1. /\ m \in Materials
      /\ DOMAIN issued' = DOMAIN issued \cup {m}
      /\ issued' \in [DOMAIN issued' -> Attributes]
      /\ \A k \in DOMAIN issued : issued'[k] = issued[k]
  BY MintFacts
<1> QED BY <1>1 DEF Grows, IssuedType

LEMMA GrowsUpload ==
  ASSUME IssuedType, NEW m, NEW a \in Attributes, Upload(m, a)
  PROVE  Grows /\ m \in DOMAIN issued' /\ m \in uploaded'
<1>1. CASE Mint(m, a)
  <2>1. /\ m \in Materials
        /\ DOMAIN issued' = DOMAIN issued \cup {m}
        /\ issued' \in [DOMAIN issued' -> Attributes]
        /\ \A k \in DOMAIN issued : issued'[k] = issued[k]
    BY <1>1, MintFacts
  <2> QED BY <2>1 DEF Grows, IssuedType, Upload
<1>2. CASE m \in DOMAIN issued /\ UNCHANGED issued
  BY <1>2 DEF Grows, IssuedType, Upload
<1> QED BY <1>1, <1>2 DEF Upload

LEMMA TableGrows ==
  ASSUME TableInv, Grows, UNCHANGED <<certs, versions>>
  PROVE  TableInv'
<1> USE DEF TableInv, Grows
<1>1. TableTypeOK' BY DEF TableTypeOK
<1>2. Known' BY DEF Known
<1>3. AcmeApart' BY DEF AcmeApart
<1>4. HistoryBelowCurrent' BY DEF HistoryBelowCurrent
<1>5. CaTruthful' BY DEF CaTruthful, Known
<1>6. OriginSeparated'
  BY DEF OriginSeparated, Held, Known
<1> QED BY <1>1, <1>2, <1>3, <1>4, <1>5, <1>6

-----------------------------------------------------------------------------
\* One lemma per database call.  None of these calls issues anything.

Still == UNCHANGED <<issued, uploaded>>

LEMMA TableInsert ==
  ASSUME TableInv, Still, NEW c \in CertIds, NEW r \in Row,
         IsNextRowid(c), InsertRow(c, r),
         r.data \in DOMAIN issued,
         r.ca \in {Null, issued[r.data].ca},
         r.acme => r.ca = Null /\ ~r.imported /\ issued[r.data].origin = "acme",
         r.imported => r.data \in uploaded
  PROVE  TableInv'
<1>1. c \notin DOMAIN certs
  BY DEF IsNextRowid, CertIds
<1>2. certs' = [y \in DOMAIN certs \cup {c} |-> IF y = c THEN r ELSE certs[y]]
  BY DEF InsertRow, Put
<1>3. /\ DOMAIN certs' = DOMAIN certs \cup {c}
      /\ certs'[c] = r
      /\ \A d \in DOMAIN certs : certs'[d] = certs[d]
      /\ versions' = versions
  BY <1>1, <1>2 DEF InsertRow
<1>4. TableTypeOK'
  BY <1>2, <1>3 DEF TableInv, TableTypeOK
<1>5. IssuedType' /\ Known'
  BY <1>3 DEF TableInv, Known, IssuedType, Still
<1>6. AcmeApart'
  BY <1>3 DEF TableInv, AcmeApart
<1>7. HistoryBelowCurrent'
  BY <1>3 DEF TableInv, HistoryBelowCurrent
<1>8. CaTruthful'
  BY <1>3 DEF TableInv, CaTruthful, Still
<1>9. OriginSeparated'
  <2>1. \A v \in versions : v.cert # c
    BY <1>1 DEF TableInv, HistoryBelowCurrent
  <2>2. Held(c)' = {r.data}
    BY <1>3, <2>1 DEF Held
  <2>3. \A d \in DOMAIN certs : Held(d)' = Held(d)
    BY <1>3 DEF Held
  <2> QED BY <1>3, <2>2, <2>3 DEF TableInv, OriginSeparated, Still
<1> QED BY <1>4, <1>5, <1>6, <1>7, <1>8, <1>9 DEF TableInv

\* A call that writes other columns than data, version and ca_id.
SameContent(r, s) ==
  /\ s \in Row
  /\ s.data = r.data /\ s.version = r.version /\ s.ca = r.ca
  /\ s.imported = r.imported /\ (s.acme => r.acme)

LEMMA TableColumns ==
  ASSUME TableInv, Still, versions' = versions,
         DOMAIN certs' = DOMAIN certs,
         certs' = [c \in DOMAIN certs |-> certs'[c]],
         \A c \in DOMAIN certs : SameContent(certs[c], certs'[c])
  PROVE  TableInv'
<1>1. TableTypeOK'
  BY DEF TableInv, TableTypeOK, SameContent
<1>2. IssuedType' /\ Known'
  BY DEF TableInv, Known, IssuedType, Still, SameContent
<1>3. AcmeApart'
  BY DEF TableInv, AcmeApart, SameContent
<1>4. HistoryBelowCurrent'
  BY DEF TableInv, HistoryBelowCurrent, SameContent
<1>5. CaTruthful'
  BY DEF TableInv, CaTruthful, Still, SameContent
<1>6. OriginSeparated'
  <2>1. \A d \in DOMAIN certs : Held(d)' = Held(d)
    BY DEF Held, SameContent
  <2> QED BY <2>1 DEF TableInv, OriginSeparated, Still, SameContent
<1> QED BY <1>1, <1>2, <1>3, <1>4, <1>5, <1>6 DEF TableInv

LEMMA TableUpdateRow ==
  ASSUME TableInv, Still, NEW c, NEW r, UpdateRow(c, r),
         c \in DOMAIN certs => SameContent(certs[c], r)
  PROVE  TableInv'
<1>1. DOMAIN certs' = DOMAIN certs /\ versions' = versions
  BY DEF UpdateRow
<1>2. \A d \in DOMAIN certs : certs[d] \in Row
  BY DEF TableInv, TableTypeOK
<1>3. \A d \in DOMAIN certs : SameContent(certs[d], certs'[d])
  BY <1>2 DEF UpdateRow, SameContent
<1>4. certs' = [d \in DOMAIN certs |-> certs'[d]]
  BY DEF UpdateRow, TableInv, TableTypeOK
<1> QED BY <1>1, <1>3, <1>4, TableColumns

LEMMA TableDelete ==
  ASSUME TableInv, Still, NEW c, DeleteRow(c)
  PROVE  TableInv'
<1>1. /\ DOMAIN certs' = DOMAIN certs \ {c}
      /\ \A d \in DOMAIN certs' : certs'[d] = certs[d]
      /\ versions' = {v \in versions : v.cert # c}
  BY DEF DeleteRow
<1>2. TableTypeOK'
  BY <1>1 DEF TableInv, TableTypeOK, DeleteRow
<1>3. IssuedType' /\ Known'
  BY <1>1 DEF TableInv, Known, IssuedType, Still
<1>4. AcmeApart'
  BY <1>1 DEF TableInv, AcmeApart
<1>5. HistoryBelowCurrent'
  BY <1>1 DEF TableInv, HistoryBelowCurrent
<1>6. CaTruthful'
  BY <1>1 DEF TableInv, CaTruthful, Still
<1>7. OriginSeparated'
  <2>1. \A d \in DOMAIN certs' : Held(d)' = Held(d)
    BY <1>1 DEF Held
  <2> QED BY <1>1, <2>1 DEF TableInv, OriginSeparated, Still
<1> QED BY <1>2, <1>3, <1>4, <1>5, <1>6, <1>7 DEF TableInv

LEMMA TablePurge ==
  ASSUME TableInv, Still, NEW c, NEW n, DeleteVersion(c, n)
  PROVE  TableInv'
<1>1. certs' = certs /\ versions' \subseteq versions
  BY DEF DeleteVersion
<1>2. TableTypeOK'
  BY <1>1 DEF TableInv, TableTypeOK
<1>3. IssuedType' /\ Known'
  BY <1>1 DEF TableInv, Known, IssuedType, Still
<1>4. AcmeApart'
  BY <1>1 DEF TableInv, AcmeApart
<1>5. HistoryBelowCurrent'
  BY <1>1 DEF TableInv, HistoryBelowCurrent
<1>6. CaTruthful'
  BY <1>1 DEF TableInv, CaTruthful, Still
<1>7. OriginSeparated'
  <2>1. \A d \in DOMAIN certs : Held(d)' \subseteq Held(d)
    BY <1>1 DEF Held
  <2> QED BY <1>1, <2>1 DEF TableInv, OriginSeparated, Still
<1> QED BY <1>2, <1>3, <1>4, <1>5, <1>6, <1>7 DEF TableInv

\* What replace_certificate writes over a row is a row.
LEMMA ReplacementFacts ==
  ASSUME NEW r \in Row, NEW m \in Materials, NEW ca \in CAs \cup {Null},
         NEW renew \in RenewMethods \cup {"keep"}
  PROVE  /\ Replacement(r, m, ca, renew) \in Row
         /\ Replacement(r, m, ca, renew).data = m
         /\ Replacement(r, m, ca, renew).version = r.version + 1
         /\ Replacement(r, m, ca, renew).imported = r.imported
         /\ Replacement(r, m, ca, renew).acme = r.acme
         /\ Replacement(r, m, ca, renew).ca = IF ca = Null THEN r.ca ELSE ca
<1> DEFINE kept == IF renew = "keep" THEN r.renew ELSE renew
           signer == IF ca = Null THEN r.ca ELSE ca
           next == r.version + 1
<1>1. kept \in RenewMethods /\ signer \in CAs \cup {Null} /\ next \in Nat
  BY DEF Row, RenewMethods
<1>2. Replacement(r, m, ca, renew) =
        [r EXCEPT !.data = m, !.hex = m, !.fp = TRUE, !.version = next,
                  !.ca = signer, !.renew = kept]
  BY DEF Replacement, Row
<1> HIDE DEF kept, signer, next
<1>3. [r EXCEPT !.data = m, !.hex = m, !.fp = TRUE, !.version = next,
                !.ca = signer, !.renew = kept] \in Row
  BY <1>1 DEF Row
<1> QED BY <1>2, <1>3 DEF Row, kept, signer, next

\* The transaction of every rotation.  What its caller has to bring along depends
\* on the guard it asks for.
LEMMA TableReplace ==
  ASSUME TableInv, Still, NEW c, NEW m \in DOMAIN issued, NEW ca,
         NEW renew \in RenewMethods \cup {"keep"}, NEW guard \in ReplaceGuards,
         ReplaceCertificate(c, m, ca, renew, guard),
         guard = "imported_manual" => m \in uploaded /\ ca = issued[m].ca,
         guard = "renewal" => ca = issued[m].ca,
         guard = "acme_renewal" => ca = Null /\ issued[m].origin = "acme"
  PROVE  TableInv'
<1>1. CASE ~(c \in DOMAIN certs /\ MayReplace(guard, certs[c]))
  <2>1. UNCHANGED <<certs, versions>>
    BY <1>1 DEF ReplaceCertificate
  <2>2. Grows
    BY DEF Grows, Still, TableInv, IssuedType
  <2> QED BY <2>1, <2>2, TableGrows
<1>2. CASE c \in DOMAIN certs /\ MayReplace(guard, certs[c])
  <2> DEFINE r == certs[c]
             s == Replacement(r, m, ca, renew)
  <2>1. /\ certs' = [certs EXCEPT ![c] = s]
        /\ versions' = versions \cup {Superseded(c)}
    BY <1>2 DEF ReplaceCertificate
  <2>2. r \in Row /\ m \in Materials /\ issued[m] \in Attributes
    BY <1>2 DEF TableInv, TableTypeOK, IssuedType
  <2>3. issued[m].ca \in CAs /\ issued[m].ca # Null
    BY <2>2, TableAssumption DEF Attributes
  <2>4. /\ s \in Row
        /\ s.data = m
        /\ s.version = r.version + 1
        /\ s.imported = r.imported
        /\ s.acme = r.acme
        /\ s.ca = IF ca = Null THEN r.ca ELSE ca
    <3>1. ca \in CAs \cup {Null}
      BY <2>3 DEF ReplaceGuards
    <3>2. renew \in RenewMethods \cup {"keep"}
      OBVIOUS
    <3>3. \A q \in Row :
            /\ Replacement(q, m, ca, renew) \in Row
            /\ Replacement(q, m, ca, renew).data = m
            /\ Replacement(q, m, ca, renew).version = q.version + 1
            /\ Replacement(q, m, ca, renew).imported = q.imported
            /\ Replacement(q, m, ca, renew).acme = q.acme
            /\ Replacement(q, m, ca, renew).ca = IF ca = Null THEN q.ca ELSE ca
      BY <2>2, <3>1, <3>2, ReplacementFacts
    <3> QED BY <2>2, <3>3
  <2>5. /\ Superseded(c) \in VersionRow
        /\ Superseded(c).cert = c
        /\ Superseded(c).version = r.version
        /\ Superseded(c).data = r.data
        /\ Superseded(c).ca = r.ca
    BY <1>2, <2>2 DEF Superseded, VersionRow, Row, TableInv, TableTypeOK
  <2>6. /\ DOMAIN certs' = DOMAIN certs
        /\ certs'[c] = s
        /\ \A d \in DOMAIN certs : d # c => certs'[d] = certs[d]
    BY <1>2, <2>1
  <2> HIDE DEF s
  <2>7. TableTypeOK'
    <3>1. versions' \subseteq VersionRow
      BY <2>1, <2>5 DEF TableInv, TableTypeOK
    <3> QED BY <2>1, <2>4, <2>6, <3>1 DEF TableInv, TableTypeOK
  <2>8. IssuedType' /\ Known'
    BY <1>2, <2>1, <2>4, <2>5, <2>6 DEF TableInv, IssuedType, Known, Still
  <2>9. /\ r.acme => guard = "acme_renewal" /\ r.ca = Null /\ ~r.imported
        /\ r.imported => guard = "imported_manual"
        /\ guard = "acme_renewal" => r.ca = Null /\ r.acme
    BY <1>2 DEF MayReplace, ImportedManualGuard, RenewalGuard, AcmeRenewalGuard, TableInv, AcmeApart
  <2>10. AcmeApart'
    BY <2>4, <2>6, <2>9 DEF TableInv, AcmeApart
  <2>11. HistoryBelowCurrent'
    <3>1. r.version \in Nat
      BY <2>2 DEF Row
    <3>2. \A v \in versions : v.cert \in DOMAIN certs' /\ v.version < certs'[v.cert].version
      <4> TAKE v \in versions
      <4>1. /\ v.cert \in DOMAIN certs
            /\ v.version < certs[v.cert].version
            /\ v.version \in Nat
        BY DEF TableInv, HistoryBelowCurrent, TableTypeOK, VersionRow
      <4> QED BY <2>4, <2>6, <3>1, <4>1
    <3>3. \A v \in versions : v.cert = c => v.version # r.version
      <4> TAKE v \in versions
      <4>1. v.version < certs[v.cert].version /\ v.version \in Nat
        BY DEF TableInv, HistoryBelowCurrent, TableTypeOK, VersionRow
      <4> QED BY <3>1, <4>1
    <3>4. c \in DOMAIN certs' /\ r.version < certs'[c].version
      BY <1>2, <2>4, <2>6, <3>1
    <3> QED BY <2>1, <2>5, <3>2, <3>3, <3>4 DEF TableInv, HistoryBelowCurrent
  <2>12. CaTruthful'
    <3>1. s.ca \in {Null, issued[m].ca}
      BY <2>3, <2>4, <2>9 DEF ReplaceGuards
    <3>2. r.ca \in {Null, issued[r.data].ca}
      BY <1>2 DEF TableInv, CaTruthful
    <3> QED BY <2>1, <2>4, <2>5, <2>6, <3>1, <3>2 DEF TableInv, CaTruthful, Still
  <2>13. OriginSeparated'
    <3>1. Held(c)' \subseteq Held(c) \cup {m}
      BY <2>1, <2>4, <2>5, <2>6 DEF Held
    <3>2. \A d \in DOMAIN certs : d # c => Held(d)' = Held(d)
      BY <2>1, <2>5, <2>6 DEF Held
    <3>3. /\ certs[c].imported => m \in uploaded
          /\ certs[c].acme => issued[m].origin = "acme"
      BY <2>9
    <3>4. /\ certs'[c].imported => Held(c)' \subseteq uploaded'
          /\ certs'[c].acme => \A k \in Held(c)' : issued'[k].origin = "acme"
      BY <1>2, <2>4, <2>6, <3>1, <3>3 DEF TableInv, OriginSeparated, Still
    <3> QED BY <2>6, <3>2, <3>4 DEF TableInv, OriginSeparated, Still
  <2> QED BY <2>7, <2>8, <2>10, <2>11, <2>12, <2>13 DEF TableInv
<1> QED BY <1>1, <1>2

LEMMA TableForget ==
  ASSUME TableInv, Still, ForgetProvider
  PROVE  TableInv'
<1>1. \A c \in DOMAIN certs : certs[c] \in Row
  BY DEF TableInv, TableTypeOK
<1>2. DOMAIN certs' = DOMAIN certs /\ versions' = versions
  BY DEF ForgetProvider
<1>3. \A c \in DOMAIN certs : SameContent(certs[c], certs'[c])
  BY <1>1 DEF ForgetProvider, SameContent, Row
<1>4. certs' = [c \in DOMAIN certs |-> certs'[c]]
  BY DEF ForgetProvider
<1> QED BY <1>2, <1>3, <1>4, TableColumns

LEMMA TableBackfill ==
  ASSUME TableInv, Still, Backfill
  PROVE  TableInv'
<1>1. \A c \in DOMAIN certs : certs[c] \in Row
  BY DEF TableInv, TableTypeOK
<1>2. DOMAIN certs' = DOMAIN certs /\ versions' = versions
  BY DEF Backfill
<1>3. \A c \in DOMAIN certs : SameContent(certs[c], certs'[c])
  BY <1>1 DEF Backfill, SameContent, Row
<1>4. certs' = [c \in DOMAIN certs |-> certs'[c]]
  BY DEF Backfill
<1> QED BY <1>2, <1>3, <1>4, TableColumns

-----------------------------------------------------------------------------
\* One lemma for the move of a process to its next call: what it now holds is
\* what the call needs, and the other variables keep their types.

Carries(l, r) ==
  /\ l \in Labels /\ r \in Reg
  /\ l \in HasMaterial => r.m \in DOMAIN issued'
  /\ l \in HasUpload => r.m \in uploaded'
  /\ l \in HasAcme => issued'[r.m].origin = "acme"

OthersTyped ==
  /\ orders' \subseteq CertIds
  /\ silent' \subseteq Materials
  /\ DOMAIN todo' \subseteq CertIds
  /\ todo' \in [DOMAIN todo' -> Row]

LEMMA StepInv ==
  ASSUME Inv, TableInv', Grows, OthersTyped,
         NEW p \in Procs, NEW l, NEW r, Goto(p, l, r), Carries(l, r)
  PROVE  Inv'
<1>1. /\ pc' = [pc EXCEPT ![p] = l] /\ reg' = [reg EXCEPT ![p] = r]
      /\ pc \in [Procs -> Labels] /\ reg \in [Procs -> Reg]
  BY DEF Goto, Inv, ProcType
<1>2. pc' \in [Procs -> Labels] /\ reg' \in [Procs -> Reg]
  BY <1>1 DEF Carries
<1>3. RegInv'
  <2> SUFFICES ASSUME NEW q \in Procs
               PROVE  /\ pc'[q] \in HasMaterial => reg'[q].m \in DOMAIN issued'
                      /\ pc'[q] \in HasUpload => reg'[q].m \in uploaded'
                      /\ pc'[q] \in HasAcme => issued'[reg'[q].m].origin = "acme"
    BY DEF RegInv
  <2>1. CASE q = p
    BY <1>1, <2>1 DEF Carries
  <2>2. CASE q # p
    <3>1. pc'[q] = pc[q] /\ reg'[q] = reg[q]
      BY <1>1, <2>2
    <3>2. HasAcme \subseteq HasMaterial
      BY DEF HasAcme, HasMaterial
    <3> QED BY <3>1, <3>2 DEF Inv, RegInv, Grows
  <2> QED BY <2>1, <2>2
<1> QED BY <1>2, <1>3 DEF Inv, ProcType, OthersTyped

LEMMA NoRegType == NoReg \in Reg /\ "idle" \in Labels /\ "scan" \in Labels
BY DEF NoReg, Reg, Labels, RenewMethods

\* The common ending: the handler is done and forgets.
LEMMA FinishInv ==
  ASSUME Inv, TableInv', Grows, OthersTyped, NEW p \in Procs, Finish(p)
  PROVE  Inv'
<1>1. Carries("idle", NoReg)
  BY NoRegType DEF Carries, HasMaterial, HasUpload, HasAcme
<1> QED BY <1>1, StepInv DEF Finish

LEMMA StillGrows ==
  ASSUME Inv, Still
  PROVE  Grows
BY DEF Inv, TableInv, IssuedType, Grows, Still

LEMMA OthersUnchanged ==
  ASSUME Inv, UNCHANGED <<orders, silent, todo>>
  PROVE  OthersTyped
BY DEF Inv, ProcType, OthersTyped

\* Choices the user makes are renewal methods, and what `Chosen' records are
\* materials.
LEMMA ChosenType ==
  ASSUME Inv, NEW m \in Materials, NEW rn, Chosen(m, rn), UNCHANGED <<orders, todo>>
  PROVE  OthersTyped
BY DEF Inv, ProcType, OthersTyped, Chosen

-----------------------------------------------------------------------------
\* The inductive invariant, one lemma per group of handlers.

LEMMA InvCreate ==
  ASSUME Inv, NEW p \in Clients, CreateBegin(p) \/ CreateInsert(p) \/ RecordSerial(p)
  PROVE  Inv'
<1> p \in Procs BY DEF Procs
<1>1. CASE CreateBegin(p)
  <2>1. PICK m \in Materials, a \in Attributes, rn \in Choices :
          /\ a.origin = "internal"
          /\ Mint(m, a)
          /\ Goto(p, "create_insert", [NoReg EXCEPT !.m = m, !.renew = rn])
          /\ Chosen(m, rn)
    BY <1>1 DEF CreateBegin
  <2>2. Grows /\ m \in DOMAIN issued'
    BY <1>1, <2>1, GrowsMint, MintFacts DEF CreateBegin, Inv, TableInv
  <2>3. TableInv'
    BY <1>1, <2>2, TableGrows DEF CreateBegin, Inv
  <2>4. Carries("create_insert", [NoReg EXCEPT !.m = m, !.renew = rn])
    BY <2>2, StoreAssumption DEF Carries, Labels, Reg, NoReg, HasUpload, HasAcme, RenewMethods
  <2>5. OthersTyped
    BY <1>1, <2>1, ChosenType DEF CreateBegin
  <2> QED BY <2>1, <2>2, <2>3, <2>4, <2>5, StepInv
<1>2. CASE CreateInsert(p)
  <2> DEFINE r == NewRow(reg[p].m, issued[reg[p].m].ca, FALSE, FALSE, reg[p].renew)
  <2>1. /\ reg[p] \in Reg /\ reg[p].renew \in RenewMethods
        /\ reg[p].m \in DOMAIN issued /\ issued[reg[p].m] \in Attributes
        /\ reg[p].m \in Materials
    BY <1>2 DEF CreateInsert, Inv, ProcType, RegInv, HasMaterial, Reg,
                TableInv, IssuedType
  <2>2. /\ r \in Row /\ r.data = reg[p].m /\ r.ca = issued[reg[p].m].ca
        /\ r.imported = FALSE /\ r.acme = FALSE
    BY <2>1 DEF NewRow, Row, Attributes
  <2>3. PICK c \in CertIds :
          /\ IsNextRowid(c)
          /\ InsertRow(c, r)
          /\ Goto(p, "set_serial", [reg[p] EXCEPT !.id = c])
    BY <1>2 DEF CreateInsert
  <2>4. Still
    BY <1>2 DEF CreateInsert, Still
  <2> HIDE DEF r
  <2>5. TableInv'
    BY <2>1, <2>2, <2>3, <2>4, TableInsert DEF Inv
  <2>6. Grows /\ OthersTyped
    BY <1>2, <2>4, StillGrows, OthersUnchanged DEF CreateInsert
  <2>7. Carries("set_serial", [reg[p] EXCEPT !.id = c])
    BY <2>1, <2>4 DEF Carries, Still, Labels, Reg, HasUpload, HasAcme
  <2> QED BY <2>3, <2>5, <2>6, <2>7, StepInv
<1>3. CASE RecordSerial(p)
  <2>1. reg[p].m \in Materials
    BY <1>3 DEF RecordSerial, Inv, RegInv, HasMaterial, TableInv, IssuedType
  <2>2. Still
    BY <1>3 DEF RecordSerial, Still
  <2>3. \A c \in DOMAIN certs : SameContent(certs[c], [certs[c] EXCEPT !.hex = reg[p].m])
    BY <2>1 DEF SameContent, Row, Inv, TableInv, TableTypeOK
  <2>4. TableInv'
    BY <1>3, <2>2, <2>3, TableUpdateRow DEF RecordSerial, SetCertSerial, Inv
  <2>5. Grows /\ OthersTyped
    BY <1>3, <2>2, StillGrows, OthersUnchanged DEF RecordSerial
  <2> QED BY <1>3, <2>4, <2>5, FinishInv DEF RecordSerial
<1> QED BY <1>1, <1>2, <1>3

LEMMA InvImport ==
  ASSUME Inv, NEW p \in Clients, ImportBegin(p) \/ ImportCheck(p) \/ ImportInsert(p)
  PROVE  Inv'
<1> p \in Procs BY DEF Procs
<1>1. CASE ImportBegin(p)
  <2>1. PICK m \in Materials, a \in Attributes, rn \in Choices :
          /\ Upload(m, a)
          /\ Goto(p, "import_check", [NoReg EXCEPT !.m = m, !.renew = rn])
          /\ Chosen(m, rn)
    BY <1>1 DEF ImportBegin
  <2>2. Grows /\ m \in DOMAIN issued' /\ m \in uploaded'
    BY <2>1, GrowsUpload DEF Inv, TableInv
  <2>3. TableInv'
    BY <1>1, <2>2, TableGrows DEF ImportBegin, Inv
  <2>4. Carries("import_check", [NoReg EXCEPT !.m = m, !.renew = rn])
    BY <2>2, StoreAssumption DEF Carries, Labels, Reg, NoReg, HasAcme, RenewMethods
  <2>5. OthersTyped
    BY <1>1, <2>1, ChosenType DEF ImportBegin
  <2> QED BY <2>1, <2>2, <2>3, <2>4, <2>5, StepInv
<1>2. CASE ImportCheck(p)
  <2>1. Still /\ UNCHANGED <<certs, versions, orders, silent, todo>>
    BY <1>2 DEF ImportCheck, Still
  <2>2. Grows /\ OthersTyped
    BY <2>1, StillGrows, OthersUnchanged
  <2>3. TableInv'
    BY <2>1, <2>2, TableGrows DEF Inv
  <2>4. CASE Finish(p)
    BY <2>2, <2>3, <2>4, FinishInv
  <2>5. CASE Goto(p, "import_insert", reg[p])
    <3>1. Carries("import_insert", reg[p])
      BY <1>2, <2>1 DEF Carries, Still, ImportCheck, Inv, ProcType, RegInv, Labels,
                        HasMaterial, HasUpload, HasAcme
    <3> QED BY <2>2, <2>3, <2>5, <3>1, StepInv
  <2> QED BY <1>2, <2>4, <2>5 DEF ImportCheck
<1>3. CASE ImportInsert(p)
  <2> DEFINE r == NewRow(reg[p].m, issued[reg[p].m].ca, TRUE, FALSE, reg[p].renew)
  <2>1. /\ reg[p] \in Reg /\ reg[p].renew \in RenewMethods
        /\ reg[p].m \in DOMAIN issued /\ reg[p].m \in uploaded
        /\ reg[p].m \in Materials /\ issued[reg[p].m] \in Attributes
    BY <1>3 DEF ImportInsert, Inv, ProcType, RegInv, HasMaterial, HasUpload, Reg,
                TableInv, IssuedType
  <2>2. /\ r \in Row /\ r.data = reg[p].m /\ r.ca = issued[reg[p].m].ca
        /\ r.imported = TRUE /\ r.acme = FALSE
    BY <2>1 DEF NewRow, Row, Attributes
  <2>3. PICK c \in CertIds :
          /\ IsNextRowid(c)
          /\ InsertRow(c, r)
          /\ Goto(p, "set_serial", [reg[p] EXCEPT !.id = c])
    BY <1>3 DEF ImportInsert
  <2>4. Still
    BY <1>3 DEF ImportInsert, Still
  <2> HIDE DEF r
  <2>5. TableInv'
    BY <2>1, <2>2, <2>3, <2>4, TableInsert DEF Inv
  <2>6. Grows /\ OthersTyped
    BY <1>3, <2>4, StillGrows, OthersUnchanged DEF ImportInsert
  <2>7. Carries("set_serial", [reg[p] EXCEPT !.id = c])
    BY <2>1, <2>4 DEF Carries, Still, Labels, Reg, HasUpload, HasAcme
  <2> QED BY <2>3, <2>5, <2>6, <2>7, StepInv
<1> QED BY <1>1, <1>2, <1>3

LEMMA InvUpdate ==
  ASSUME Inv, NEW p \in Clients, UpdateBegin(p) \/ UpdateCheck(p) \/ UpdateReplace(p)
  PROVE  Inv'
<1> p \in Procs BY DEF Procs
<1>1. CASE UpdateBegin(p)
  <2>1. PICK c \in DOMAIN certs, m \in Materials, a \in Attributes,
             sent \in Choices \cup {"unsent"} :
          /\ Upload(m, a)
          /\ Goto(p, "update_check",
                  [NoReg EXCEPT !.id = c, !.m = m, !.renew = Rearmed(certs[c], sent)])
          /\ Chosen(m, sent)
    BY <1>1 DEF UpdateBegin
  <2>2. Grows /\ m \in DOMAIN issued' /\ m \in uploaded'
    BY <2>1, GrowsUpload DEF Inv, TableInv
  <2>3. TableInv'
    BY <1>1, <2>2, TableGrows DEF UpdateBegin, Inv
  <2>4. Rearmed(certs[c], sent) \in RenewMethods /\ c \in CertIds
    <3>1. certs[c].renew \in RenewMethods /\ c \in CertIds
      BY DEF Inv, TableInv, TableTypeOK, Row
    <3> QED BY <3>1 DEF Rearmed, RenewMethods
  <2>5. Carries("update_check",
                [NoReg EXCEPT !.id = c, !.m = m, !.renew = Rearmed(certs[c], sent)])
    BY <2>2, <2>4 DEF Carries, Labels, Reg, NoReg, HasAcme
  <2>6. OthersTyped
    BY <1>1, <2>1, ChosenType DEF UpdateBegin
  <2> QED BY <2>1, <2>2, <2>3, <2>5, <2>6, StepInv
<1>2. CASE UpdateCheck(p)
  <2>1. Still /\ UNCHANGED <<certs, versions, orders, silent, todo>>
    BY <1>2 DEF UpdateCheck, Still
  <2>2. Grows /\ OthersTyped
    BY <2>1, StillGrows, OthersUnchanged
  <2>3. TableInv'
    BY <2>1, <2>2, TableGrows DEF Inv
  <2>4. CASE Finish(p)
    BY <2>2, <2>3, <2>4, FinishInv
  <2>5. CASE Goto(p, "update_replace", reg[p])
    <3>1. Carries("update_replace", reg[p])
      BY <1>2, <2>1 DEF Carries, Still, UpdateCheck, Inv, ProcType, RegInv, Labels,
                        HasMaterial, HasUpload, HasAcme
    <3> QED BY <2>2, <2>3, <2>5, <3>1, StepInv
  <2> QED BY <1>2, <2>4, <2>5 DEF UpdateCheck
<1>3. CASE UpdateReplace(p)
  <2>1. /\ reg[p].m \in DOMAIN issued /\ reg[p].m \in uploaded
        /\ reg[p].renew \in RenewMethods
    BY <1>3 DEF UpdateReplace, Inv, RegInv, HasMaterial, HasUpload, ProcType, Reg
  <2>2. Still
    BY <1>3 DEF UpdateReplace, Still
  <2>3. TableInv'
    BY <1>3, <2>1, <2>2, TableReplace DEF UpdateReplace, Inv, ReplaceGuards
  <2>4. Grows /\ OthersTyped
    BY <1>3, <2>2, StillGrows, OthersUnchanged DEF UpdateReplace
  <2> QED BY <1>3, <2>3, <2>4, FinishInv DEF UpdateReplace
<1> QED BY <1>1, <1>2, <1>3

LEMMA InvAcmeIssue ==
  ASSUME Inv, NEW p \in Clients, AcmeIssue(p) \/ AcmeInsert(p)
  PROVE  Inv'
<1> p \in Procs BY DEF Procs
<1>1. CASE AcmeIssue(p)
  <2>1. PICK m \in Materials, a \in Attributes :
          /\ a.origin = "acme"
          /\ Mint(m, a)
          /\ Goto(p, "acme_insert", [NoReg EXCEPT !.m = m, !.renew = "notify"])
    BY <1>1 DEF AcmeIssue
  <2>2. Grows /\ m \in DOMAIN issued' /\ issued'[m] = a
    BY <1>1, <2>1, GrowsMint, MintFacts DEF AcmeIssue, Inv, TableInv
  <2>3. TableInv'
    BY <1>1, <2>2, TableGrows DEF AcmeIssue, Inv
  <2>4. Carries("acme_insert", [NoReg EXCEPT !.m = m, !.renew = "notify"])
    BY <2>1, <2>2 DEF Carries, Labels, Reg, NoReg, HasUpload, RenewMethods
  <2>5. OthersTyped
    BY <1>1, OthersUnchanged DEF AcmeIssue
  <2> QED BY <2>1, <2>2, <2>3, <2>4, <2>5, StepInv
<1>2. CASE AcmeInsert(p)
  <2> DEFINE r == NewRow(reg[p].m, Null, FALSE, TRUE, reg[p].renew)
  <2>1. /\ reg[p] \in Reg /\ reg[p].renew \in RenewMethods
        /\ reg[p].m \in DOMAIN issued /\ issued[reg[p].m] \in Attributes
        /\ reg[p].m \in Materials /\ issued[reg[p].m].origin = "acme"
    BY <1>2 DEF AcmeInsert, Inv, ProcType, RegInv, HasMaterial, HasAcme, Reg,
                TableInv, IssuedType
  <2>2. /\ r \in Row /\ r.data = reg[p].m /\ r.ca = Null
        /\ r.imported = FALSE /\ r.acme = TRUE
    BY <2>1 DEF NewRow, Row, Attributes
  <2>3. PICK c \in CertIds : IsNextRowid(c) /\ InsertRow(c, r)
    BY <1>2 DEF AcmeInsert
  <2>4. Still
    BY <1>2 DEF AcmeInsert, Still
  <2> HIDE DEF r
  <2>5. TableInv'
    BY <2>1, <2>2, <2>3, <2>4, TableInsert DEF Inv
  <2>6. Grows /\ OthersTyped
    BY <1>2, <2>4, StillGrows, OthersUnchanged DEF AcmeInsert
  <2> QED BY <1>2, <2>5, <2>6, FinishInv DEF AcmeInsert
<1> QED BY <1>1, <1>2

\* A step that leaves every process where it is.
LEMMA SameProcInv ==
  ASSUME Inv, TableInv', Grows, OthersTyped, UNCHANGED <<pc, reg>>
  PROVE  Inv'
<1>1. HasAcme \subseteq HasMaterial
  BY DEF HasAcme, HasMaterial
<1>2. RegInv'
  BY <1>1 DEF Inv, RegInv, Grows
<1> QED BY <1>2 DEF Inv, ProcType, OthersTyped

LEMMA InvAcmeRenew ==
  ASSUME Inv, NEW p \in Clients,
         AcmeOrder(p) \/ AcmeRenew(p) \/ AcmeReread(p) \/ AcmeReplace(p)
  PROVE  Inv'
<1> p \in Procs BY DEF Procs
<1>1. CASE AcmeOrder(p)
  <2>1. Still /\ UNCHANGED <<certs, versions, silent, todo, pc, reg>>
    BY <1>1 DEF AcmeOrder, Still
  <2>2. Grows
    BY <2>1, StillGrows
  <2>3. TableInv'
    BY <2>1, <2>2, TableGrows DEF Inv
  <2>4. OthersTyped
    BY <1>1, <2>1 DEF AcmeOrder, OthersTyped, Inv, ProcType, TableInv, TableTypeOK
  <2> QED BY <2>1, <2>2, <2>3, <2>4, SameProcInv
<1>2. CASE AcmeRenew(p)
  <2>1. PICK c \in orders, m \in Materials, a \in Attributes :
          /\ a.origin = "acme"
          /\ Mint(m, a)
          /\ Goto(p, "acme_reread", [NoReg EXCEPT !.id = c, !.m = m])
    BY <1>2 DEF AcmeRenew
  <2>2. Grows /\ m \in DOMAIN issued' /\ issued'[m] = a
    BY <1>2, <2>1, GrowsMint, MintFacts DEF AcmeRenew, Inv, TableInv
  <2>3. TableInv'
    BY <1>2, <2>2, TableGrows DEF AcmeRenew, Inv
  <2>4. Carries("acme_reread", [NoReg EXCEPT !.id = c, !.m = m])
    BY <2>1, <2>2 DEF Carries, Labels, Reg, NoReg, HasUpload, RenewMethods, Inv, ProcType
  <2>5. OthersTyped
    BY <1>2, OthersUnchanged DEF AcmeRenew
  <2> QED BY <2>1, <2>2, <2>3, <2>4, <2>5, StepInv
<1>3. CASE AcmeReread(p)
  <2>1. Still /\ UNCHANGED <<certs, versions, orders, silent, todo>>
    BY <1>3 DEF AcmeReread, Still
  <2>2. Grows /\ OthersTyped
    BY <2>1, StillGrows, OthersUnchanged
  <2>3. TableInv'
    BY <2>1, <2>2, TableGrows DEF Inv
  <2>4. CASE Finish(p)
    BY <2>2, <2>3, <2>4, FinishInv
  <2>5. CASE Goto(p, "acme_replace", reg[p])
    <3>1. Carries("acme_replace", reg[p])
      BY <1>3, <2>1 DEF Carries, Still, AcmeReread, Inv, ProcType, RegInv, Labels,
                        HasMaterial, HasUpload, HasAcme
    <3> QED BY <2>2, <2>3, <2>5, <3>1, StepInv
  <2> QED BY <1>3, <2>4, <2>5 DEF AcmeReread
<1>4. CASE AcmeReplace(p)
  <2>1. reg[p].m \in DOMAIN issued /\ issued[reg[p].m].origin = "acme"
    BY <1>4 DEF AcmeReplace, Inv, RegInv, HasMaterial, HasAcme
  <2>2. Still
    BY <1>4 DEF AcmeReplace, Still
  <2>3. TableInv'
    BY <1>4, <2>1, <2>2, TableReplace DEF AcmeReplace, Inv, ReplaceGuards
  <2>4. Grows
    BY <2>2, StillGrows
  <2>5. OthersTyped
    BY <1>4 DEF AcmeReplace, OthersTyped, Inv, ProcType
  <2> QED BY <1>4, <2>3, <2>4, <2>5, FinishInv DEF AcmeReplace
<1> QED BY <1>1, <1>2, <1>3, <1>4

LEMMA InvProvider ==
  ASSUME Inv, NEW p \in Clients, DeleteProvider(p)
  PROVE  Inv'
<1>1. Still /\ UNCHANGED <<silent, todo, pc, reg>>
  BY DEF DeleteProvider, Still
<1>2. TableInv'
  BY <1>1, TableForget DEF DeleteProvider, Inv
<1>3. Grows
  BY <1>1, StillGrows
<1>4. OthersTyped
  BY DEF DeleteProvider, OthersTyped, Inv, ProcType
<1> QED BY <1>1, <1>2, <1>3, <1>4, SameProcInv

LEMMA InvRemoval ==
  ASSUME Inv, NEW p \in Clients,
         \/ RevokeBegin(p) \/ RevokeWrite(p)
         \/ DeleteBegin(p) \/ DeleteWrite(p)
         \/ PurgeBegin(p) \/ PurgeWrite(p)
  PROVE  Inv'
<1> p \in Procs BY DEF Procs
<1>1. CASE RevokeBegin(p)
  <2>1. Still /\ UNCHANGED <<certs, versions, orders, silent, todo>>
    BY <1>1 DEF RevokeBegin, Still
  <2>2. Grows /\ OthersTyped
    BY <2>1, StillGrows, OthersUnchanged
  <2>3. TableInv'
    BY <2>1, <2>2, TableGrows DEF Inv
  <2>4. PICK c \in DOMAIN certs : Goto(p, "revoke_write", [NoReg EXCEPT !.id = c])
    BY <1>1 DEF RevokeBegin
  <2>5. Carries("revoke_write", [NoReg EXCEPT !.id = c])
    BY DEF Carries, Labels, Reg, NoReg, RenewMethods, HasMaterial, HasUpload, HasAcme,
           Inv, TableInv, TableTypeOK, VersionRow
  <2> QED BY <2>2, <2>3, <2>4, <2>5, StepInv
<1>2. CASE RevokeWrite(p)
  <2>1. Still
    BY <1>2 DEF RevokeWrite, Still
  <2>2. TableInv'
    <3>1. \A c \in DOMAIN certs : SameContent(certs[c], [certs[c] EXCEPT !.revoked = TRUE])
      BY DEF SameContent, Row, Inv, TableInv, TableTypeOK
    <3> QED BY <1>2, <2>1, <3>1, TableUpdateRow DEF RevokeWrite, RevokeRow, Inv
  <2>3. Grows /\ OthersTyped
    BY <1>2, <2>1, StillGrows, OthersUnchanged DEF RevokeWrite
  <2> QED BY <1>2, <2>2, <2>3, FinishInv DEF RevokeWrite
<1>3. CASE DeleteBegin(p)
  <2>1. Still /\ UNCHANGED <<certs, versions, orders, silent, todo>>
    BY <1>3 DEF DeleteBegin, Still
  <2>2. Grows /\ OthersTyped
    BY <2>1, StillGrows, OthersUnchanged
  <2>3. TableInv'
    BY <2>1, <2>2, TableGrows DEF Inv
  <2>4. PICK c \in DOMAIN certs : Goto(p, "delete_write", [NoReg EXCEPT !.id = c])
    BY <1>3 DEF DeleteBegin
  <2>5. Carries("delete_write", [NoReg EXCEPT !.id = c])
    BY DEF Carries, Labels, Reg, NoReg, RenewMethods, HasMaterial, HasUpload, HasAcme,
           Inv, TableInv, TableTypeOK, VersionRow
  <2> QED BY <2>2, <2>3, <2>4, <2>5, StepInv
<1>4. CASE DeleteWrite(p)
  <2>1. Still
    BY <1>4 DEF DeleteWrite, Still
  <2>2. TableInv'
    BY <1>4, <2>1, TableDelete DEF DeleteWrite, Inv
  <2>3. Grows /\ OthersTyped
    BY <1>4, <2>1, StillGrows, OthersUnchanged DEF DeleteWrite
  <2> QED BY <1>4, <2>2, <2>3, FinishInv DEF DeleteWrite
<1>5. CASE PurgeBegin(p)
  <2>1. Still /\ UNCHANGED <<certs, versions, orders, silent, todo>>
    BY <1>5 DEF PurgeBegin, Still
  <2>2. Grows /\ OthersTyped
    BY <2>1, StillGrows, OthersUnchanged
  <2>3. TableInv'
    BY <2>1, <2>2, TableGrows DEF Inv
  <2>4. PICK c \in DOMAIN certs, v \in versions : Goto(p, "purge_write", [NoReg EXCEPT !.id = c, !.version = v.version])
    BY <1>5 DEF PurgeBegin
  <2>5. Carries("purge_write", [NoReg EXCEPT !.id = c, !.version = v.version])
    BY DEF Carries, Labels, Reg, NoReg, RenewMethods, HasMaterial, HasUpload, HasAcme,
           Inv, TableInv, TableTypeOK, VersionRow
  <2> QED BY <2>2, <2>3, <2>4, <2>5, StepInv
<1>6. CASE PurgeWrite(p)
  <2>1. Still
    BY <1>6 DEF PurgeWrite, Still
  <2>2. TableInv'
    BY <1>6, <2>1, TablePurge DEF PurgeWrite, Inv
  <2>3. Grows /\ OthersTyped
    BY <1>6, <2>1, StillGrows, OthersUnchanged DEF PurgeWrite
  <2> QED BY <1>6, <2>2, <2>3, FinishInv DEF PurgeWrite
<1> QED BY <1>1, <1>2, <1>3, <1>4, <1>5, <1>6

\* Taking a row off the watcher's list keeps the list's type.
LEMMA HandledType ==
  ASSUME Inv, NEW c, Handled(c), orders' = orders, silent' \subseteq Materials
  PROVE  OthersTyped
BY DEF Inv, ProcType, OthersTyped, Handled

LEMMA InvWatch ==
  ASSUME Inv, Watch
  PROVE  Inv'
<1> Watcher \in Procs BY DEF Procs
<1>1. CASE WatchScan
  <2>1. Still /\ UNCHANGED <<certs, versions, orders, silent>>
    BY <1>1 DEF WatchScan, Still
  <2>2. Grows
    BY <2>1, StillGrows
  <2>3. TableInv'
    BY <2>1, <2>2, TableGrows DEF Inv
  <2>4. OthersTyped
    BY <1>1, <2>1 DEF WatchScan, OthersTyped, Inv, ProcType, TableInv, TableTypeOK
  <2>5. Carries("scan", NoReg)
    BY NoRegType DEF Carries, HasMaterial, HasUpload, HasAcme
  <2> QED BY <1>1, <2>2, <2>3, <2>4, <2>5, StepInv DEF WatchScan
<1>2. CASE WatchDone
  <2>1. Still /\ UNCHANGED <<certs, versions, orders, silent, todo>>
    BY <1>2 DEF WatchDone, Still
  <2>2. Grows /\ OthersTyped
    BY <2>1, StillGrows, OthersUnchanged
  <2>3. TableInv'
    BY <2>1, <2>2, TableGrows DEF Inv
  <2> QED BY <1>2, <2>2, <2>3, FinishInv DEF WatchDone
<1>3. ASSUME NEW c \in CertIds, WatchSkip(c)
      PROVE  Inv'
  <2>1. Still /\ UNCHANGED <<certs, versions, orders, silent, pc, reg>>
    BY <1>3 DEF WatchSkip, Still
  <2>2. Grows
    BY <2>1, StillGrows
  <2>3. TableInv'
    BY <2>1, <2>2, TableGrows DEF Inv
  <2>4. OthersTyped
    BY <1>3, <2>1, HandledType DEF WatchSkip, Inv, ProcType
  <2> QED BY <2>1, <2>2, <2>3, <2>4, SameProcInv
<1>4. ASSUME NEW c \in CertIds, WatchRenew(c)
      PROVE  Inv'
  <2>1. PICK m \in Materials, a \in Attributes :
          /\ Mint(m, a)
          /\ Goto(Watcher, "renew_replace", [NoReg EXCEPT !.id = c, !.m = m])
    BY <1>4 DEF WatchRenew
  <2>2. Grows /\ m \in DOMAIN issued'
    BY <1>4, <2>1, GrowsMint, MintFacts DEF WatchRenew, Inv, TableInv
  <2>3. TableInv'
    BY <1>4, <2>2, TableGrows DEF WatchRenew, Inv
  <2>4. OthersTyped
    BY <1>4, HandledType DEF WatchRenew, Inv, ProcType
  <2>5. Carries("renew_replace", [NoReg EXCEPT !.id = c, !.m = m])
    BY <2>2 DEF Carries, Labels, Reg, NoReg, HasUpload, HasAcme, RenewMethods
  <2> QED BY <2>1, <2>2, <2>3, <2>4, <2>5, StepInv
<1>5. ASSUME NEW c \in CertIds, WatchNotify(c)
      PROVE  Inv'
  <2>1. Still /\ UNCHANGED <<certs, versions, orders>>
    BY <1>5 DEF WatchNotify, Still
  <2>2. Grows
    BY <2>1, StillGrows
  <2>3. TableInv'
    BY <2>1, <2>2, TableGrows DEF Inv
  <2>4. OthersTyped
    <3>1. todo[c].data \in Materials
      BY <1>5 DEF WatchNotify, Inv, ProcType, Row
    <3>2. silent' \subseteq Materials
      BY <1>5, <3>1 DEF WatchNotify, Inv, ProcType
    <3> QED BY <1>5, <2>1, <3>2, HandledType DEF WatchNotify
  <2>5. Carries("notify_reset", [NoReg EXCEPT !.id = c])
    BY DEF Carries, Labels, Reg, NoReg, HasMaterial, HasUpload, HasAcme, RenewMethods
  <2> QED BY <1>5, <2>2, <2>3, <2>4, <2>5, StepInv DEF WatchNotify
<1>6. Carries("scan", NoReg)
  BY NoRegType DEF Carries, HasMaterial, HasUpload, HasAcme
<1>7. CASE WatchRenewReplace
  <2>1. reg[Watcher].m \in DOMAIN issued
    BY <1>7 DEF WatchRenewReplace, Inv, RegInv, HasMaterial
  <2>2. Still
    BY <1>7 DEF WatchRenewReplace, Still
  <2>3. TableInv'
    BY <1>7, <2>1, <2>2, TableReplace DEF WatchRenewReplace, Inv, ReplaceGuards
  <2>4. Grows /\ OthersTyped
    BY <1>7, <2>2, StillGrows, OthersUnchanged DEF WatchRenewReplace
  <2> QED BY <1>6, <1>7, <2>3, <2>4, StepInv DEF WatchRenewReplace
<1>8. CASE WatchNotifyReset
  <2>1. Still
    BY <1>8 DEF WatchNotifyReset, Still
  <2>2. \A c \in DOMAIN certs : SameContent(certs[c], [certs[c] EXCEPT !.renew = "none"])
    BY DEF SameContent, Row, Inv, TableInv, TableTypeOK, RenewMethods
  <2>3. TableInv'
    BY <1>8, <2>1, <2>2, TableUpdateRow DEF WatchNotifyReset, ClearRenewMethod, Inv
  <2>4. Grows /\ OthersTyped
    BY <1>8, <2>1, StillGrows, OthersUnchanged DEF WatchNotifyReset
  <2> QED BY <1>6, <1>8, <2>3, <2>4, StepInv DEF WatchNotifyReset
<1> QED BY <1>1, <1>2, <1>3, <1>4, <1>5, <1>7, <1>8 DEF Watch

LEMMA InvRestart ==
  ASSUME Inv, Restart
  PROVE  Inv'
<1>1. Still
  BY DEF Restart, Still
<1>2. TableInv'
  BY <1>1, TableBackfill DEF Restart, Inv
<1>3. ProcType'
  BY NoRegType DEF Restart, ProcType, Inv, Empty
<1>4. RegInv'
  BY DEF Restart, RegInv, HasMaterial, HasUpload, HasAcme
<1> QED BY <1>2, <1>3, <1>4 DEF Inv

LEMMA InvInit ==
  ASSUME Init
  PROVE  Inv
<1>1. TableInv
  BY DEF Init, Empty, TableInv, TableTypeOK, IssuedType, Known, AcmeApart,
         HistoryBelowCurrent, CaTruthful, OriginSeparated
<1>2. ProcType
  BY NoRegType DEF Init, Empty, ProcType
<1>3. RegInv
  BY DEF Init, RegInv, HasMaterial, HasUpload, HasAcme
<1> QED BY <1>1, <1>2, <1>3 DEF Inv

LEMMA InvNext ==
  ASSUME Inv, [Next]_vars
  PROVE  Inv'
<1>1. CASE UNCHANGED vars
  <2>1. Still /\ UNCHANGED <<certs, versions, orders, silent, todo, pc, reg>>
    BY <1>1 DEF vars, Still
  <2>2. Grows /\ OthersTyped
    BY <2>1, StillGrows, OthersUnchanged
  <2>3. TableInv'
    BY <2>1, <2>2, TableGrows DEF Inv
  <2> QED BY <2>1, <2>2, <2>3, SameProcInv
<1>2. ASSUME NEW p \in Clients, Handler(p)
      PROVE  Inv'
  BY <1>2, InvCreate, InvImport, InvUpdate, InvAcmeIssue, InvAcmeRenew, InvProvider,
     InvRemoval DEF Handler
<1>3. CASE Watch
  BY <1>3, InvWatch
<1>4. CASE Restart
  BY <1>4, InvRestart
<1> QED BY <1>1, <1>2, <1>3, <1>4 DEF Next

-----------------------------------------------------------------------------
\* Inv holds in every reachable state of CertStore.
THEOREM InvHolds == Spec => []Inv
<1>1. Init => Inv
  BY InvInit
<1>2. Inv /\ [Next]_vars => Inv'
  BY InvNext
<1> QED BY <1>1, <1>2, PTL DEF Spec

\* The marks.
MarksType ==
  /\ reused \in [CertIds -> SUBSET Labels]
  /\ overtaken \in [CertIds -> SUBSET Labels]
  /\ doubled \subseteq Materials

LEMMA RememberingType ==
  ASSUME Inv, NEW p, NEW c
  PROVE  Remembering(p, c) \in SUBSET Labels
<1>1. \A q \in Procs : pc[q] \in Labels
  BY DEF Inv, ProcType
<1> QED BY <1>1, NoRegType DEF Remembering

LEMMA MarksNext ==
  ASSUME Inv, MarksType, [Next]_vars
  PROVE  MarksType'
<1>1. CASE UNCHANGED marks
  BY <1>1 DEF marks, MarksType
<1>2. ASSUME NEW p \in Procs, NEW c \in CertIds, MarkInsert(p, c)
      PROVE  MarksType'
  BY <1>2, RememberingType DEF MarkInsert, MarksType
<1>3. ASSUME NEW p \in Procs, NEW c, NEW guard, MarkReplace(p, c, guard)
      PROVE  MarksType'
  <2>1. c \in DOMAIN certs => c \in CertIds
    BY DEF Inv, TableInv, TableTypeOK
  <2> QED BY <1>3, <2>1, RememberingType DEF MarkReplace, MarksType
<1>4. ASSUME NEW m \in Materials, MarkStore(m)
      PROVE  MarksType'
  BY <1>4 DEF MarkStore, MarksType
<1>5. ASSUME NEW p \in Clients, Handler(p)
      PROVE  MarksType'
  <2>1. p \in Procs /\ (pc[p] \in HasMaterial => reg[p].m \in Materials)
    BY DEF Procs, Inv, RegInv, TableInv, IssuedType
  <2>2. CASE CreateInsert(p) \/ ImportInsert(p) \/ AcmeInsert(p)
    BY <1>2, <2>1, <2>2 DEF CreateInsert, ImportInsert, AcmeInsert
  <2>3. CASE UpdateReplace(p) \/ AcmeReplace(p)
    BY <1>3, <2>1, <2>3 DEF UpdateReplace, AcmeReplace
  <2>4. CASE ImportCheck(p) \/ UpdateCheck(p)
    BY <1>1, <1>4, <2>1, <2>4 DEF ImportCheck, UpdateCheck, HasMaterial
  <2> QED BY <1>1, <1>5, <2>2, <2>3, <2>4
          DEF Handler, CreateBegin, RecordSerial, ImportBegin, UpdateBegin, AcmeIssue, AcmeOrder,
              AcmeRenew, AcmeReread, DeleteProvider, RevokeBegin, RevokeWrite, DeleteBegin,
              DeleteWrite, PurgeBegin, PurgeWrite
<1>6. CASE Watch
  BY <1>1, <1>3, <1>6 DEF Watch, WatchScan, WatchDone, WatchSkip, WatchRenew, WatchNotify,
                          WatchRenewReplace, WatchNotifyReset, Procs
<1>7. CASE Restart
  BY <1>1, <1>7 DEF Restart
<1>8. CASE UNCHANGED vars
  BY <1>1, <1>8 DEF vars
<1> QED BY <1>5, <1>6, <1>7, <1>8 DEF Next

\* The marks keep their types in every reachable state.
THEOREM MarksTyped == Spec => []MarksType
<1>1. Init => MarksType
  BY DEF Init, MarksType
<1> QED BY <1>1, MarksNext, InvHolds, PTL DEF Spec

\* Every variable keeps its type.
THEOREM TypeCorrect == Spec => []TypeOK
<1>1. Inv /\ MarksType => TypeOK
  BY DEF Inv, TableInv, IssuedType, ProcType, MarksType, TypeOK
<1> QED BY <1>1, InvHolds, MarksTyped, PTL

\* Version numbers of a certificate never clash and its history never outlives it:
\* the UNIQUE constraint in replace_certificate's transaction cannot fire.
THEOREM HistoryCorrect == Spec => []HistoryBelowCurrent
<1>1. Inv => HistoryBelowCurrent
  BY DEF Inv, TableInv
<1> QED BY <1>1, InvHolds, PTL

\* A stored ca_id is that of the CA that signed the content beside it, in the
\* current row and in the history, through every renewal and replacement.
THEOREM CaCorrect == Spec => []CaTruthful
<1>1. Inv => CaTruthful
  BY DEF Inv, TableInv
<1> QED BY <1>1, InvHolds, PTL

\* Uploaded, internal and public material never end up in each other's rows,
\* however stale the copy the watcher or a request works from.
THEOREM OriginCorrect == Spec => []OriginSeparated
<1>1. Inv => OriginSeparated
  BY DEF Inv, TableInv
<1> QED BY <1>1, InvHolds, PTL

----------------------------------------------------------------------------
(* CertStore implements CertLedger.  As for the invariant, there is one lemma *)
(* per database call: inserts issue, replacements supersede, the rest revokes, *)
(* purges, removes or cannot be seen.  The invariant is needed twice: a         *)
(* replacement supersedes the TOP entry because the history is below the        *)
(* current version, and a purge removes exactly one entry because version       *)
(* numbers are unique.                                                       *)

\* The mapped variables.
Book == [c \in DOMAIN certs |-> Entries(c)]
Gone == {c \in DOMAIN certs : certs[c].revoked}

LedgerStep == Ledger!LNext \/ UNCHANGED <<DOMAIN certs, Book, Gone>>

LEMMA LedgerInsert ==
  ASSUME TableInv, NEW c \in CertIds, NEW r \in Row, IsNextRowid(c), InsertRow(c, r),
         r.version = 1, ~r.revoked
  PROVE  LedgerStep
<1>1. c \notin DOMAIN certs
  BY DEF IsNextRowid, CertIds
<1>2. /\ DOMAIN certs' = DOMAIN certs \cup {c}
      /\ certs'[c] = r
      /\ \A d \in DOMAIN certs : certs'[d] = certs[d]
      /\ versions' = versions
  BY <1>1 DEF InsertRow, Put
<1>3. \A v \in versions : v.cert # c
  BY <1>1 DEF TableInv, HistoryBelowCurrent
<1>4. Entries(c)' = {[version |-> 1, content |-> <<r.data, r.ca>>]}
  BY <1>2, <1>3 DEF Entries
<1>5. \A d \in DOMAIN certs : Entries(d)' = Entries(d)
  BY <1>2 DEF Entries
<1>6. <<r.data, r.ca>> \in Materials \X (CAs \cup {Null})
  BY DEF Row
<1>7. Book' = [d \in DOMAIN certs \cup {c} |->
                 IF d = c THEN {[version |-> 1, content |-> <<r.data, r.ca>>]} ELSE Book[d]]
  BY <1>1, <1>2, <1>4, <1>5 DEF Book
<1>8. Gone' = Gone
  BY <1>1, <1>2 DEF Gone
<1>9. Ledger!Issue(c)
  BY <1>1, <1>2, <1>6, <1>7, <1>8 DEF Ledger!Issue, Book, Gone
<1> QED BY <1>9 DEF LedgerStep, Ledger!LNext

LEMMA LedgerReplace ==
  ASSUME TableInv, NEW c, NEW m \in Materials, NEW ca \in CAs \cup {Null},
         NEW renew \in RenewMethods \cup {"keep"}, NEW guard \in ReplaceGuards,
         ReplaceCertificate(c, m, ca, renew, guard)
  PROVE  LedgerStep
<1>1. CASE ~(c \in DOMAIN certs /\ MayReplace(guard, certs[c]))
  <2>1. UNCHANGED <<certs, versions>>
    BY <1>1 DEF ReplaceCertificate
  <2> QED BY <2>1 DEF LedgerStep, Book, Gone, Entries
<1>2. CASE c \in DOMAIN certs /\ MayReplace(guard, certs[c])
  <2> DEFINE r == certs[c]
             s == Replacement(r, m, ca, renew)
             top == [version |-> r.version, content |-> <<r.data, r.ca>>]
  <2>1. r \in Row /\ ~r.revoked
    BY <1>2 DEF TableInv, TableTypeOK, MayReplace, ImportedManualGuard, RenewalGuard,
                AcmeRenewalGuard
  <2>2. /\ s \in Row /\ s.data = m
        /\ s.version = r.version + 1 /\ s.revoked = r.revoked
    <3>1. \A q \in Row :
            /\ Replacement(q, m, ca, renew) \in Row
            /\ Replacement(q, m, ca, renew).data = m
            /\ Replacement(q, m, ca, renew).version = q.version + 1
      BY ReplacementFacts
    <3>2. s.revoked = r.revoked
      BY <2>1 DEF Replacement, Row
    <3> QED BY <2>1, <3>1, <3>2
  <2>3. /\ certs' = [certs EXCEPT ![c] = s]
        /\ versions' = versions \cup {Superseded(c)}
    BY <1>2 DEF ReplaceCertificate
  <2>4. /\ Superseded(c).cert = c
        /\ Superseded(c).version = r.version
        /\ Superseded(c).data = r.data
        /\ Superseded(c).ca = r.ca
    BY DEF Superseded
  <2> HIDE DEF s
  <2>5. /\ DOMAIN certs' = DOMAIN certs
        /\ certs'[c] = s
        /\ \A d \in DOMAIN certs : d # c => certs'[d] = certs[d]
    BY <1>2, <2>3
  <2> DEFINE new == [version |-> r.version + 1, content |-> <<m, s.ca>>]
  <2>6. Entries(c)' = Entries(c) \cup {new}
    <3>1. Entries(c)' = {new} \cup {[version |-> v.version, content |-> <<v.data, v.ca>>] :
                                    v \in {w \in versions' : w.cert = c}}
      BY <2>2, <2>5 DEF Entries
    <3>2. {[version |-> v.version, content |-> <<v.data, v.ca>>] :
             v \in {w \in versions' : w.cert = c}}
            = {[version |-> v.version, content |-> <<v.data, v.ca>>] :
                 v \in {w \in versions : w.cert = c}} \cup {top}
      BY <2>3, <2>4
    <3> QED BY <3>1, <3>2 DEF Entries
  <2>7. \A d \in DOMAIN certs : d # c => Entries(d)' = Entries(d)
    BY <2>3, <2>4, <2>5 DEF Entries
  <2>8. top \in Book[c] /\ \A f \in Book[c] : f.version <= top.version
    <3>1. r.version \in Nat
      BY <2>1 DEF Row
    <3>2. \A v \in versions : v.cert = c => v.version < r.version /\ v.version \in Nat
      BY DEF TableInv, HistoryBelowCurrent, TableTypeOK, VersionRow
    <3>3. \A v \in versions : v.cert = c => v.version <= r.version
      BY <3>1, <3>2
    <3> QED BY <1>2, <3>1, <3>3 DEF Book, Entries
  <2>9. Book' = [Book EXCEPT ![c] = @ \cup {[version |-> top.version + 1, content |-> <<m, s.ca>>]}]
    BY <1>2, <2>5, <2>6, <2>7 DEF Book
  <2>10. Gone' = Gone /\ c \in DOMAIN certs \ Gone
    BY <1>2, <2>1, <2>2, <2>5 DEF Gone
  <2>11. <<m, s.ca>> \in Materials \X (CAs \cup {Null})
    BY <2>2 DEF Row
  <2> HIDE DEF top
  <2>12. Ledger!Supersede(c)
    BY <2>5, <2>8, <2>9, <2>10, <2>11 DEF Ledger!Supersede, Ledger!IsTop, Book, Gone
  <2>13. c \in CertIds
    BY <1>2 DEF TableInv, TableTypeOK
  <2> QED BY <2>12, <2>13 DEF LedgerStep, Ledger!LNext
<1> QED BY <1>1, <1>2

\* Calls that write none of the columns the ledger sees.
LEMMA LedgerColumns ==
  ASSUME DOMAIN certs' = DOMAIN certs, versions' = versions,
         \A c \in DOMAIN certs :
           /\ SameContent(certs[c], certs'[c])
           /\ certs'[c].revoked = certs[c].revoked
  PROVE  LedgerStep
<1>1. \A c \in DOMAIN certs : Entries(c)' = Entries(c)
  BY DEF SameContent, Entries
<1>2. Book' = Book
  BY <1>1 DEF Book
<1>3. Gone' = Gone
  BY DEF Gone
<1> QED BY <1>2, <1>3 DEF LedgerStep

LEMMA LedgerUpdateRow ==
  ASSUME TableInv, NEW c, NEW r, UpdateRow(c, r),
         c \in DOMAIN certs => SameContent(certs[c], r) /\ r.revoked = certs[c].revoked
  PROVE  LedgerStep
<1>1. DOMAIN certs' = DOMAIN certs /\ versions' = versions
  BY DEF UpdateRow
<1>2. \A d \in DOMAIN certs : certs[d] \in Row
  BY DEF TableInv, TableTypeOK
<1>3. \A d \in DOMAIN certs : SameContent(certs[d], certs'[d]) /\ certs'[d].revoked = certs[d].revoked
  BY <1>2 DEF UpdateRow, SameContent
<1> QED BY <1>1, <1>3, LedgerColumns

LEMMA LedgerRevoke ==
  ASSUME TableInv, NEW c, RevokeRow(c)
  PROVE  LedgerStep
<1>1. CASE c \notin DOMAIN certs
  <2>1. UNCHANGED <<certs, versions>>
    BY <1>1 DEF RevokeRow, UpdateRow
  <2> QED BY <2>1 DEF LedgerStep, Book, Gone, Entries
<1>2. CASE c \in DOMAIN certs
  <2> DEFINE s == [certs[c] EXCEPT !.revoked = TRUE]
  <2>1. certs[c] \in Row /\ c \in CertIds
    BY <1>2 DEF TableInv, TableTypeOK
  <2>2. /\ s.data = certs[c].data /\ s.version = certs[c].version
        /\ s.ca = certs[c].ca /\ s.revoked = TRUE
    BY <2>1 DEF Row
  <2>3. certs' = [certs EXCEPT ![c] = s] /\ versions' = versions
    BY <1>2 DEF RevokeRow, UpdateRow
  <2> HIDE DEF s
  <2>4. \A d \in DOMAIN certs : Entries(d)' = Entries(d)
    BY <1>2, <2>2, <2>3 DEF Entries
  <2>5. DOMAIN certs' = DOMAIN certs /\ Book' = Book /\ Gone' = Gone \cup {c}
    BY <1>2, <2>2, <2>3, <2>4 DEF Book, Gone
  <2>6. Ledger!Revoke(c)
    BY <1>2, <2>5 DEF Ledger!Revoke, Book, Gone
  <2> QED BY <2>1, <2>6 DEF LedgerStep, Ledger!LNext
<1> QED BY <1>1, <1>2

LEMMA LedgerDelete ==
  ASSUME TableInv, NEW c, DeleteRow(c)
  PROVE  LedgerStep
<1>1. /\ DOMAIN certs' = DOMAIN certs \ {c}
      /\ \A d \in DOMAIN certs' : certs'[d] = certs[d]
      /\ versions' = {v \in versions : v.cert # c}
  BY DEF DeleteRow
<1>2. \A d \in DOMAIN certs' : Entries(d)' = Entries(d)
  BY <1>1 DEF Entries
<1>3. Book' = [d \in DOMAIN certs \ {c} |-> Book[d]]
  BY <1>1, <1>2 DEF Book
<1>4. Gone' = Gone \ {c}
  BY <1>1 DEF Gone
<1>5. CASE c \in DOMAIN certs
  <2>1. Ledger!Remove(c)
    BY <1>1, <1>3, <1>4, <1>5 DEF Ledger!Remove, Book, Gone
  <2>2. c \in CertIds
    BY <1>5 DEF TableInv, TableTypeOK
  <2> QED BY <2>1, <2>2 DEF LedgerStep, Ledger!LNext
<1>6. CASE c \notin DOMAIN certs
  <2>1. DOMAIN certs' = DOMAIN certs /\ Book' = Book /\ Gone' = Gone
    BY <1>1, <1>3, <1>4, <1>6 DEF Book, Gone
  <2> QED BY <2>1 DEF LedgerStep
<1> QED BY <1>5, <1>6

LEMMA LedgerPurge ==
  ASSUME TableInv, NEW c, NEW n, DeleteVersion(c, n)
  PROVE  LedgerStep
<1>1. certs' = certs /\ versions' = {v \in versions : ~(v.cert = c /\ v.version = n)}
  BY DEF DeleteVersion
<1>2. CASE \A v \in versions : ~(v.cert = c /\ v.version = n)
  <2>1. versions' = versions
    BY <1>1, <1>2
  <2> QED BY <1>1, <2>1 DEF LedgerStep, Book, Gone, Entries
<1>3. CASE \E v \in versions : v.cert = c /\ v.version = n
  <2>1. PICK u \in versions : u.cert = c /\ u.version = n
    BY <1>3
  <2> DEFINE e == [version |-> n, content |-> <<u.data, u.ca>>]
             top == [version |-> certs[c].version, content |-> <<certs[c].data, certs[c].ca>>]
  <2>2. /\ c \in DOMAIN certs /\ n < certs[c].version
        /\ n \in Nat /\ certs[c].version \in Nat
    BY <2>1 DEF TableInv, HistoryBelowCurrent, TableTypeOK, VersionRow, Row
  <2>3. \A v \in versions : v.cert = c /\ v.version = n => v = u
    BY <2>1 DEF TableInv, HistoryBelowCurrent
  <2>4. versions' = versions \ {u}
    BY <1>1, <2>1, <2>3
  <2>5. e \in Entries(c) /\ top \in Entries(c)
    BY <2>1 DEF Entries
  <2>6. Entries(c)' = Entries(c) \ {e}
    <3>1. \A v \in versions : v.cert = c /\ v # u => v.version # n
      BY <2>3
    <3>2. certs[c].version # n
      BY <2>2
    <3> QED BY <1>1, <2>1, <2>4, <3>1, <3>2 DEF Entries
  <2>7. \A d \in DOMAIN certs : d # c => Entries(d)' = Entries(d)
    BY <1>1, <2>1, <2>4 DEF Entries
  <2>8. DOMAIN certs' = DOMAIN certs /\ Gone' = Gone /\ Book' = [Book EXCEPT ![c] = @ \ {e}]
    BY <1>1, <2>2, <2>6, <2>7 DEF Book, Gone
  <2>9. e \in Book[c] /\ top \in Book[c] /\ ~(top.version <= e.version)
    BY <2>2, <2>5 DEF Book
  <2> HIDE DEF e, top
  <2>10. Ledger!Purge(c)
    BY <2>2, <2>8, <2>9 DEF Ledger!Purge, Ledger!IsTop, Book, Gone
  <2>11. c \in CertIds
    BY <2>2 DEF TableInv, TableTypeOK
  <2> QED BY <2>10, <2>11 DEF LedgerStep, Ledger!LNext
<1> QED BY <1>2, <1>3

LEMMA LedgerQuiet ==
  ASSUME UNCHANGED <<certs, versions>>
  PROVE  LedgerStep
BY DEF LedgerStep, Book, Gone, Entries

\* Every call a request makes.
LEMMA LedgerHandler ==
  ASSUME Inv, NEW p \in Clients, Handler(p)
  PROVE  LedgerStep
<1> p \in Procs BY DEF Procs
<1>1. CASE \/ CreateBegin(p) \/ ImportBegin(p) \/ ImportCheck(p) \/ UpdateBegin(p) \/ UpdateCheck(p)
           \/ AcmeIssue(p) \/ AcmeOrder(p) \/ AcmeRenew(p) \/ AcmeReread(p)
           \/ RevokeBegin(p) \/ DeleteBegin(p) \/ PurgeBegin(p)
  <2>1. UNCHANGED <<certs, versions>>
    BY <1>1 DEF CreateBegin, ImportBegin, ImportCheck, UpdateBegin, UpdateCheck, AcmeIssue,
                AcmeOrder, AcmeRenew, AcmeReread, RevokeBegin, DeleteBegin, PurgeBegin
  <2> QED BY <2>1, LedgerQuiet
<1>2. CASE CreateInsert(p) \/ ImportInsert(p) \/ AcmeInsert(p)
  <2>1. PICK c \in CertIds, ca \in CAs \cup {Null}, imported \in BOOLEAN, acme \in BOOLEAN :
          IsNextRowid(c) /\ InsertRow(c, NewRow(reg[p].m, ca, imported, acme, reg[p].renew))
    <3>1. issued[reg[p].m].ca \in CAs
      BY <1>2 DEF CreateInsert, ImportInsert, AcmeInsert, Inv, RegInv, HasMaterial,
                  TableInv, IssuedType, Attributes
    <3> QED BY <1>2, <3>1 DEF CreateInsert, ImportInsert, AcmeInsert
  <2> DEFINE r == NewRow(reg[p].m, ca, imported, acme, reg[p].renew)
  <2>2. /\ reg[p].renew \in RenewMethods /\ reg[p].m \in Materials
        /\ issued[reg[p].m] \in Attributes
    BY <1>2 DEF CreateInsert, ImportInsert, AcmeInsert, Inv, ProcType, RegInv, HasMaterial, Reg,
                TableInv, IssuedType
  <2>3. r \in Row /\ r.version = 1 /\ r.revoked = FALSE
    BY <2>2 DEF NewRow, Row, Attributes
  <2> HIDE DEF r
  <2>4. IsNextRowid(c) /\ InsertRow(c, r)
    BY <2>1 DEF r
  <2> QED BY <2>3, <2>4, LedgerInsert DEF Inv
<1>3. CASE RecordSerial(p)
  <2>1. reg[p].m \in Materials
    BY <1>3 DEF RecordSerial, Inv, RegInv, HasMaterial, TableInv, IssuedType
  <2>2. \A c \in DOMAIN certs :
          /\ SameContent(certs[c], [certs[c] EXCEPT !.hex = reg[p].m])
          /\ [certs[c] EXCEPT !.hex = reg[p].m].revoked = certs[c].revoked
    BY <2>1 DEF SameContent, Row, Inv, TableInv, TableTypeOK
  <2> QED BY <1>3, <2>2, LedgerUpdateRow DEF RecordSerial, SetCertSerial, Inv
<1>4. CASE UpdateReplace(p)
  <2>1. /\ reg[p].m \in Materials /\ issued[reg[p].m].ca \in CAs
        /\ reg[p].renew \in RenewMethods
    BY <1>4 DEF UpdateReplace, Inv, RegInv, HasMaterial, ProcType, Reg, TableInv, IssuedType, Attributes
  <2> QED BY <1>4, <2>1, LedgerReplace DEF UpdateReplace, Inv, ReplaceGuards
<1>5. CASE AcmeReplace(p)
  <2>1. reg[p].m \in Materials
    BY <1>5 DEF AcmeReplace, Inv, RegInv, HasMaterial, TableInv, IssuedType
  <2> QED BY <1>5, <2>1, LedgerReplace DEF AcmeReplace, Inv, ReplaceGuards
<1>6. CASE DeleteProvider(p)
  <2>1. \A c \in DOMAIN certs : certs[c] \in Row
    BY DEF Inv, TableInv, TableTypeOK
  <2>2. \A c \in DOMAIN certs : /\ SameContent(certs[c], certs'[c])
                               /\ certs'[c].revoked = certs[c].revoked
    BY <1>6, <2>1 DEF DeleteProvider, ForgetProvider, SameContent, Row
  <2>3. DOMAIN certs' = DOMAIN certs /\ versions' = versions
    BY <1>6 DEF DeleteProvider, ForgetProvider
  <2> QED BY <2>2, <2>3, LedgerColumns
<1>7. CASE RevokeWrite(p)
  BY <1>7, LedgerRevoke DEF RevokeWrite, Inv
<1>8. CASE DeleteWrite(p)
  BY <1>8, LedgerDelete DEF DeleteWrite, Inv
<1>9. CASE PurgeWrite(p)
  BY <1>9, LedgerPurge DEF PurgeWrite, Inv
<1> QED BY <1>1, <1>2, <1>3, <1>4, <1>5, <1>6, <1>7, <1>8, <1>9 DEF Handler

\* The watcher and the startup backfill.
LEMMA LedgerOther ==
  ASSUME Inv, Watch \/ Restart
  PROVE  LedgerStep
<1> Watcher \in Procs BY DEF Procs
<1>1. CASE UNCHANGED <<certs, versions>>
  BY <1>1, LedgerQuiet
<1>2. CASE WatchRenewReplace
  <2>1. reg[Watcher].m \in Materials /\ issued[reg[Watcher].m].ca \in CAs
    BY <1>2 DEF WatchRenewReplace, Inv, RegInv, HasMaterial, TableInv, IssuedType, Attributes
  <2> QED BY <1>2, <2>1, LedgerReplace DEF WatchRenewReplace, Inv, ReplaceGuards
<1>3. CASE WatchNotifyReset
  <2>1. \A c \in DOMAIN certs :
          /\ SameContent(certs[c], [certs[c] EXCEPT !.renew = "none"])
          /\ [certs[c] EXCEPT !.renew = "none"].revoked = certs[c].revoked
    BY DEF SameContent, Row, Inv, TableInv, TableTypeOK, RenewMethods
  <2> QED BY <1>3, <2>1, LedgerUpdateRow DEF WatchNotifyReset, ClearRenewMethod, Inv
<1>4. CASE Restart
  <2>1. \A c \in DOMAIN certs : certs[c] \in Row
    BY DEF Inv, TableInv, TableTypeOK
  <2>2. \A c \in DOMAIN certs : /\ SameContent(certs[c], certs'[c])
                               /\ certs'[c].revoked = certs[c].revoked
    BY <1>4, <2>1 DEF Restart, Backfill, SameContent, Row
  <2>3. DOMAIN certs' = DOMAIN certs /\ versions' = versions
    BY <1>4 DEF Restart, Backfill
  <2> QED BY <2>2, <2>3, LedgerColumns
<1> QED BY <1>1, <1>2, <1>3, <1>4
        DEF Watch, WatchScan, WatchDone, WatchSkip, WatchRenew, WatchNotify

\* The handlers, the watcher and restarts implement the append-only ledger: no
\* content is overwritten, none is added to a revoked certificate, revocation is
\* final, and only whole certificates or superseded entries are removed.
THEOREM StoreImplementsLedger == Spec => ImplementsLedger
<1>1. Init => Ledger!LInit
  BY DEF Init, Empty, Ledger!LInit, Entries
<1>2. Inv /\ [Next]_vars => [Ledger!LNext]_Ledger!lvars
  <2> SUFFICES ASSUME Inv, [Next]_vars
               PROVE  LedgerStep
    BY DEF LedgerStep, Book, Gone, Ledger!lvars
  <2>1. CASE UNCHANGED vars
    BY <2>1, LedgerQuiet DEF vars
  <2> QED BY <2>1, LedgerHandler, LedgerOther DEF Next
<1> QED BY <1>1, <1>2, InvHolds, PTL DEF Spec, ImplementsLedger, Ledger!LSpec

-----------------------------------------------------------------------------
(* Overlapping handlers.  What a process has read may have changed when it     *)
(* writes; the marks record it.  Every step is one of a few shapes, and each   *)
(* shape either leaves a certificate what it was for the processes that        *)
(* remember it, or marks it (Frame).  The invariants that follow say what a    *)
(* process may rely on while there is no mark.                                 *)

\* Only p moves: to label l, with r.
Acts(p, l, r) ==
  /\ pc'[p] = l /\ reg'[p] = r
  /\ \A q \in Procs : q # p => pc'[q] = pc[q] /\ reg'[q] = reg[q]

Quiet == UNCHANGED <<certs, versions, reused, overtaken>>

\* Columns beside the content, or versions that go.
Column(p) ==
  /\ DOMAIN certs' = DOMAIN certs /\ versions' \subseteq versions
  /\ UNCHANGED <<issued, silent, reused, overtaken, doubled>>
  /\ \A c \in DOMAIN certs :
       /\ certs'[c].subject = certs[c].subject /\ certs'[c].data = certs[c].data
       /\ certs'[c].ca = certs[c].ca /\ certs'[c].imported = certs[c].imported
       /\ certs[c].fp => certs'[c].fp
       /\ \/ certs'[c].renew = certs[c].renew
          \/ p = Watcher /\ pc[p] = "notify_reset" /\ c = reg[p].id /\ certs'[c].renew = "none"
       /\ \/ certs'[c].hex = certs[c].hex
          \/ pc[p] = "set_serial" /\ c = reg[p].id /\ certs'[c].hex = reg[p].m

Inserted(p, c, n) ==
  /\ c \in CertIds /\ c \notin DOMAIN certs
  /\ DOMAIN certs' = DOMAIN certs \cup {c} /\ certs'[c] = n
  /\ \A d \in DOMAIN certs : certs'[d] = certs[d]
  /\ UNCHANGED <<versions, issued, silent, todo, doubled>>
  /\ reused' = [reused EXCEPT ![c] = Remembering(p, c)]
  /\ overtaken' = [overtaken EXCEPT ![c] = {}]

Replaced(p, c, m) ==
  /\ c \in DOMAIN certs /\ DOMAIN certs' = DOMAIN certs
  /\ \A d \in DOMAIN certs : d # c => certs'[d] = certs[d]
  /\ versions' = versions \cup {Superseded(c)}
  /\ UNCHANGED <<issued, silent, todo, reused, doubled>>
  /\ overtaken' = [overtaken EXCEPT ![c] = @ \cup Remembering(p, c)]
  /\ certs'[c].data = m /\ certs'[c].hex = m /\ certs'[c].fp
  /\ certs'[c].subject = certs[c].subject /\ certs'[c].imported = certs[c].imported
  /\ certs[c].ca # Null => certs'[c].ca # Null
  /\ certs[c].imported \/ certs'[c].renew = certs[c].renew

Deleted(c) ==
  /\ DOMAIN certs' = DOMAIN certs \ {c}
  /\ \A d \in DOMAIN certs' : certs'[d] = certs[d]
  /\ versions' = {v \in versions : v.cert # c}
  /\ UNCHANGED <<issued, silent, todo, reused, overtaken, doubled>>

\* What a step of p leaves to the others: the certificate is still the one they
\* read, or a mark says which calls it left behind.
Frame(p) ==
  \A c \in DOMAIN certs' :
    \/ /\ c \in DOMAIN certs
       /\ reused'[c] = reused[c] /\ overtaken[c] \subseteq overtaken'[c]
       /\ certs'[c].subject = certs[c].subject /\ certs'[c].imported = certs[c].imported
       /\ certs[c].ca # Null => certs'[c].ca # Null
       /\ certs'[c].renew = certs[c].renew \/ certs[c].imported \/ p = Watcher
       /\ \/ /\ certs'[c].data = certs[c].data
             /\ certs'[c].ca = certs[c].ca
             /\ \/ certs'[c].renew = certs[c].renew
                \/ p = Watcher /\ pc[p] = "notify_reset" /\ c = reg[p].id
          \/ Remembering(p, c) \subseteq overtaken'[c]
    \/ c \notin DOMAIN certs /\ reused'[c] = Remembering(p, c)

LEMMA ShapesFrame ==
  ASSUME Inv, MarksType, NEW p, NEW c, NEW n, NEW m,
         Quiet \/ Column(p) \/ Inserted(p, c, n) \/ Replaced(p, c, m) \/ Deleted(c)
  PROVE  Frame(p)
<1>1. DOMAIN certs \subseteq CertIds
  BY DEF Inv, TableInv, TableTypeOK
<1>2. CASE Quiet
  BY <1>2 DEF Quiet, Frame
<1>3. CASE Column(p)
  BY <1>3 DEF Column, Frame
<1>4. CASE Inserted(p, c, n)
  <2>1. reused'[c] = Remembering(p, c)
    BY <1>4 DEF Inserted, MarksType
  <2>2. \A d \in DOMAIN certs : reused'[d] = reused[d] /\ overtaken'[d] = overtaken[d]
    BY <1>1, <1>4 DEF Inserted, MarksType
  <2> QED BY <1>4, <2>1, <2>2 DEF Inserted, Frame
<1>5. CASE Replaced(p, c, m)
  <2>1. overtaken'[c] = overtaken[c] \cup Remembering(p, c)
    BY <1>1, <1>5 DEF Replaced, MarksType
  <2>2. \A d \in DOMAIN certs : d # c => overtaken'[d] = overtaken[d]
    BY <1>1, <1>5 DEF Replaced, MarksType
  <2> QED BY <1>5, <2>1, <2>2 DEF Replaced, Frame
<1>6. CASE Deleted(c)
  BY <1>6 DEF Deleted, Frame
<1> QED BY <1>2, <1>3, <1>4, <1>5, <1>6

LEMMA GotoActs ==
  ASSUME Inv, NEW p \in Procs, NEW l, NEW r, Goto(p, l, r)
  PROVE  Acts(p, l, r)
BY DEF Goto, Acts, Inv, ProcType

\* A process other than p that remembers row c.
LEMMA Remembered ==
  ASSUME NEW p, NEW q \in Procs, q # p
  PROVE  pc[q] \in Remembering(p, reg[q].id)
BY DEF Remembering

\* The inserts: p makes row c, and it is n.
Makes(p, c, n) ==
  /\ Inserted(p, c, n)
  /\ pc[p] \in {"create_insert", "import_insert", "acme_insert"}
  /\ n.data = reg[p].m /\ n.hex = Null /\ n.subject = issued[reg[p].m].subject
  /\ n.renew = reg[p].renew
  /\ n.fp = n.imported /\ (n.imported <=> pc[p] = "import_insert")
  /\ n.ca = IF pc[p] = "acme_insert" THEN Null ELSE issued[reg[p].m].ca
  /\ IF pc[p] = "acme_insert" THEN Acts(p, "idle", NoReg)
     ELSE Acts(p, "set_serial", [reg[p] EXCEPT !.id = c])

LEMMA ShapeInsert ==
  ASSUME Inv, NEW p \in Clients, CreateInsert(p) \/ ImportInsert(p) \/ AcmeInsert(p)
  PROVE  \E c \in CertIds, n \in Row : Makes(p, c, n)
<1> USE DEF Procs
<1>1. /\ reg[p].renew \in RenewMethods /\ reg[p].m \in Materials
      /\ issued[reg[p].m] \in Attributes
  BY DEF CreateInsert, ImportInsert, AcmeInsert, Inv, ProcType, RegInv, HasMaterial, Reg,
         TableInv, IssuedType
<1>2. /\ CreateInsert(p) => pc[p] = "create_insert"
      /\ ImportInsert(p) => pc[p] = "import_insert"
      /\ AcmeInsert(p) => pc[p] = "acme_insert"
  BY DEF CreateInsert, ImportInsert, AcmeInsert
<1>3. PICK c \in CertIds, ca \in CAs \cup {Null}, imported \in BOOLEAN, acme \in BOOLEAN :
        /\ IsNextRowid(c) /\ MarkInsert(p, c)
        /\ InsertRow(c, NewRow(reg[p].m, ca, imported, acme, reg[p].renew))
        /\ imported <=> ImportInsert(p)
        /\ ca = IF AcmeInsert(p) THEN Null ELSE issued[reg[p].m].ca
        /\ IF AcmeInsert(p) THEN Finish(p) ELSE Goto(p, "set_serial", [reg[p] EXCEPT !.id = c])
  <2>1. issued[reg[p].m].ca \in CAs
    BY <1>1 DEF Attributes
  <2>2. CASE CreateInsert(p)
    <3>1. ~ImportInsert(p) /\ ~AcmeInsert(p)
      BY <1>2, <2>2
    <3> QED BY <2>1, <2>2, <3>1 DEF CreateInsert
  <2>3. CASE ImportInsert(p)
    <3>1. ~AcmeInsert(p)
      BY <1>2, <2>3
    <3> QED BY <2>1, <2>3, <3>1 DEF ImportInsert
  <2>4. CASE AcmeInsert(p)
    <3>1. ~ImportInsert(p)
      BY <1>2, <2>4
    <3> QED BY <2>4, <3>1 DEF AcmeInsert
  <2> QED BY <2>2, <2>3, <2>4
<1> DEFINE n == NewRow(reg[p].m, ca, imported, acme, reg[p].renew)
<1>4. /\ n \in Row /\ n.data = reg[p].m /\ n.hex = Null /\ n.subject = issued[reg[p].m].subject
      /\ n.renew = reg[p].renew /\ n.fp = imported /\ n.imported = imported /\ n.ca = ca
  BY <1>1 DEF NewRow, Row, Attributes
<1>5. InsertRow(c, n)
  BY <1>3
<1> HIDE DEF n
<1>6. c \notin DOMAIN certs
  BY <1>3, TableAssumption DEF IsNextRowid, CertIds
<1>7. /\ DOMAIN certs' = DOMAIN certs \cup {c} /\ certs'[c] = n /\ versions' = versions
      /\ \A d \in DOMAIN certs : certs'[d] = certs[d]
  BY <1>5, <1>6 DEF InsertRow, Put
<1>8. UNCHANGED <<issued, silent, todo>>
  BY DEF CreateInsert, ImportInsert, AcmeInsert
<1>9. Inserted(p, c, n)
  BY <1>3, <1>6, <1>7, <1>8 DEF Inserted, MarkInsert
<1>10. IF AcmeInsert(p) THEN Acts(p, "idle", NoReg)
       ELSE Acts(p, "set_serial", [reg[p] EXCEPT !.id = c])
  BY <1>3, GotoActs DEF Finish
<1>11. /\ AcmeInsert(p) <=> pc[p] = "acme_insert"
       /\ ImportInsert(p) <=> pc[p] = "import_insert"
       /\ pc[p] \in {"create_insert", "import_insert", "acme_insert"}
  BY <1>2
<1>12. Makes(p, c, n)
  BY <1>3, <1>4, <1>9, <1>10, <1>11 DEF Makes
<1> QED BY <1>4, <1>12

\* The replacements: all or nothing.
LEMMA ReplaceShape ==
  ASSUME Inv, NEW p \in Procs, NEW c, NEW m \in Materials, NEW ca \in CAs \cup {Null},
         NEW renew \in RenewMethods \cup {"keep"}, NEW guard \in ReplaceGuards,
         ReplaceCertificate(c, m, ca, renew, guard), MarkReplace(p, c, guard),
         UNCHANGED <<issued, silent, todo>>, guard # "imported_manual" => renew = "keep"
  PROVE  \/ Quiet /\ doubled' = doubled
         \/ /\ Replaced(p, c, m) /\ MayReplace(guard, certs[c])
            /\ certs'[c].ca = IF ca = Null THEN certs[c].ca ELSE ca
            /\ certs'[c].renew = IF renew = "keep" THEN certs[c].renew ELSE renew
<1>1. CASE ~(c \in DOMAIN certs /\ MayReplace(guard, certs[c]))
  BY <1>1 DEF ReplaceCertificate, MarkReplace, Quiet
<1>2. CASE c \in DOMAIN certs /\ MayReplace(guard, certs[c])
  <2> DEFINE s == Replacement(certs[c], m, ca, renew)
  <2>1. certs' = [certs EXCEPT ![c] = s] /\ versions' = versions \cup {Superseded(c)}
    BY <1>2 DEF ReplaceCertificate
  <2>2. certs[c] \in Row
    BY <1>2 DEF Inv, TableInv, TableTypeOK
  <2>3. /\ s.data = m /\ s.hex = m /\ s.fp /\ s.subject = certs[c].subject
        /\ s.imported = certs[c].imported
        /\ s.ca = IF ca = Null THEN certs[c].ca ELSE ca
        /\ s.renew = IF renew = "keep" THEN certs[c].renew ELSE renew
    BY <2>2 DEF Replacement, Row
  <2> HIDE DEF s
  <2>4. /\ DOMAIN certs' = DOMAIN certs /\ certs'[c] = s
        /\ \A d \in DOMAIN certs : d # c => certs'[d] = certs[d]
    BY <1>2, <2>1
  <2>5. certs[c].imported \/ s.renew = certs[c].renew
    BY <1>2, <2>3 DEF MayReplace, ImportedManualGuard, ReplaceGuards
  <2>6. /\ overtaken' = [overtaken EXCEPT ![c] = @ \cup Remembering(p, c)]
        /\ UNCHANGED <<reused, doubled>>
    BY <1>2 DEF MarkReplace
  <2>7. certs[c].ca # Null => s.ca # Null
    BY <2>3
  <2>8. Replaced(p, c, m)
    BY <1>2, <2>1, <2>3, <2>4, <2>5, <2>6, <2>7 DEF Replaced
  <2> QED BY <1>2, <2>3, <2>4, <2>8
<1> QED BY <1>1, <1>2

\* p replaces the content of the row it remembers.
Rewrites(p, c) ==
  /\ c = reg[p].id
  /\ Replaced(p, c, reg[p].m)
  /\ \/ pc[p] = "update_replace" /\ certs[c].imported /\ certs'[c].renew = reg[p].renew
     \/ /\ pc[p] = "acme_replace" /\ ~certs[c].imported
        /\ certs[c].ca = Null /\ certs'[c].ca = Null
     \/ pc[p] = "renew_replace" /\ ~certs[c].imported /\ p = Watcher /\ certs'[c].ca # Null

LEMMA ShapeReplace ==
  ASSUME Inv, NEW p \in Procs,
         \/ p \in Clients /\ (UpdateReplace(p) \/ AcmeReplace(p))
         \/ p = Watcher /\ WatchRenewReplace
  PROVE  /\ UNCHANGED <<issued, silent, todo, doubled>>
         /\ IF p = Watcher THEN Acts(p, "scan", NoReg) ELSE Acts(p, "idle", NoReg)
         /\ Quiet \/ Rewrites(p, reg[p].id)
<1> DEFINE c == reg[p].id
           m == reg[p].m
<1>1. p \in Clients => p # Watcher
  BY StoreAssumption
<1>2. pc[p] \in HasMaterial =>
        m \in Materials /\ issued[m].ca \in CAs /\ reg[p].renew \in RenewMethods
  BY DEF Inv, RegInv, ProcType, Reg, TableInv, IssuedType, Attributes
<1>3. CASE p \in Clients /\ UpdateReplace(p)
  <2>1. /\ pc[p] = "update_replace" /\ pc[p] \in HasMaterial /\ UNCHANGED <<issued, silent, todo>>
        /\ ReplaceCertificate(c, m, issued[m].ca, reg[p].renew, "imported_manual")
        /\ MarkReplace(p, c, "imported_manual") /\ Finish(p)
    BY <1>3 DEF UpdateReplace, HasMaterial
  <2>2. /\ m \in Materials /\ issued[m].ca \in CAs \cup {Null}
        /\ reg[p].renew \in RenewMethods \cup {"keep"} /\ reg[p].renew # "keep"
        /\ "imported_manual" \in ReplaceGuards
    BY <1>2, <2>1 DEF RenewMethods, ReplaceGuards
  <2> HIDE DEF c, m
  <2>a. \/ Quiet /\ doubled' = doubled
        \/ /\ Replaced(p, c, m) /\ MayReplace("imported_manual", certs[c])
           /\ certs'[c].renew = IF reg[p].renew = "keep" THEN certs[c].renew ELSE reg[p].renew
    BY ONLY Inv, p \in Procs, <2>1, <2>2, ReplaceShape
  <2>3. \/ Quiet /\ doubled' = doubled
        \/ /\ Replaced(p, c, m) /\ MayReplace("imported_manual", certs[c])
           /\ certs'[c].renew = reg[p].renew
    BY <2>2, <2>a
  <2> USE DEF c, m
  <2>4. MayReplace("imported_manual", certs[c]) => certs[c].imported
    BY DEF MayReplace, ImportedManualGuard
  <2> QED BY <1>1, <1>3, <2>1, <2>3, <2>4, GotoActs DEF Finish, Rewrites, Replaced
<1>4. CASE p \in Clients /\ AcmeReplace(p)
  <2>1. /\ pc[p] = "acme_replace" /\ pc[p] \in HasMaterial /\ UNCHANGED <<issued, silent, todo>>
        /\ ReplaceCertificate(c, m, Null, "keep", "acme_renewal")
        /\ MarkReplace(p, c, "acme_renewal") /\ Finish(p)
    BY <1>4 DEF AcmeReplace, HasMaterial
  <2>2. /\ m \in Materials /\ Null \in CAs \cup {Null}
        /\ "keep" \in RenewMethods \cup {"keep"} /\ "acme_renewal" \in ReplaceGuards
    BY <1>2, <2>1 DEF ReplaceGuards
  <2> HIDE DEF c, m
  <2>a. \/ Quiet /\ doubled' = doubled
        \/ /\ Replaced(p, c, m) /\ MayReplace("acme_renewal", certs[c])
           /\ certs'[c].ca = IF Null = Null THEN certs[c].ca ELSE Null
    BY ONLY Inv, p \in Procs, <2>1, <2>2, ReplaceShape
  <2>3. \/ Quiet /\ doubled' = doubled
        \/ /\ Replaced(p, c, m) /\ MayReplace("acme_renewal", certs[c])
           /\ certs'[c].ca = certs[c].ca
    BY <2>a
  <2> USE DEF c, m
  <2>4. c \in DOMAIN certs /\ MayReplace("acme_renewal", certs[c]) =>
          ~certs[c].imported /\ certs[c].ca = Null
    BY DEF MayReplace, AcmeRenewalGuard, Inv, TableInv, AcmeApart
  <2>5. Replaced(p, c, m) => c \in DOMAIN certs
    BY DEF Replaced
  <2> QED BY <1>1, <1>4, <2>1, <2>3, <2>4, <2>5, GotoActs DEF Finish, Rewrites, Replaced
<1>5. CASE p = Watcher /\ WatchRenewReplace
  <2>1. /\ pc[p] = "renew_replace" /\ pc[p] \in HasMaterial /\ UNCHANGED <<issued, silent, todo>>
        /\ ReplaceCertificate(c, m, issued[m].ca, "keep", "renewal")
        /\ MarkReplace(p, c, "renewal") /\ Goto(p, "scan", NoReg)
    BY <1>5 DEF WatchRenewReplace, HasMaterial
  <2>2. /\ m \in Materials /\ issued[m].ca \in CAs \cup {Null} /\ issued[m].ca # Null
        /\ "keep" \in RenewMethods \cup {"keep"} /\ "renewal" \in ReplaceGuards
    BY <1>2, <2>1, TableAssumption DEF ReplaceGuards
  <2> DEFINE ca == issued[m].ca
  <2>b. /\ ReplaceCertificate(c, m, ca, "keep", "renewal") /\ MarkReplace(p, c, "renewal")
        /\ ca \in CAs \cup {Null} /\ UNCHANGED <<issued, silent, todo>> /\ m \in Materials
        /\ "keep" \in RenewMethods \cup {"keep"} /\ "renewal" \in ReplaceGuards
    BY <2>1, <2>2
  <2> HIDE DEF c, m, ca
  <2>a. \/ Quiet /\ doubled' = doubled
        \/ /\ Replaced(p, c, m) /\ MayReplace("renewal", certs[c])
           /\ certs'[c].ca = IF ca = Null THEN certs[c].ca ELSE ca
    BY ONLY Inv, p \in Procs, <2>b, ReplaceShape
  <2>3. \/ Quiet /\ doubled' = doubled
        \/ /\ Replaced(p, c, m) /\ MayReplace("renewal", certs[c])
           /\ certs'[c].ca = issued[m].ca
    BY <2>2, <2>a DEF ca
  <2> USE DEF c, m
  <2>4. MayReplace("renewal", certs[c]) => ~certs[c].imported
    BY DEF MayReplace, RenewalGuard
  <2> QED BY <1>2, <1>5, <2>1, <2>3, <2>4, TableAssumption, GotoActs DEF Rewrites, Replaced
<1> QED BY <1>3, <1>4, <1>5

\* The columns.
LEMMA ShapeColumn ==
  ASSUME Inv, NEW p \in Procs,
         \/ /\ p \in Clients
            /\ RecordSerial(p) \/ RevokeWrite(p) \/ PurgeWrite(p) \/ DeleteProvider(p)
         \/ p = Watcher /\ WatchNotifyReset
  PROVE  Column(p) /\ todo' = todo
<1>1. \A c \in DOMAIN certs : certs[c] \in Row
  BY DEF Inv, TableInv, TableTypeOK
<1>2. /\ DOMAIN certs' = DOMAIN certs /\ versions' \subseteq versions
      /\ UNCHANGED <<issued, silent, todo, marks>>
  BY DEF RecordSerial, RevokeWrite, PurgeWrite, DeleteProvider, WatchNotifyReset, SetCertSerial,
         RevokeRow, ClearRenewMethod, UpdateRow, DeleteVersion, ForgetProvider
<1>3. CASE p \in Clients /\ RecordSerial(p)
  BY <1>1, <1>2, <1>3 DEF RecordSerial, SetCertSerial, UpdateRow, Row, Column, marks
<1>4. CASE p \in Clients /\ RevokeWrite(p)
  BY <1>1, <1>2, <1>4 DEF RevokeWrite, RevokeRow, UpdateRow, Row, Column, marks
<1>5. CASE p \in Clients /\ PurgeWrite(p)
  BY <1>1, <1>2, <1>5 DEF PurgeWrite, DeleteVersion, Column, marks
<1>6. CASE p \in Clients /\ DeleteProvider(p)
  BY <1>1, <1>2, <1>6 DEF DeleteProvider, ForgetProvider, Row, Column, marks
<1>7. CASE p = Watcher /\ WatchNotifyReset
  BY <1>1, <1>2, <1>7 DEF WatchNotifyReset, ClearRenewMethod, UpdateRow, Row, Column, marks
<1> QED BY <1>3, <1>4, <1>5, <1>6, <1>7

LEMMA ShapeDelete ==
  ASSUME Inv, NEW p \in Clients, DeleteWrite(p)
  PROVE  Deleted(reg[p].id) /\ Acts(p, "idle", NoReg) /\ pc[p] = "delete_write"
BY GotoActs DEF DeleteWrite, DeleteRow, Deleted, marks, Finish, Procs

\* A step of one process.
Step(p) == (p \in Clients /\ Handler(p)) \/ (p = Watcher /\ Watch)

\* What a step does to the tables.
Shape(p) ==
  \/ Quiet
  \/ Column(p) /\ todo' = todo
  \/ \E c \in CertIds, n \in Row : Makes(p, c, n)
  \/ \E c \in DOMAIN certs : Rewrites(p, c)
  \/ Deleted(reg[p].id) /\ pc[p] = "delete_write"

LEMMA StepShape ==
  ASSUME Inv, NEW p \in Procs, Step(p)
  PROVE  Shape(p)
<1>1. CASE p \in Clients /\ (CreateInsert(p) \/ ImportInsert(p) \/ AcmeInsert(p))
  BY <1>1, ShapeInsert DEF Shape
<1>2. CASE \/ p \in Clients /\ (UpdateReplace(p) \/ AcmeReplace(p))
           \/ p = Watcher /\ WatchRenewReplace
  <2>1. Quiet \/ Rewrites(p, reg[p].id)
    BY <1>2, ShapeReplace
  <2>2. Rewrites(p, reg[p].id) => reg[p].id \in DOMAIN certs
    BY DEF Rewrites, Replaced
  <2> QED BY <2>1, <2>2 DEF Shape
<1>3. CASE \/ /\ p \in Clients
              /\ RecordSerial(p) \/ RevokeWrite(p) \/ PurgeWrite(p) \/ DeleteProvider(p)
           \/ p = Watcher /\ WatchNotifyReset
  BY <1>3, ShapeColumn DEF Shape
<1>4. CASE p \in Clients /\ DeleteWrite(p)
  BY <1>4, ShapeDelete DEF Shape
<1>5. CASE p \in Clients /\ (\/ CreateBegin(p) \/ ImportBegin(p) \/ ImportCheck(p)
                             \/ UpdateBegin(p) \/ UpdateCheck(p) \/ AcmeIssue(p) \/ AcmeOrder(p)
                             \/ AcmeRenew(p) \/ AcmeReread(p) \/ RevokeBegin(p)
                             \/ DeleteBegin(p) \/ PurgeBegin(p))
  BY <1>5 DEF CreateBegin, ImportBegin, ImportCheck, UpdateBegin, UpdateCheck, AcmeIssue, AcmeOrder,
              AcmeRenew, AcmeReread, RevokeBegin, DeleteBegin, PurgeBegin, MarkStore, marks,
              Quiet, Shape
<1>6. CASE /\ p = Watcher
           /\ WatchScan \/ WatchDone \/ \E c \in CertIds : WatchSkip(c) \/ WatchRenew(c)
                                                           \/ WatchNotify(c)
  BY <1>6 DEF WatchScan, WatchDone, WatchSkip, WatchRenew, WatchNotify, marks, Quiet, Shape
<1> QED BY <1>1, <1>2, <1>3, <1>4, <1>5, <1>6 DEF Step, Handler, Watch

LEMMA StepFrame ==
  ASSUME Inv, MarksType, NEW p \in Procs, Shape(p)
  PROVE  Frame(p)
BY ShapesFrame DEF Shape, Makes, Rewrites

\* What a step leaves alone: the other processes, and the past.
Others(p) == \A q \in Procs : q # p => pc'[q] = pc[q] /\ reg'[q] = reg[q]

Past ==
  /\ DOMAIN issued \subseteq DOMAIN issued' /\ \A m \in DOMAIN issued : issued'[m] = issued[m]
  /\ silent \subseteq silent' /\ doubled \subseteq doubled'

LEMMA StepPast ==
  ASSUME Inv, NEW p \in Procs, Step(p)
  PROVE  Past
<1>1. /\ silent \subseteq silent'
      /\ doubled \subseteq doubled'
  BY DEF Step, Handler, Watch, CreateBegin, CreateInsert, RecordSerial, ImportBegin, ImportCheck,
         ImportInsert, UpdateBegin, UpdateCheck, UpdateReplace, AcmeIssue, AcmeInsert, AcmeOrder,
         AcmeRenew, AcmeReread, AcmeReplace, DeleteProvider, RevokeBegin, RevokeWrite, DeleteBegin,
         DeleteWrite, PurgeBegin, PurgeWrite, WatchScan, WatchDone, WatchSkip, WatchRenew,
         WatchNotify, WatchRenewReplace, WatchNotifyReset, Chosen, MarkStore, MarkInsert,
         MarkReplace, marks
<1>2. \/ UNCHANGED issued
      \/ \E m \in Materials, a \in Attributes : Mint(m, a)
  BY DEF Step, Handler, Watch, CreateBegin, CreateInsert, RecordSerial, ImportBegin, ImportCheck,
         ImportInsert, UpdateBegin, UpdateCheck, UpdateReplace, AcmeIssue, AcmeInsert, AcmeOrder,
         AcmeRenew, AcmeReread, AcmeReplace, DeleteProvider, RevokeBegin, RevokeWrite, DeleteBegin,
         DeleteWrite, PurgeBegin, PurgeWrite, WatchScan, WatchDone, WatchSkip, WatchRenew,
         WatchNotify, WatchRenewReplace, WatchNotifyReset, Upload
<1> QED BY <1>1, <1>2, MintFacts DEF Past, Inv, TableInv

LEMMA StepOthers ==
  ASSUME Inv, NEW p \in Procs, Step(p)
  PROVE  Others(p)
<1>1. UNCHANGED <<pc, reg>> \/ \E l, r : Goto(p, l, r)
  <2>1. CASE p \in Clients /\ Handler(p)
    BY <2>1 DEF Handler, CreateBegin, CreateInsert, RecordSerial, ImportBegin, ImportCheck,
         ImportInsert, UpdateBegin, UpdateCheck, UpdateReplace, AcmeIssue, AcmeInsert, AcmeOrder,
         AcmeRenew, AcmeReread, AcmeReplace, DeleteProvider, RevokeBegin, RevokeWrite, DeleteBegin,
         DeleteWrite, PurgeBegin, PurgeWrite, Finish
  <2>2. CASE p = Watcher /\ Watch
    BY <2>2 DEF Watch, WatchScan, WatchDone, WatchSkip, WatchRenew, WatchNotify,
                WatchRenewReplace, WatchNotifyReset, Finish
  <2> QED BY <2>1, <2>2 DEF Step
<1> QED BY <1>1, GotoActs DEF Acts, Others

\* Where a process comes from when it is about to write.
Comes(p) ==
  /\ pc'[p] = "create_insert" => CreateBegin(p)
  /\ pc'[p] = "import_check" => ImportBegin(p)
  /\ pc'[p] = "import_insert" => ImportCheck(p)
  /\ pc'[p] = "update_check" => UpdateBegin(p)
  /\ pc'[p] = "update_replace" => UpdateCheck(p)
  /\ pc'[p] = "acme_insert" => AcmeIssue(p)
  /\ pc'[p] = "set_serial" => CreateInsert(p) \/ ImportInsert(p)
  /\ pc'[p] = "renew_replace" => p = Watcher /\ \E c \in CertIds : WatchRenew(c)
  /\ pc'[p] = "notify_reset" => p = Watcher /\ \E c \in CertIds : WatchNotify(c)
  /\ pc[p] = "set_serial" => RecordSerial(p)

LEMMA StepComes ==
  ASSUME Inv, NEW p \in Procs, Step(p)
  PROVE  Comes(p)
<1>1. \A l, r : Goto(p, l, r) => pc'[p] = l
  BY GotoActs DEF Acts
<1>2. CASE p \in Clients /\ Handler(p)
  <2>1. CASE CreateBegin(p) \/ CreateInsert(p) \/ RecordSerial(p)
    BY <1>1, <2>1 DEF CreateBegin, CreateInsert, RecordSerial, Finish, Starts, Comes
  <2>2. CASE ImportBegin(p) \/ ImportCheck(p) \/ ImportInsert(p)
    BY <1>1, <2>2 DEF ImportBegin, ImportCheck, ImportInsert, Finish, Starts, Comes
  <2>3. CASE UpdateBegin(p) \/ UpdateCheck(p) \/ UpdateReplace(p)
    BY <1>1, <2>3 DEF UpdateBegin, UpdateCheck, UpdateReplace, Finish, Starts, Comes
  <2>4. CASE AcmeIssue(p) \/ AcmeInsert(p) \/ AcmeOrder(p)
    BY <1>1, <2>4 DEF AcmeIssue, AcmeInsert, AcmeOrder, Finish, Starts, Comes
  <2>5. CASE AcmeRenew(p) \/ AcmeReread(p) \/ AcmeReplace(p) \/ DeleteProvider(p)
    BY <1>1, <2>5 DEF AcmeRenew, AcmeReread, AcmeReplace, DeleteProvider, Finish, Starts, Comes
  <2>6. CASE \/ RevokeBegin(p) \/ RevokeWrite(p) \/ DeleteBegin(p) \/ DeleteWrite(p)
             \/ PurgeBegin(p) \/ PurgeWrite(p)
    BY <1>1, <2>6 DEF RevokeBegin, RevokeWrite, DeleteBegin, DeleteWrite, PurgeBegin, PurgeWrite,
                      Finish, Starts, Comes
  <2> QED BY <1>2, <2>1, <2>2, <2>3, <2>4, <2>5, <2>6 DEF Handler
<1>3. CASE p = Watcher /\ Watch
  <2>1. CASE WatchScan \/ WatchDone \/ WatchRenewReplace \/ WatchNotifyReset
    BY <1>1, <1>3, <2>1 DEF WatchScan, WatchDone, WatchRenewReplace, WatchNotifyReset, Finish, Starts,
                       Comes
  <2>2. ASSUME NEW c \in CertIds, WatchSkip(c) \/ WatchRenew(c) \/ WatchNotify(c)
        PROVE  Comes(p)
    <3>1. CASE WatchSkip(c)
      BY <1>3, <3>1 DEF WatchSkip, Comes
    <3>2. CASE WatchRenew(c)
      BY <1>1, <1>3, <3>2 DEF WatchRenew, Comes
    <3>3. CASE WatchNotify(c)
      BY <1>1, <1>3, <3>3 DEF WatchNotify, Comes
    <3> QED BY <2>2, <3>1, <3>2, <3>3
  <2> QED BY <1>3, <2>1, <2>2 DEF Watch
<1> QED BY <1>2, <1>3 DEF Step

\* The contents of a row after each shape.
LEMMA HeldKept ==
  ASSUME Inv, NEW p, Quiet \/ Column(p) \/ Deleted(reg[p].id), NEW c \in DOMAIN certs'
  PROVE  c \in DOMAIN certs /\ Held(c)' \subseteq Held(c)
<1>1. c \in DOMAIN certs /\ certs'[c].data = certs[c].data /\ versions' \subseteq versions
  BY DEF Quiet, Column, Deleted
<1> QED BY <1>1 DEF Held

LEMMA HeldMade ==
  ASSUME Inv, NEW p, NEW c, NEW n, Makes(p, c, n)
  PROVE  /\ Held(c)' = {reg[p].m}
         /\ \A d \in DOMAIN certs : d # c /\ certs'[d] = certs[d] /\ Held(d)' = Held(d)
<1>1. \A v \in versions : v.cert # c
  BY DEF Makes, Inserted, Inv, TableInv, HistoryBelowCurrent
<1>2. /\ versions' = versions /\ certs'[c].data = reg[p].m /\ c \notin DOMAIN certs
      /\ \A d \in DOMAIN certs : certs'[d] = certs[d]
  BY DEF Makes, Inserted
<1> QED BY <1>1, <1>2 DEF Held

LEMMA HeldRewritten ==
  ASSUME Inv, NEW p, NEW c \in DOMAIN certs, Rewrites(p, c)
  PROVE  /\ Held(c)' = Held(c) \cup {reg[p].m}
         /\ \A d \in DOMAIN certs : d # c => certs'[d] = certs[d] /\ Held(d)' = Held(d)
<1> DEFINE s == Superseded(c)
<1>1. s.cert = c /\ s.data = certs[c].data
  BY DEF Superseded
<1>2. /\ versions' = versions \cup {s} /\ certs'[c].data = reg[p].m
      /\ \A d \in DOMAIN certs : d # c => certs'[d] = certs[d]
  BY DEF Rewrites, Replaced
<1> HIDE DEF s
<1> QED BY <1>1, <1>2 DEF Held

-----------------------------------------------------------------------------
\* The subject of an update was checked against the row it is about to replace.
Checked(q) ==
  pc[q] \in {"update_check", "update_replace"} /\ reg[q].id \in DOMAIN certs
    /\ ~UpdateAstray(reg[q].id)
  => issued[reg[q].m].subject = certs[reg[q].id].subject

SubjectInv == (\A q \in Procs : Checked(q)) /\ SubjectMatches

LEMMA SubjectStep ==
  ASSUME Inv, MarksType, SubjectInv, NEW p \in Procs, Step(p)
  PROVE  SubjectInv'
<1>1. Shape(p) /\ Frame(p) /\ Others(p) /\ Past /\ Comes(p)
  BY StepShape, StepFrame, StepOthers, StepPast, StepComes
<1>2. ASSUME NEW q \in Procs, q # p
      PROVE  Checked(q)'
  <2>1. pc'[q] = pc[q] /\ reg'[q] = reg[q]
    BY <1>1, <1>2 DEF Others
  <2>2. SUFFICES ASSUME pc[q] \in {"update_check", "update_replace"}, NEW c \in DOMAIN certs',
                        c = reg[q].id, ~UpdateAstray(c)'
                 PROVE  issued'[reg[q].m].subject = certs'[c].subject
    BY <2>1 DEF Checked, UpdateAstray
  <2>3. issued'[reg[q].m] = issued[reg[q].m]
    BY <1>1, <2>2 DEF Past, Inv, RegInv, HasMaterial
  <2>4. pc[q] \in Remembering(p, c)
    BY <1>2, <2>2, Remembered
  <2>5. reused'[c] # Remembering(p, c)
    BY <2>2, <2>4 DEF UpdateAstray
  <2>6. /\ c \in DOMAIN certs /\ reused'[c] = reused[c]
        /\ certs'[c].subject = certs[c].subject
    BY <1>1, <2>5 DEF Frame
  <2> QED BY <2>2, <2>3, <2>6 DEF SubjectInv, Checked, UpdateAstray
<1>3. Checked(p)'
  <2>1. CASE pc'[p] = "update_check"
    <3>1. UpdateBegin(p)
      BY <1>1, <2>1 DEF Comes
    <3>2. PICK c \in DOMAIN certs, m \in Materials, a \in Attributes, rn \in RenewMethods :
            /\ UpdateAllowed(certs[c], a) /\ Upload(m, a)
            /\ Goto(p, "update_check", [NoReg EXCEPT !.id = c, !.m = m, !.renew = rn])
      <4>1. \A c \in DOMAIN certs : certs[c].renew \in RenewMethods
        BY DEF Inv, TableInv, TableTypeOK, Row
      <4>2. \A c \in DOMAIN certs, sent \in Choices \cup {"unsent"} :
              Rearmed(certs[c], sent) \in RenewMethods
        BY <4>1 DEF Rearmed, RenewMethods
      <4> QED BY <3>1, <4>2 DEF UpdateBegin
    <3>3. reg'[p] = [NoReg EXCEPT !.id = c, !.m = m, !.renew = rn]
      BY <3>2, GotoActs DEF Acts
    <3>6. reg'[p].id = c /\ reg'[p].m = m
      BY <3>3 DEF NoReg
    <3>4. issued'[m] = a
      BY <3>2, MintFacts DEF Upload, Inv, TableInv
    <3>5. a.subject = certs[c].subject /\ certs' = certs
      BY <3>1, <3>2 DEF UpdateAllowed, UpdateBegin
    <3> QED BY <3>4, <3>5, <3>6 DEF Checked
  <2>2. CASE pc'[p] = "update_replace"
    <3>1. UpdateCheck(p)
      BY <1>1, <2>2 DEF Comes
    <3>2. Goto(p, "update_replace", reg[p]) \/ Finish(p)
      BY <3>1 DEF UpdateCheck
    <3>3. reg'[p] = reg[p]
      BY <2>2, <3>2, GotoActs DEF Acts, Finish
    <3>4. UNCHANGED <<certs, issued, reused>> /\ pc[p] = "update_check"
      BY <3>1 DEF UpdateCheck, MarkStore, marks
    <3> QED BY <3>3, <3>4 DEF Checked, SubjectInv, UpdateAstray
  <2> QED BY <2>1, <2>2 DEF Checked
<1>4. SubjectMatches'
  <2> SUFFICES ASSUME NEW c \in DOMAIN certs', certs'[c].imported, ~UpdateAstray(c)',
                      NEW m \in Held(c)'
               PROVE  issued'[m].subject = certs'[c].subject
    BY DEF SubjectMatches
  <2>1. \A d \in DOMAIN certs : Held(d) \subseteq DOMAIN issued
    BY DEF Held, Inv, TableInv, Known
  <2>2. ASSUME c \in DOMAIN certs, reused'[c] = reused[c], m \in Held(c),
               certs'[c].subject = certs[c].subject, certs'[c].imported = certs[c].imported
        PROVE  issued'[m].subject = certs'[c].subject
    <3>1. issued'[m] = issued[m]
      BY <1>1, <2>1, <2>2 DEF Past
    <3> QED BY <2>2, <3>1 DEF SubjectInv, SubjectMatches, UpdateAstray
  <2>3. CASE Quiet \/ Column(p) \/ Deleted(reg[p].id)
    BY <2>2, <2>3, HeldKept DEF Quiet, Column, Deleted
  <2>4. ASSUME NEW d \in CertIds, NEW n \in Row, Makes(p, d, n)
        PROVE  issued'[m].subject = certs'[c].subject
    <3>1. CASE c = d
      <4>2. Held(d)' = {reg[p].m} /\ certs'[d].subject = issued[reg[p].m].subject
            /\ issued' = issued
        BY <2>4, HeldMade DEF Makes, Inserted
      <4>1. m = reg[p].m /\ certs'[c].subject = issued[reg[p].m].subject /\ issued' = issued
        BY <3>1, <4>2 DEF Held
      <4> QED BY <4>1
    <3>2. CASE c # d
      <4>1. c \in DOMAIN certs /\ reused'[c] = reused[c] /\ c \in CertIds
        BY <2>4, <3>2 DEF Makes, Inserted, MarksType, Inv, TableInv, TableTypeOK
      <4> QED BY <2>2, <2>4, <4>1, HeldMade
    <3> QED BY <3>1, <3>2
  <2>5. ASSUME NEW d \in DOMAIN certs, Rewrites(p, d)
        PROVE  issued'[m].subject = certs'[c].subject
    <3>1. c \in DOMAIN certs /\ reused' = reused /\ issued' = issued
      BY <2>5 DEF Rewrites, Replaced
    <3>2. CASE c = d /\ m = reg[p].m
      <4>1. /\ c = reg[p].id /\ certs'[c].subject = certs[c].subject /\ pc[p] = "update_replace"
        BY <2>5, <3>2 DEF Rewrites, Replaced
      <4> QED BY <3>1, <3>2, <4>1 DEF SubjectInv, Checked, UpdateAstray
    <3>3. CASE c = d /\ m \in Held(c)
      <4>1. certs'[c].subject = certs[c].subject /\ certs'[c].imported = certs[c].imported
        BY <2>5, <3>3 DEF Rewrites, Replaced
      <4> QED BY <2>2, <3>1, <3>3, <4>1
    <3>4. CASE c # d
      BY <2>2, <2>5, <3>1, <3>4, HeldRewritten
    <3> QED BY <2>5, <3>1, <3>2, <3>3, <3>4, HeldRewritten
  <2> QED BY <1>1, <2>3, <2>4, <2>5 DEF Shape
<1> QED BY <1>2, <1>3, <1>4 DEF SubjectInv

LEMMA SubjectRestart ==
  ASSUME Inv, SubjectInv, Restart
  PROVE  SubjectInv'
<1>1. \A q \in Procs : Checked(q)'
  BY DEF Restart, Checked
<1>2. /\ DOMAIN certs' = DOMAIN certs /\ versions' = versions /\ issued' = issued /\ reused' = reused
      /\ \A c \in DOMAIN certs : /\ certs'[c].data = certs[c].data
                                 /\ certs'[c].subject = certs[c].subject
                                 /\ certs'[c].imported = certs[c].imported
  <2>1. \A c \in DOMAIN certs : certs[c] \in Row
    BY DEF Inv, TableInv, TableTypeOK
  <2> QED BY <2>1 DEF Restart, Backfill, marks, Row
<1>3. \A c \in DOMAIN certs : Held(c)' = Held(c)
  BY <1>2 DEF Held
<1>4. SubjectMatches'
  BY <1>2, <1>3 DEF SubjectMatches, SubjectInv, UpdateAstray
<1> QED BY <1>1, <1>4 DEF SubjectInv

-----------------------------------------------------------------------------
\* The serial a process is about to record is that of the row's content.
Recording(q) ==
  pc[q] = "set_serial" /\ reg[q].id \in DOMAIN certs /\ ~SerialAstray(reg[q].id)
  => certs[reg[q].id].data = reg[q].m

\* A serial is missing only where none is recorded, or where a process is about
\* to record it.
Pending(c) == \E q \in Procs : pc[q] = "set_serial" /\ reg[q].id = c

SerialRow(c) ==
  \/ SerialAstray(c)
  \/ certs[c].hex = certs[c].data
  \/ certs[c].hex = Null /\ (certs[c].ca = Null \/ Pending(c))

SerialVersion(v) ==
  \/ SerialAstray(v.cert)
  \/ v.hex = v.data
  \/ v.hex = Null /\ v.ca = Null

SerialInv ==
  /\ \A q \in Procs : Recording(q)
  /\ \A c \in DOMAIN certs : SerialRow(c)
  /\ \A v \in versions : SerialVersion(v)

LEMMA SerialProcs ==
  ASSUME Inv, MarksType, SerialInv, NEW p \in Procs, Step(p)
  PROVE  \A q \in Procs : Recording(q)'
<1>1. Shape(p) /\ Frame(p) /\ Others(p) /\ Comes(p)
  BY StepShape, StepFrame, StepOthers, StepComes
<1>2. ASSUME NEW q \in Procs, q # p
      PROVE  Recording(q)'
  <2>1. pc'[q] = pc[q] /\ reg'[q] = reg[q]
    BY <1>1, <1>2 DEF Others
  <2>2. SUFFICES ASSUME pc[q] = "set_serial", NEW c \in DOMAIN certs', c = reg[q].id,
                        ~SerialAstray(c)'
                 PROVE  certs'[c].data = reg[q].m
    BY <2>1 DEF Recording, SerialAstray
  <2>3. pc[q] \in Remembering(p, c)
    BY <1>2, <2>2, Remembered
  <2>4. reused'[c] # Remembering(p, c) /\ ~(Remembering(p, c) \subseteq overtaken'[c])
    BY <2>2, <2>3 DEF SerialAstray
  <2>5. /\ c \in DOMAIN certs /\ reused'[c] = reused[c] /\ overtaken[c] \subseteq overtaken'[c]
        /\ certs'[c].data = certs[c].data
    BY <1>1, <2>4 DEF Frame
  <2> QED BY <2>2, <2>5 DEF SerialInv, Recording, SerialAstray
<1>3. Recording(p)'
  <2> SUFFICES ASSUME pc'[p] = "set_serial"
               PROVE  reg'[p].id \in DOMAIN certs' => certs'[reg'[p].id].data = reg'[p].m
    BY DEF Recording
  <2>1. CreateInsert(p) \/ ImportInsert(p)
    BY <1>1 DEF Comes
  <2>2. p \in Clients
    BY <2>1 DEF Step, Watch, CreateInsert, ImportInsert, WatchScan, WatchDone, WatchSkip, WatchRenew,
                WatchNotify, WatchRenewReplace, WatchNotifyReset, Starts
  <2>3. PICK c \in CertIds, n \in Row : Makes(p, c, n)
    BY <2>1, <2>2, ShapeInsert
  <2>4. reg'[p] = [reg[p] EXCEPT !.id = c]
    BY <2>3 DEF Makes, Acts, NoReg
  <2>5. reg[p] \in Reg
    BY DEF Inv, ProcType
  <2>6. reg'[p].id = c /\ reg'[p].m = reg[p].m
    BY <2>4, <2>5 DEF Reg
  <2> QED BY <2>3, <2>6 DEF Makes, Inserted
<1> QED BY <1>2, <1>3

LEMMA PendingKept ==
  ASSUME NEW p \in Procs, Others(p), NEW c, Pending(c), ~(pc[p] = "set_serial" /\ reg[p].id = c)
  PROVE  Pending(c)'
BY DEF Pending, Others

LEMMA SerialRows ==
  ASSUME Inv, MarksType, SerialInv, NEW p \in Procs, Step(p), NEW c \in DOMAIN certs'
  PROVE  SerialRow(c)'
<1>1. Shape(p) /\ Frame(p) /\ Others(p) /\ Comes(p)
  BY StepShape, StepFrame, StepOthers, StepComes
<1>2. ASSUME c \in DOMAIN certs, certs'[c].data = certs[c].data, certs'[c].hex = certs[c].hex,
             certs'[c].ca = certs[c].ca, reused'[c] = reused[c], overtaken'[c] = overtaken[c],
             ~(pc[p] = "set_serial" /\ reg[p].id = c)
      PROVE  SerialRow(c)'
  <2>1. SerialRow(c)
    BY <1>2 DEF SerialInv
  <2>2. Pending(c) => Pending(c)'
    BY <1>1, <1>2, PendingKept
  <2>3. SerialAstray(c)' <=> SerialAstray(c)
    BY <1>2 DEF SerialAstray
  <2> QED BY <1>2, <2>1, <2>2, <2>3 DEF SerialRow
<1>3. pc[p] = "set_serial" => Column(p)
  <2> SUFFICES ASSUME pc[p] = "set_serial" PROVE Column(p)
    OBVIOUS
  <2>1. RecordSerial(p)
    BY <1>1 DEF Comes
  <2>2. p \in Clients
    BY DEF Step, Watch, WatchScan, WatchDone, WatchSkip, WatchRenew,
           WatchNotify, WatchRenewReplace, WatchNotifyReset, Starts
  <2> QED BY <2>1, <2>2, ShapeColumn
<1>4. CASE Column(p)
  <2>1. /\ c \in DOMAIN certs /\ certs'[c].data = certs[c].data /\ certs'[c].ca = certs[c].ca
        /\ reused'[c] = reused[c] /\ overtaken'[c] = overtaken[c]
    BY <1>4 DEF Column
  <2>2. CASE pc[p] = "set_serial" /\ reg[p].id = c
    <3>1. certs'[c].hex = reg[p].m
      <4>1. SetCertSerial(c, reg[p].m)
        BY <1>1, <2>2 DEF Comes, RecordSerial
      <4>2. certs[c] \in Row
        BY <2>1 DEF Inv, TableInv, TableTypeOK
      <4> QED BY <2>1, <4>1, <4>2 DEF SetCertSerial, UpdateRow, Row
    <3>2. SerialAstray(c)' <=> SerialAstray(c)
      BY <2>1 DEF SerialAstray
    <3>3. SerialAstray(c) \/ certs[c].data = reg[p].m
      BY <2>1, <2>2 DEF SerialInv, Recording
    <3> QED BY <2>1, <3>1, <3>2, <3>3 DEF SerialRow
  <2>3. CASE ~(pc[p] = "set_serial" /\ reg[p].id = c)
    <3>1. certs'[c].hex = certs[c].hex
      BY <1>4, <2>1, <2>3 DEF Column
    <3> QED BY <1>2, <2>1, <2>3, <3>1
  <2> QED BY <2>2, <2>3
<1>5. CASE (Quiet \/ Deleted(reg[p].id)) /\ ~Column(p)
  BY <1>2, <1>3, <1>5 DEF Quiet, Deleted
<1>6. ASSUME NEW d \in CertIds, NEW n \in Row, Makes(p, d, n)
      PROVE  SerialRow(c)'
  <2>1. pc[p] # "set_serial"
    BY <1>6 DEF Makes
  <2>2. CASE c = d
    <3>1. certs'[c].hex = Null /\ certs'[c].ca = n.ca
      BY <1>6, <2>2 DEF Makes, Inserted
    <3>2. CASE pc[p] = "acme_insert"
      BY <1>6, <3>1, <3>2 DEF Makes, SerialRow
    <3>3. CASE pc[p] # "acme_insert"
      <4>1. pc'[p] = "set_serial" /\ reg'[p] = [reg[p] EXCEPT !.id = c]
        BY <1>6, <2>2, <3>3 DEF Makes, Acts
      <4>2. reg[p] \in Reg
        BY DEF Inv, ProcType
      <4>3. Pending(c)'
        BY <4>1, <4>2 DEF Pending, Reg
      <4> QED BY <3>1, <4>3 DEF SerialRow
    <3> QED BY <3>2, <3>3
  <2>3. CASE c # d
    <3>1. c \in DOMAIN certs /\ certs'[c] = certs[c] /\ c \in CertIds
      BY <1>6, <2>3 DEF Makes, Inserted, Inv, TableInv, TableTypeOK
    <3>2. reused'[c] = reused[c] /\ overtaken'[c] = overtaken[c]
      BY <1>6, <2>3, <3>1 DEF Makes, Inserted, MarksType
    <3> QED BY <1>2, <2>1, <3>1, <3>2
  <2> QED BY <2>2, <2>3
<1>7. ASSUME NEW d \in DOMAIN certs, Rewrites(p, d)
      PROVE  SerialRow(c)'
  <2>1. pc[p] # "set_serial"
    BY <1>7 DEF Rewrites
  <2>2. CASE c = d
    BY <1>7, <2>2 DEF Rewrites, Replaced, SerialRow
  <2>3. CASE c # d
    <3>1. c \in DOMAIN certs /\ certs'[c] = certs[c] /\ c \in CertIds
      BY <1>7, <2>3 DEF Rewrites, Replaced, Inv, TableInv, TableTypeOK
    <3>2. reused'[c] = reused[c] /\ overtaken'[c] = overtaken[c]
      BY <1>7, <2>3, <3>1 DEF Rewrites, Replaced, MarksType
    <3> QED BY <1>2, <2>1, <3>1, <3>2
  <2> QED BY <2>2, <2>3
<1> QED BY <1>1, <1>4, <1>5, <1>6, <1>7 DEF Shape

LEMMA SerialVersions ==
  ASSUME Inv, MarksType, SerialInv, NEW p \in Procs, Step(p), NEW v \in versions'
  PROVE  SerialVersion(v)'
<1>1. Shape(p) /\ Frame(p)
  BY StepShape, StepFrame
<1>2. CASE v \in versions
  <2>1. v.cert \in DOMAIN certs /\ SerialVersion(v)
    BY <1>2 DEF SerialInv, Inv, TableInv, HistoryBelowCurrent
  <2>2. v.cert \in DOMAIN certs'
    BY <1>1, <2>1 DEF Shape, Quiet, Column, Makes, Inserted, Rewrites, Replaced, Deleted
  <2>3. reused'[v.cert] = reused[v.cert] /\ overtaken[v.cert] \subseteq overtaken'[v.cert]
    BY <1>1, <2>1, <2>2 DEF Frame
  <2> QED BY <2>1, <2>3 DEF SerialVersion, SerialAstray
<1>3. CASE v \notin versions
  <2>1. PICK c \in DOMAIN certs : Rewrites(p, c)
    BY <1>1, <1>3 DEF Shape, Quiet, Column, Makes, Inserted, Deleted
  <2>2. v = Superseded(c) /\ pc[p] # "set_serial"
    BY <1>3, <2>1 DEF Rewrites, Replaced
  <2>3. v.cert = c /\ v.data = certs[c].data /\ v.hex = certs[c].hex /\ v.ca = certs[c].ca
    BY <2>2 DEF Superseded
  <2>4. c \in CertIds
    BY DEF Inv, TableInv, TableTypeOK
  <2>5. reused'[c] = reused[c] /\ overtaken'[c] = overtaken[c] \cup Remembering(p, c)
    BY <2>1, <2>4 DEF Rewrites, Replaced, MarksType
  <2>6. SerialAstray(c) => SerialAstray(c)'
    BY <2>5 DEF SerialAstray
  <2>7. Pending(c) => SerialAstray(c)'
    <3> SUFFICES ASSUME NEW q \in Procs, pc[q] = "set_serial", reg[q].id = c
                 PROVE  SerialAstray(c)'
      BY DEF Pending
    <3>1. "set_serial" \in Remembering(p, c)
      BY <2>2, Remembered
    <3> QED BY <2>5, <3>1 DEF SerialAstray
  <2>8. SerialRow(c)
    BY DEF SerialInv
  <2>9. SerialAstray(v.cert)' <=> SerialAstray(c)'
    BY <2>3 DEF SerialAstray
  <2> QED BY <2>3, <2>6, <2>7, <2>8, <2>9 DEF SerialRow, SerialVersion
<1> QED BY <1>2, <1>3

LEMMA SerialStep ==
  ASSUME Inv, MarksType, SerialInv, NEW p \in Procs, Step(p)
  PROVE  SerialInv'
<1>1. \A q \in Procs : Recording(q)'
  BY SerialProcs
<1>2. \A c \in DOMAIN certs' : SerialRow(c)'
  BY SerialRows
<1>3. \A v \in versions' : SerialVersion(v)'
  BY SerialVersions
<1> QED BY <1>1, <1>2, <1>3 DEF SerialInv

LEMMA SerialRestart ==
  ASSUME Inv, SerialInv, Restart
  PROVE  SerialInv'
<1>1. \A q \in Procs : Recording(q)'
  BY DEF Restart, Recording
<1>2. /\ DOMAIN certs' = DOMAIN certs /\ versions' = versions
      /\ reused' = reused /\ overtaken' = overtaken
      /\ \A c \in DOMAIN certs :
           /\ certs'[c].data = certs[c].data
           /\ certs'[c].hex = IF certs[c].hex = Null THEN certs[c].data ELSE certs[c].hex
  <2>1. \A c \in DOMAIN certs : certs[c] \in Row
    BY DEF Inv, TableInv, TableTypeOK
  <2> QED BY <2>1 DEF Restart, Backfill, marks, Row
<1>3. \A c \in DOMAIN certs' : SerialRow(c)'
  BY <1>2 DEF SerialRow, SerialInv, SerialAstray
<1>4. \A v \in versions' : SerialVersion(v)'
  BY <1>2 DEF SerialVersion, SerialInv, SerialAstray
<1> QED BY <1>1, <1>3, <1>4 DEF SerialInv

-----------------------------------------------------------------------------
\* A leaf that a process is about to store is held by no imported certificate,
\* except by the one it updates, unless another process is about to store it.
Fresh(q) ==
  pc[q] \in Storing /\ reg[q].m \notin doubled
  => \A d \in DOMAIN certs :
       certs[d].imported /\ reg[q].m \in Held(d) => pc[q] = "update_replace" /\ d = reg[q].id

\* Two processes that are about to store the same leaf.
Twice(p, q) == p # q /\ pc[p] \in Storing /\ pc[q] \in Storing /\ reg[p].m = reg[q].m

\* The fingerprint of what an imported certificate holds is recorded.
Printed ==
  /\ \A c \in DOMAIN certs : certs[c].imported => certs[c].fp
  /\ \A v \in versions : certs[v.cert].imported => v.fp

ImportInv ==
  /\ \A q \in Procs : Fresh(q)
  /\ \A p, q \in Procs : Twice(p, q) => reg[p].m \in doubled
  /\ Printed
  /\ ImportedLeavesDistinct

LEMMA PrintedStep ==
  ASSUME Inv, Printed, NEW p \in Procs, Shape(p)
  PROVE  Printed'
<1>1. \A v \in versions : v.cert \in DOMAIN certs
  BY DEF Inv, TableInv, HistoryBelowCurrent
<1>2. CASE Quiet
  BY <1>2 DEF Quiet, Printed
<1>3. CASE Column(p)
  BY <1>1, <1>3 DEF Column, Printed
<1>4. CASE Deleted(reg[p].id)
  BY <1>1, <1>4 DEF Deleted, Printed
<1>5. ASSUME NEW c \in CertIds, NEW n \in Row, Makes(p, c, n)
      PROVE  Printed'
  BY <1>1, <1>5 DEF Makes, Inserted, Printed
<1>6. ASSUME NEW c \in DOMAIN certs, Rewrites(p, c)
      PROVE  Printed'
  <2> DEFINE s == Superseded(c)
  <2>1. s.cert = c /\ s.fp = certs[c].fp
    BY DEF Superseded
  <2>2. /\ versions' = versions \cup {s} /\ certs'[c].fp
        /\ \A d \in DOMAIN certs : certs'[d].imported = certs[d].imported
        /\ \A d \in DOMAIN certs : d # c => certs'[d] = certs[d]
        /\ DOMAIN certs' = DOMAIN certs
    BY <1>6 DEF Rewrites, Replaced
  <2> HIDE DEF s
  <2> QED BY <1>1, <2>1, <2>2 DEF Printed
<1> QED BY <1>2, <1>3, <1>4, <1>5, <1>6 DEF Shape

\* What is looked up by fingerprint.
LEMMA HoldersFound ==
  ASSUME Inv, Printed, NEW d \in DOMAIN certs, certs[d].imported, NEW m \in Held(d)
  PROVE  d \in HoldersOf(m)
BY DEF Held, HoldersOf, Printed

LEMMA TwiceStep ==
  ASSUME Inv, ImportInv, NEW p \in Procs, Step(p)
  PROVE  \A q, r \in Procs : Twice(q, r)' => reg'[q].m \in doubled'
<1>1. Others(p) /\ Past /\ Comes(p)
  BY StepOthers, StepPast, StepComes
<1>2. CASE pc'[p] \notin Storing
  BY <1>1, <1>2 DEF Others, Past, Twice, ImportInv
<1>3. CASE pc'[p] \in Storing
  <2>1. ImportCheck(p) \/ UpdateCheck(p)
    BY <1>1, <1>3 DEF Comes, Storing
  <2>2. pc[p] \notin Storing
    BY <2>1 DEF ImportCheck, UpdateCheck, Storing
  <2>3. reg'[p] = reg[p] /\ MarkStore(reg[p].m)
    <3>1. \/ Finish(p)
          \/ MarkStore(reg[p].m) /\ \E l \in Labels : Goto(p, l, reg[p])
      BY <2>1 DEF ImportCheck, UpdateCheck, Labels
    <3>2. ~Finish(p)
      BY <1>3, GotoActs DEF Finish, Acts, Storing
    <3> QED BY <3>1, <3>2, GotoActs DEF Acts
  <2>4. \A q \in Procs : q # p /\ pc[q] \in Storing /\ reg[q].m = reg[p].m => reg[p].m \in doubled'
    BY <2>3 DEF MarkStore
  <2>5. ASSUME NEW q \in Procs, NEW r \in Procs, Twice(q, r)'
        PROVE  reg'[q].m \in doubled'
    <3>1. CASE q = p
      BY <1>1, <2>3, <2>4, <2>5, <3>1 DEF Twice, Others
    <3>2. CASE r = p
      BY <1>1, <2>3, <2>4, <2>5, <3>2 DEF Twice, Others
    <3>3. CASE q # p /\ r # p
      BY <1>1, <2>5, <3>3 DEF Twice, Others, Past, ImportInv
    <3> QED BY <3>1, <3>2, <3>3
  <2> QED BY <2>5
<1> QED BY <1>2, <1>3

\* A step gives a new leaf to an imported certificate only when it stores it.
LEMMA ImportedHeld ==
  ASSUME Inv, NEW p \in Procs, Shape(p), NEW d \in DOMAIN certs', certs'[d].imported,
         NEW m \in Held(d)'
  PROVE  \/ d \in DOMAIN certs /\ certs[d].imported /\ m \in Held(d)
         \/ /\ pc[p] \in Storing /\ m = reg[p].m
            /\ \/ d \notin DOMAIN certs /\ pc[p] = "import_insert"
               \/ d \in DOMAIN certs /\ certs[d].imported /\ d = reg[p].id
                  /\ pc[p] = "update_replace"
<1>1. CASE Quiet \/ Column(p) \/ Deleted(reg[p].id)
  <2>1. d \in DOMAIN certs /\ m \in Held(d)
    BY <1>1, HeldKept
  <2> QED BY <1>1, <2>1 DEF Quiet, Column, Deleted
<1>2. ASSUME NEW c \in CertIds, NEW n \in Row, Makes(p, c, n), c # d
      PROVE  d \in DOMAIN certs /\ certs[d].imported /\ m \in Held(d)
  <2>1. d \in DOMAIN certs /\ certs'[d] = certs[d] /\ Held(d)' = Held(d)
    BY <1>2, HeldMade DEF Makes, Inserted
  <2> QED BY <2>1
<1>3. ASSUME NEW c \in CertIds, NEW n \in Row, Makes(p, c, n), c = d
      PROVE  /\ pc[p] \in Storing /\ m = reg[p].m /\ d \notin DOMAIN certs
             /\ pc[p] = "import_insert"
  <2>1. Held(c)' = {reg[p].m} /\ c \notin DOMAIN certs
    BY <1>3, HeldMade DEF Makes, Inserted
  <2>2. pc[p] = "import_insert"
    BY <1>3 DEF Makes, Inserted
  <2>3. m \in Held(c)'
    BY <1>3 DEF Held
  <2> QED BY <1>3, <2>1, <2>2, <2>3 DEF Storing
<1>4. ASSUME NEW c \in DOMAIN certs, Rewrites(p, c), c # d \/ m \in Held(d)
      PROVE  d \in DOMAIN certs /\ certs[d].imported /\ m \in Held(d)
  <2>1. d \in DOMAIN certs /\ certs'[d].imported = certs[d].imported
    BY <1>4 DEF Rewrites, Replaced
  <2> QED BY <1>4, <2>1, HeldRewritten
<1>5. ASSUME NEW c \in DOMAIN certs, Rewrites(p, c), c = d, m \notin Held(d)
      PROVE  /\ pc[p] \in Storing /\ m = reg[p].m
             /\ d \in DOMAIN certs /\ certs[d].imported /\ d = reg[p].id
             /\ pc[p] = "update_replace"
  <2>1. /\ pc[p] = "update_replace" /\ certs[d].imported /\ d = reg[p].id
    BY <1>5 DEF Rewrites, Replaced
  <2>2. Held(c)' = Held(c) \cup {reg[p].m}
    BY <1>5, HeldRewritten
  <2>3. m \in Held(c)' /\ m \notin Held(c)
    BY <1>5 DEF Held
  <2> QED BY <1>5, <2>1, <2>2, <2>3 DEF Storing
<1> QED BY <1>1, <1>2, <1>3, <1>4, <1>5 DEF Shape

LEMMA FreshStep ==
  ASSUME Inv, ImportInv, NEW p \in Procs, Step(p), NEW q \in Procs
  PROVE  Fresh(q)'
<1>1. Shape(p) /\ Others(p) /\ Past /\ Comes(p)
  BY StepShape, StepOthers, StepPast, StepComes
<1>2. SUFFICES ASSUME pc'[q] \in Storing, reg'[q].m \notin doubled',
                      NEW d \in DOMAIN certs', certs'[d].imported, NEW m \in Held(d)',
                      m = reg'[q].m
               PROVE  pc'[q] = "update_replace" /\ d = reg'[q].id
  BY DEF Fresh
<1>3. CASE q # p
  <2>1. pc'[q] = pc[q] /\ reg'[q] = reg[q] /\ m \notin doubled
    BY <1>1, <1>2, <1>3 DEF Others, Past
  <2>2. ~(pc[p] \in Storing /\ m = reg[p].m)
    BY <1>2, <1>3, <2>1 DEF ImportInv, Twice
  <2>3. d \in DOMAIN certs /\ certs[d].imported /\ m \in Held(d)
    BY <1>1, <1>2, <2>2, ImportedHeld
  <2> QED BY <1>2, <2>1, <2>3 DEF ImportInv, Fresh
<1>4. CASE q = p
  <2>1. (ImportCheck(p) /\ pc'[p] = "import_insert") \/ (UpdateCheck(p) /\ pc'[p] = "update_replace")
    BY <1>1, <1>2, <1>4 DEF Comes, Storing
  <2>2. ~Finish(p)
    BY <2>1, GotoActs DEF Finish, Acts
  <2>3. /\ UNCHANGED <<certs, versions>>
        /\ reg'[p] = reg[p]
        /\ \/ pc'[p] = "import_insert" /\ HoldersOf(reg[p].m) = {}
           \/ pc'[p] = "update_replace" /\ HoldersOf(reg[p].m) \subseteq {reg[p].id}
    <3>1. CASE ImportCheck(p) /\ pc'[p] = "import_insert"
      <4>1. Goto(p, "import_insert", reg[p]) /\ HoldersOf(reg[p].m) = {}
            /\ UNCHANGED <<certs, versions>>
        BY <2>2, <3>1 DEF ImportCheck
      <4> QED BY <3>1, <4>1, GotoActs DEF Acts
    <3>2. CASE UpdateCheck(p) /\ pc'[p] = "update_replace"
      <4>1. Goto(p, "update_replace", reg[p]) /\ HoldersOf(reg[p].m) \subseteq {reg[p].id}
            /\ UNCHANGED <<certs, versions>>
        BY <2>2, <3>2 DEF UpdateCheck
      <4> QED BY <3>2, <4>1, GotoActs DEF Acts
    <3> QED BY <2>1, <3>1, <3>2
  <2>4. d \in DOMAIN certs /\ certs[d].imported /\ m \in Held(d)
    BY <1>2, <2>3 DEF Held
  <2>5. d \in HoldersOf(reg[p].m)
    BY <1>2, <1>4, <2>3, <2>4, HoldersFound DEF ImportInv
  <2> QED BY <1>4, <2>3, <2>5
<1> QED BY <1>3, <1>4

LEMMA DistinctStep ==
  ASSUME Inv, ImportInv, NEW p \in Procs, Step(p)
  PROVE  ImportedLeavesDistinct'
<1>1. Shape(p) /\ Past
  BY StepShape, StepPast
<1> SUFFICES ASSUME NEW c \in DOMAIN certs', NEW d \in DOMAIN certs', certs'[c].imported,
                    certs'[d].imported, c # d, NEW m \in Held(c)', m \in Held(d)'
             PROVE  m \in doubled'
  BY DEF ImportedLeavesDistinct
<1>2. CASE m \in doubled
  BY <1>1, <1>2 DEF Past
<1>3. CASE m \notin doubled
  <2> DEFINE Old(e) == e \in DOMAIN certs /\ certs[e].imported /\ m \in Held(e)
             New(e) == /\ pc[p] \in Storing /\ m = reg[p].m
                       /\ \/ e \notin DOMAIN certs /\ pc[p] = "import_insert"
                          \/ /\ e \in DOMAIN certs /\ certs[e].imported /\ e = reg[p].id
                             /\ pc[p] = "update_replace"
  <2>1. (Old(c) \/ New(c)) /\ (Old(d) \/ New(d))
    BY <1>1, ImportedHeld
  <2>2. ~(Old(c) /\ Old(d))
    BY <1>3 DEF ImportInv, ImportedLeavesDistinct
  <2>3. \A e, f : New(e) /\ Old(f) => e = f
    BY <1>3 DEF ImportInv, Fresh
  <2>4. New(c) /\ New(d) => c = d
    <3> SUFFICES ASSUME New(c), New(d) PROVE c = d
      OBVIOUS
    <3>1. CASE pc[p] = "update_replace"
      BY <3>1
    <3>2. CASE pc[p] = "import_insert"
      <4>1. PICK e \in CertIds, n \in Row : Makes(p, e, n)
        BY <1>1, <3>2 DEF Shape, Quiet, Column, Rewrites, Deleted
      <4> QED BY <3>2, <4>1 DEF Makes, Inserted
    <3> QED BY <3>1, <3>2
  <2> QED BY <2>1, <2>2, <2>3, <2>4
<1> QED BY <1>2, <1>3

LEMMA ImportStep ==
  ASSUME Inv, ImportInv, NEW p \in Procs, Step(p)
  PROVE  ImportInv'
<1>1. \A q \in Procs : Fresh(q)'
  BY FreshStep
<1>2. Printed'
  BY StepShape, PrintedStep DEF ImportInv
<1>3. ImportedLeavesDistinct'
  BY DistinctStep
<1>4. \A q, r \in Procs : Twice(q, r)' => reg'[q].m \in doubled'
  BY TwiceStep
<1> QED BY <1>1, <1>2, <1>3, <1>4 DEF ImportInv

LEMMA ImportRestart ==
  ASSUME Inv, ImportInv, Restart
  PROVE  ImportInv'
<1>1. (\A q \in Procs : Fresh(q)') /\ (\A p, q \in Procs : ~Twice(p, q)')
  BY DEF Restart, Fresh, Twice, Storing
<1>2. /\ DOMAIN certs' = DOMAIN certs /\ versions' = versions /\ doubled' = doubled
      /\ \A c \in DOMAIN certs : /\ certs'[c].data = certs[c].data /\ certs'[c].fp
                                 /\ certs'[c].imported = certs[c].imported
  <2>1. \A c \in DOMAIN certs : certs[c] \in Row
    BY DEF Inv, TableInv, TableTypeOK
  <2> QED BY <2>1 DEF Restart, Backfill, marks, Row
<1>3. \A c \in DOMAIN certs : Held(c)' = Held(c)
  BY <1>2 DEF Held
<1>4. \A v \in versions : v.cert \in DOMAIN certs
  BY DEF Inv, TableInv, HistoryBelowCurrent
<1>5. Printed'
  BY <1>2, <1>4 DEF Printed, ImportInv
<1>6. ImportedLeavesDistinct'
  BY <1>2, <1>3 DEF ImportedLeavesDistinct, ImportInv
<1> QED BY <1>1, <1>5, <1>6 DEF ImportInv

-----------------------------------------------------------------------------
\* An internal row may renew itself only under an internal CA.
NotArmed(r) == r.renew = "renew" /\ ~r.imported => r.ca # Null

\* What a process brings, and the row the watcher is about to renew.
Sourced(q) ==
  /\ pc[q] = "create_insert" => issued[reg[q].m].origin = "internal"
  /\ pc[q] = "acme_insert" => reg[q].renew = "notify"
  /\ pc[q] = "renew_replace" =>
       /\ issued[reg[q].m].origin = "internal"
       /\ reg[q].id \in DOMAIN certs /\ ~RenewalAstray(reg[q].id) =>
            certs[reg[q].id].imported \/ certs[reg[q].id].ca # Null

\* The watcher's copy of a row, compared with the row.
Copied(c) ==
  /\ NotArmed(todo[c])
  /\ c \in DOMAIN certs /\ ~RenewalAstray(c) =>
       /\ certs[c].imported = todo[c].imported
       /\ todo[c].ca # Null => certs[c].ca # Null

PublicInv ==
  /\ \A q \in Procs : Sourced(q)
  /\ \A c \in DOMAIN todo : Copied(c)
  /\ \A c \in DOMAIN certs : NotArmed(certs[c])
  /\ PublicMaterialKept

LEMMA ArmedStep ==
  ASSUME Inv, PublicInv, NEW p \in Procs, Step(p), NEW c \in DOMAIN certs'
  PROVE  NotArmed(certs'[c])
<1>1. Shape(p) /\ (\A d \in DOMAIN certs : NotArmed(certs[d]))
  BY StepShape DEF PublicInv
<1>2. CASE Quiet \/ Column(p) \/ Deleted(reg[p].id)
  BY <1>1, <1>2 DEF Quiet, Column, Deleted, NotArmed
<1>3. ASSUME NEW d \in CertIds, NEW n \in Row, Makes(p, d, n)
      PROVE  NotArmed(certs'[c])
  <2>1. CASE c = d
    <3>1. certs'[c] = n
      BY <1>3, <2>1 DEF Makes, Inserted
    <3>2. CASE pc[p] = "acme_insert"
      BY <1>3, <3>1, <3>2 DEF Makes, NotArmed, PublicInv, Sourced
    <3>3. CASE pc[p] # "acme_insert"
      <4>1. pc[p] \in HasMaterial
        BY <1>3 DEF Makes, HasMaterial
      <4>2. issued[reg[p].m].ca \in CAs
        BY <4>1 DEF Inv, RegInv, TableInv, IssuedType, Attributes
      <4>3. n.ca # Null
        BY <1>3, <3>3, <4>2, TableAssumption DEF Makes
      <4> QED BY <3>1, <4>3 DEF NotArmed
    <3> QED BY <3>2, <3>3
  <2>2. CASE c # d
    BY <1>1, <1>3, <2>2 DEF Makes, Inserted
  <2> QED BY <2>1, <2>2
<1>4. ASSUME NEW d \in DOMAIN certs, Rewrites(p, d)
      PROVE  NotArmed(certs'[c])
  <2>1. c \in DOMAIN certs /\ (c # d => certs'[c] = certs[c])
    BY <1>4 DEF Rewrites, Replaced
  <2>2. CASE c = d
    BY <1>1, <1>4, <2>2 DEF Rewrites, Replaced, NotArmed
  <2> QED BY <1>1, <2>1, <2>2
<1> QED BY <1>1, <1>2, <1>3, <1>4 DEF Shape

\* What WatchScan and the steps of the watcher do to its copies.
LEMMA StepTodo ==
  ASSUME Inv, NEW p \in Procs, Step(p)
  PROVE  \/ WatchScan
         \/ DOMAIN todo' \subseteq DOMAIN todo /\ \A c \in DOMAIN todo' : todo'[c] = todo[c]
<1>1. CASE p \in Clients /\ Handler(p)
  BY <1>1 DEF Handler, CreateBegin, CreateInsert, RecordSerial, ImportBegin, ImportCheck,
         ImportInsert, UpdateBegin, UpdateCheck, UpdateReplace, AcmeIssue, AcmeInsert, AcmeOrder,
         AcmeRenew, AcmeReread, AcmeReplace, DeleteProvider, RevokeBegin, RevokeWrite, DeleteBegin,
         DeleteWrite, PurgeBegin, PurgeWrite
<1>2. CASE p = Watcher /\ Watch
  <2>1. UNCHANGED todo \/ WatchScan \/ \E c \in CertIds : Handled(c)
    BY <1>2 DEF Watch, WatchDone, WatchSkip, WatchRenew, WatchNotify,
                WatchRenewReplace, WatchNotifyReset
  <2> QED BY <2>1 DEF Handled
<1> QED BY <1>1, <1>2 DEF Step

\* The copy of a row stands for it until the row is marked.
LEMMA ScanRemembered ==
  ASSUME NEW p, NEW c \in DOMAIN todo
  PROVE  "scan" \in Remembering(p, c)
BY DEF Remembering

LEMMA ScannedCopies ==
  ASSUME Inv, WatchScan, NEW c \in DOMAIN todo'
  PROVE  /\ c \in DOMAIN certs /\ c \in DOMAIN certs'
         /\ todo'[c] = certs[c] /\ certs' = certs
         /\ reused' = reused /\ overtaken' = overtaken
BY DEF WatchScan, marks

LEMMA CopiedStep ==
  ASSUME Inv, MarksType, PublicInv, NEW p \in Procs, Step(p), NEW c \in DOMAIN todo'
  PROVE  Copied(c)'
<1>1. Frame(p)
  BY StepShape, StepFrame
<1>2. CASE WatchScan
  BY <1>2, ScannedCopies DEF PublicInv, Copied
<1>3. CASE c \in DOMAIN todo /\ todo'[c] = todo[c]
  <2>1. Copied(c)
    BY <1>3 DEF PublicInv
  <2> SUFFICES ASSUME c \in DOMAIN certs', ~RenewalAstray(c)'
               PROVE  /\ certs'[c].imported = todo[c].imported
                      /\ todo[c].ca # Null => certs'[c].ca # Null
    BY <1>3, <2>1 DEF Copied
  <2>2. reused'[c] # Remembering(p, c)
    BY <1>3, ScanRemembered DEF RenewalAstray
  <2>3. /\ c \in DOMAIN certs /\ reused'[c] = reused[c]
        /\ certs'[c].imported = certs[c].imported
        /\ certs[c].ca # Null => certs'[c].ca # Null
    BY <1>1, <2>2 DEF Frame
  <2> QED BY <2>1, <2>3 DEF Copied, RenewalAstray
<1> QED BY <1>2, <1>3, StepTodo

LEMMA SourcedStep ==
  ASSUME Inv, MarksType, PublicInv, NEW p \in Procs, Step(p), NEW q \in Procs
  PROVE  Sourced(q)'
<1>1. Frame(p) /\ Others(p) /\ Past /\ Comes(p)
  BY StepShape, StepFrame, StepOthers, StepPast, StepComes
<1>2. CASE q # p
  <2>1. pc'[q] = pc[q] /\ reg'[q] = reg[q]
    BY <1>1, <1>2 DEF Others
  <2>2. pc[q] \in HasMaterial => issued'[reg[q].m] = issued[reg[q].m]
    BY <1>1 DEF Past, Inv, RegInv
  <2>3. Sourced(q)
    BY DEF PublicInv
  <2>4. ASSUME pc[q] = "renew_replace", NEW c \in DOMAIN certs', c = reg[q].id, ~RenewalAstray(c)'
        PROVE  certs'[c].imported \/ certs'[c].ca # Null
    <3>1. reused'[c] # Remembering(p, c)
      BY <1>2, <2>4, Remembered DEF RenewalAstray
    <3>2. /\ c \in DOMAIN certs /\ reused'[c] = reused[c]
          /\ certs'[c].imported = certs[c].imported
          /\ certs[c].ca # Null => certs'[c].ca # Null
      BY <1>1, <2>4, <3>1 DEF Frame
    <3> QED BY <2>3, <2>4, <3>2 DEF Sourced, RenewalAstray
  <2> QED BY <2>1, <2>2, <2>3, <2>4 DEF Sourced, HasMaterial, RenewalAstray
<1>3. CASE q = p
  <2>1. CASE pc'[p] = "create_insert"
    <3>1. CreateBegin(p)
      BY <1>1, <2>1 DEF Comes
    <3>2. PICK m \in Materials, a \in Attributes, rn \in Choices :
            /\ a.origin = "internal" /\ Mint(m, a)
            /\ Goto(p, "create_insert", [NoReg EXCEPT !.m = m, !.renew = rn])
      BY <3>1 DEF CreateBegin
    <3>3. reg'[p] = [NoReg EXCEPT !.m = m, !.renew = rn]
      BY <3>2, GotoActs DEF Acts
    <3>4. reg'[p].m = m /\ issued'[m] = a
      BY <3>2, <3>3, MintFacts DEF NoReg, Inv, TableInv
    <3> QED BY <1>3, <2>1, <3>2, <3>4 DEF Sourced
  <2>2. CASE pc'[p] = "acme_insert"
    <3>1. AcmeIssue(p)
      BY <1>1, <2>2 DEF Comes
    <3>2. PICK m \in Materials :
            Goto(p, "acme_insert", [NoReg EXCEPT !.m = m, !.renew = "notify"])
      BY <3>1 DEF AcmeIssue
    <3>3. reg'[p] = [NoReg EXCEPT !.m = m, !.renew = "notify"]
      BY <3>2, GotoActs DEF Acts
    <3>4. reg'[p].renew = "notify"
      BY <3>3 DEF NoReg
    <3> QED BY <1>3, <2>2, <3>4 DEF Sourced
  <2>3. CASE pc'[p] = "renew_replace"
    <3>1. PICK c \in CertIds : WatchRenew(c)
      BY <1>1, <2>3 DEF Comes
    <3>2. p = Watcher
      BY <1>1, <2>3 DEF Comes
    <3>3. PICK m \in Materials, a \in Attributes :
            /\ a.origin = "internal" /\ Mint(m, a)
            /\ Goto(p, "renew_replace", [NoReg EXCEPT !.id = c, !.m = m])
      BY <3>1, <3>2 DEF WatchRenew
    <3>4. reg'[p] = [NoReg EXCEPT !.id = c, !.m = m]
      BY <3>3, GotoActs DEF Acts
    <3>5. reg'[p].id = c /\ reg'[p].m = m /\ issued'[m] = a
      BY <3>3, <3>4, MintFacts DEF NoReg, Inv, TableInv
    <3>6. c \in DOMAIN todo /\ RenewsItself(todo[c]) /\ certs' = certs /\ reused' = reused
      BY <3>1 DEF WatchRenew, marks
    <3>7. c \in DOMAIN certs /\ ~RenewalAstray(c) => certs[c].imported \/ certs[c].ca # Null
      BY <3>6 DEF PublicInv, Copied, NotArmed, RenewsItself
    <3> QED BY <1>3, <2>3, <3>3, <3>5, <3>6, <3>7 DEF Sourced, RenewalAstray
  <2> QED BY <1>3, <2>1, <2>2, <2>3 DEF Sourced
<1> QED BY <1>2, <1>3

LEMMA PublicRows ==
  ASSUME Inv, MarksType, PublicInv, NEW p \in Procs, Step(p)
  PROVE  PublicMaterialKept'
<1>1. Shape(p) /\ Past
  BY StepShape, StepPast
<1> DEFINE Source(ca) == IF ca = Null THEN "acme" ELSE "internal"
<1> SUFFICES ASSUME NEW c \in DOMAIN certs', ~certs'[c].imported, ~RenewalAstray(c)',
                    NEW m \in Held(c)'
             PROVE  issued'[m].origin = Source(certs'[c].ca)
  BY DEF PublicMaterialKept
<1>2. \A d \in DOMAIN certs : Held(d) \subseteq DOMAIN issued
  BY DEF Held, Inv, TableInv, Known
<1>3. ASSUME c \in DOMAIN certs, reused'[c] = reused[c], m \in Held(c),
             certs'[c].ca = Null <=> certs[c].ca = Null, certs'[c].imported = certs[c].imported
      PROVE  issued'[m].origin = Source(certs'[c].ca)
  <2>1. issued'[m] = issued[m]
    BY <1>1, <1>2, <1>3 DEF Past
  <2> QED BY <1>3, <2>1 DEF PublicInv, PublicMaterialKept, RenewalAstray
<1>4. CASE Quiet \/ Column(p) \/ Deleted(reg[p].id)
  BY <1>3, <1>4, HeldKept DEF Quiet, Column, Deleted
<1>5. ASSUME NEW d \in CertIds, NEW n \in Row, Makes(p, d, n)
      PROVE  issued'[m].origin = Source(certs'[c].ca)
  <2>1. CASE c = d
    <3>1. Held(d)' = {reg[p].m} /\ certs'[d] = n /\ issued' = issued
      BY <1>5, HeldMade DEF Makes, Inserted
    <3>2. m = reg[p].m /\ certs'[c] = n
      BY <2>1, <3>1 DEF Held
    <3>3. CASE pc[p] = "acme_insert"
      BY <1>5, <3>1, <3>2, <3>3 DEF Makes, Inv, RegInv, HasAcme
    <3>4. CASE pc[p] = "create_insert"
      <4>1. issued[reg[p].m].ca \in CAs
        BY <3>4 DEF HasMaterial, Inv, RegInv, TableInv, IssuedType, Attributes
      <4> QED BY <1>5, <3>1, <3>2, <3>4, <4>1, TableAssumption DEF Makes, PublicInv, Sourced
    <3>5. pc[p] # "import_insert"
      BY <1>5, <3>2 DEF Makes
    <3> QED BY <1>5, <3>3, <3>4, <3>5 DEF Makes
  <2>2. CASE c # d
    <3>1. c \in DOMAIN certs /\ reused'[c] = reused[c] /\ c \in CertIds
      BY <1>5, <2>2 DEF Makes, Inserted, MarksType, Inv, TableInv, TableTypeOK
    <3> QED BY <1>3, <1>5, <3>1, HeldMade
  <2> QED BY <2>1, <2>2
<1>6. ASSUME NEW d \in DOMAIN certs, Rewrites(p, d)
      PROVE  issued'[m].origin = Source(certs'[c].ca)
  <2>1. /\ c \in DOMAIN certs /\ reused' = reused /\ issued' = issued
        /\ certs'[d].imported = certs[d].imported
    BY <1>6 DEF Rewrites, Replaced
  <2>2. CASE c # d
    BY <1>3, <1>6, <2>1, <2>2, HeldRewritten
  <2>3. CASE c = d /\ pc[p] = "acme_replace"
    <3>1. certs[c].ca = Null /\ certs'[c].ca = Null
      BY <1>6, <2>3 DEF Rewrites
    <3>2. CASE m = reg[p].m
      BY <2>1, <2>3, <3>1, <3>2 DEF Inv, RegInv, HasAcme
    <3>3. CASE m \in Held(c)
      BY <1>3, <2>1, <2>3, <3>1, <3>3
    <3>4. m \in Held(d)' /\ Held(d)' = Held(d) \cup {reg[p].m}
      BY <1>6, <2>3, HeldRewritten DEF Held
    <3> QED BY <2>3, <3>2, <3>3, <3>4
  <2>4. CASE c = d /\ pc[p] = "renew_replace"
    <3>1. certs'[c].ca # Null /\ c = reg[p].id
      BY <1>6, <2>4 DEF Rewrites
    <3>2. ~certs[c].imported /\ ~RenewalAstray(c)
      BY <2>1, <2>4 DEF RenewalAstray
    <3>3. certs[c].ca # Null /\ issued[reg[p].m].origin = "internal"
      BY <2>1, <2>4, <3>1, <3>2 DEF PublicInv, Sourced
    <3>4. CASE m = reg[p].m
      BY <2>1, <3>1, <3>3, <3>4
    <3>5. CASE m \in Held(c)
      BY <1>3, <2>1, <2>4, <3>1, <3>3, <3>5
    <3>6. m \in Held(d)' /\ Held(d)' = Held(d) \cup {reg[p].m}
      BY <1>6, <2>4, HeldRewritten DEF Held
    <3> QED BY <2>4, <3>4, <3>5, <3>6
  <2>5. c = d => pc[p] # "update_replace"
    BY <1>6, <2>1 DEF Rewrites
  <2> QED BY <1>6, <2>2, <2>3, <2>4, <2>5 DEF Rewrites
<1> QED BY <1>1, <1>4, <1>5, <1>6 DEF Shape

LEMMA PublicStep ==
  ASSUME Inv, MarksType, PublicInv, NEW p \in Procs, Step(p)
  PROVE  PublicInv'
<1>1. \A q \in Procs : Sourced(q)'
  BY SourcedStep
<1>2. \A c \in DOMAIN todo' : Copied(c)'
  BY CopiedStep
<1>3. \A c \in DOMAIN certs' : NotArmed(certs'[c])
  BY ArmedStep
<1>4. PublicMaterialKept'
  BY PublicRows
<1> QED BY <1>1, <1>2, <1>3, <1>4 DEF PublicInv

LEMMA PublicRestart ==
  ASSUME Inv, PublicInv, Restart
  PROVE  PublicInv'
<1>1. (\A q \in Procs : Sourced(q)') /\ (\A c \in DOMAIN todo' : Copied(c)')
  BY DEF Restart, Sourced, Empty
<1>2. /\ DOMAIN certs' = DOMAIN certs /\ versions' = versions /\ issued' = issued /\ reused' = reused
      /\ \A c \in DOMAIN certs : /\ certs'[c].data = certs[c].data
                                 /\ certs'[c].ca = certs[c].ca
                                 /\ certs'[c].renew = certs[c].renew
                                 /\ certs'[c].imported = certs[c].imported
  <2>1. \A c \in DOMAIN certs : certs[c] \in Row
    BY DEF Inv, TableInv, TableTypeOK
  <2> QED BY <2>1 DEF Restart, Backfill, marks, Row
<1>3. \A c \in DOMAIN certs : Held(c)' = Held(c)
  BY <1>2 DEF Held
<1>4. \A c \in DOMAIN certs' : NotArmed(certs'[c])
  BY <1>2 DEF PublicInv, NotArmed
<1>5. PublicMaterialKept'
  BY <1>2, <1>3 DEF PublicMaterialKept, PublicInv, RenewalAstray
<1> QED BY <1>1, <1>4, <1>5 DEF PublicInv

-----------------------------------------------------------------------------
\* What a process knows of notices: `none' was asked for the content it brings,
\* the row the watcher renews is not mute, the one it is about to mute was the
\* subject of a mail.
Bringing == {"create_insert", "import_check", "import_insert", "update_check", "update_replace"}

Told(q) ==
  /\ pc[q] \in {"renew_replace", "notify_reset"} => q = Watcher
  /\ pc[q] \in Bringing /\ reg[q].renew = "none" => reg[q].m \in silent
  /\ pc[q] = "renew_replace" /\ reg[q].id \in DOMAIN certs /\ ~NoticeAstray(reg[q].id)
       => certs[reg[q].id].imported \/ certs[reg[q].id].renew = "renew"
  /\ pc[q] = "notify_reset" =>
       /\ reg[q].id \notin DOMAIN todo
       /\ reg[q].id \in DOMAIN certs /\ ~NoticeAstray(reg[q].id) => certs[reg[q].id].data \in silent

\* The watcher's copy of a row, compared with the row.
Current(c) ==
  c \in DOMAIN certs /\ ~NoticeAstray(c) =>
    certs[c].renew = todo[c].renew /\ certs[c].data = todo[c].data

NoticeInv ==
  /\ \A q \in Procs : Told(q)
  /\ \A c \in DOMAIN todo : Current(c)
  /\ NoLostNotice

LEMMA AstrayGrows ==
  ASSUME NEW c, reused'[c] = reused[c], overtaken[c] \subseteq overtaken'[c]
  PROVE  NoticeAstray(c) => NoticeAstray(c)'
BY DEF NoticeAstray, RenewalAstray

LEMMA CurrentStep ==
  ASSUME Inv, MarksType, NoticeInv, NEW p \in Procs, Step(p), NEW c \in DOMAIN todo'
  PROVE  Current(c)'
<1>1. Frame(p)
  BY StepShape, StepFrame
<1>2. CASE WatchScan
  BY <1>2, ScannedCopies DEF Current
<1>3. CASE c \in DOMAIN todo /\ todo'[c] = todo[c]
  <2> SUFFICES ASSUME c \in DOMAIN certs', ~NoticeAstray(c)'
               PROVE  certs'[c].renew = todo[c].renew /\ certs'[c].data = todo[c].data
    BY <1>3 DEF Current
  <2>1. "scan" \in Remembering(p, c)
    BY <1>3, ScanRemembered
  <2>2. reused'[c] # Remembering(p, c) /\ ~(Remembering(p, c) \subseteq overtaken'[c])
    BY <2>1 DEF NoticeAstray, RenewalAstray
  <2>3. ~(p = Watcher /\ pc[p] = "notify_reset" /\ c = reg[p].id)
    BY <1>3 DEF NoticeInv, Told
  <2>4. /\ c \in DOMAIN certs /\ reused'[c] = reused[c] /\ overtaken[c] \subseteq overtaken'[c]
        /\ certs'[c].data = certs[c].data /\ certs'[c].renew = certs[c].renew
    BY <1>1, <2>2, <2>3 DEF Frame
  <2>5. ~NoticeAstray(c)
    BY <2>4, AstrayGrows
  <2> QED BY <1>3, <2>4, <2>5 DEF NoticeInv, Current
<1> QED BY <1>2, <1>3, StepTodo

LEMMA ToldOthers ==
  ASSUME Inv, MarksType, NoticeInv, NEW p \in Procs, Step(p), NEW q \in Procs, q # p
  PROVE  Told(q)'
<1>1. Frame(p) /\ Others(p) /\ Past
  BY StepShape, StepFrame, StepOthers, StepPast
<1>2. pc'[q] = pc[q] /\ reg'[q] = reg[q] /\ Told(q) /\ silent \subseteq silent'
  BY <1>1 DEF Others, NoticeInv, Past
<1>3. ASSUME NEW c \in DOMAIN certs', c = reg[q].id, ~NoticeAstray(c)',
             pc[q] = "renew_replace" \/ pc[q] = "notify_reset"
      PROVE  /\ c \in DOMAIN certs /\ ~NoticeAstray(c)
             /\ certs'[c].imported = certs[c].imported
             /\ certs'[c].renew = certs[c].renew \/ certs[c].imported \/ p = Watcher
             /\ pc[q] = "notify_reset" => certs'[c].data = certs[c].data
  <2>1. pc[q] \in Remembering(p, c)
    BY <1>3, Remembered
  <2>2. /\ reused'[c] # Remembering(p, c)
        /\ pc[q] = "notify_reset" => ~(Remembering(p, c) \subseteq overtaken'[c])
    BY <1>3, <2>1 DEF NoticeAstray, RenewalAstray
  <2>3. /\ c \in DOMAIN certs /\ reused'[c] = reused[c] /\ overtaken[c] \subseteq overtaken'[c]
        /\ certs'[c].imported = certs[c].imported
        /\ certs'[c].renew = certs[c].renew \/ certs[c].imported \/ p = Watcher
        /\ pc[q] = "notify_reset" => certs'[c].data = certs[c].data
    BY <1>1, <1>3, <2>2 DEF Frame
  <2>4. ~NoticeAstray(c)
    BY <1>3, <2>3, AstrayGrows
  <2> QED BY <2>3, <2>4
<1>4. pc[q] = "renew_replace" \/ pc[q] = "notify_reset" => p # Watcher /\ q = Watcher
  BY <1>2 DEF Told
<1>5. pc[q] = "notify_reset" => reg[q].id \notin DOMAIN todo'
  <2> SUFFICES ASSUME pc[q] = "notify_reset" PROVE reg[q].id \notin DOMAIN todo'
    OBVIOUS
  <2>1. ~WatchScan
    BY <1>4 DEF WatchScan, Starts
  <2> QED BY <1>2, <2>1, StepTodo DEF Told
<1>6. pc[q] \in Bringing /\ reg[q].renew = "none" => reg[q].m \in silent'
  BY <1>2 DEF Told
<1>7. ASSUME pc[q] = "renew_replace", NEW c \in DOMAIN certs', c = reg[q].id, ~NoticeAstray(c)'
      PROVE  certs'[c].imported \/ certs'[c].renew = "renew"
  BY <1>2, <1>3, <1>4, <1>7 DEF Told
<1>8. ASSUME pc[q] = "notify_reset", NEW c \in DOMAIN certs', c = reg[q].id, ~NoticeAstray(c)'
      PROVE  certs'[c].data \in silent'
  BY <1>2, <1>3, <1>8 DEF Told
<1>9. ASSUME pc[q] = "renew_replace", reg'[q].id \in DOMAIN certs', ~NoticeAstray(reg[q].id)'
      PROVE  certs'[reg'[q].id].imported \/ certs'[reg'[q].id].renew = "renew"
  <2>1. PICK c \in DOMAIN certs' : c = reg'[q].id
    BY <1>9
  <2>2. ~NoticeAstray(c)' /\ c = reg[q].id
    BY <1>2, <1>9, <2>1 DEF NoticeAstray, RenewalAstray
  <2> QED BY <1>7, <1>9, <2>1, <2>2
<1>10. ASSUME pc[q] = "notify_reset", reg'[q].id \in DOMAIN certs', ~NoticeAstray(reg[q].id)'
       PROVE  certs'[reg'[q].id].data \in silent'
  <2>1. PICK c \in DOMAIN certs' : c = reg'[q].id
    BY <1>10
  <2>2. ~NoticeAstray(c)' /\ c = reg[q].id
    BY <1>2, <1>10, <2>1 DEF NoticeAstray, RenewalAstray
  <2> QED BY <1>8, <1>10, <2>1, <2>2
<1> QED BY <1>2, <1>4, <1>5, <1>6, <1>9, <1>10 DEF Told

LEMMA ToldMover ==
  ASSUME Inv, MarksType, NoticeInv, NEW p \in Procs, Step(p)
  PROVE  Told(p)'
<1>1. Comes(p) /\ Told(p)
  BY StepComes DEF NoticeInv
<1>2. \A m, rn : Chosen(m, rn) /\ rn = "none" => m \in silent'
  BY DEF Chosen
<1>3. ASSUME pc'[p] \in Bringing, reg'[p].renew = "none"
      PROVE  reg'[p].m \in silent'
  <2>1. CASE pc'[p] \in {"create_insert", "import_check"}
    <3>1. CreateBegin(p) \/ ImportBegin(p)
      BY <1>1, <2>1 DEF Comes
    <3>2. PICK m \in Materials, rn \in Choices, l \in Labels :
            Goto(p, l, [NoReg EXCEPT !.m = m, !.renew = rn]) /\ Chosen(m, rn)
      BY <3>1 DEF CreateBegin, ImportBegin, Labels
    <3>3. reg'[p] = [NoReg EXCEPT !.m = m, !.renew = rn]
      BY <3>2, GotoActs DEF Acts
    <3>4. reg'[p].m = m /\ reg'[p].renew = rn
      BY <3>3 DEF NoReg
    <3> QED BY <1>2, <1>3, <3>2, <3>4
  <2>2. CASE pc'[p] = "update_check"
    <3>1. UpdateBegin(p)
      BY <1>1, <2>2 DEF Comes
    <3>2. PICK c \in DOMAIN certs, m \in Materials, sent \in Choices \cup {"unsent"} :
            /\ Goto(p, "update_check",
                    [NoReg EXCEPT !.id = c, !.m = m, !.renew = Rearmed(certs[c], sent)])
            /\ Chosen(m, sent)
      BY <3>1 DEF UpdateBegin
    <3>3. reg'[p] = [NoReg EXCEPT !.id = c, !.m = m, !.renew = Rearmed(certs[c], sent)]
      BY <3>2, GotoActs DEF Acts
    <3>4. reg'[p].m = m /\ reg'[p].renew = Rearmed(certs[c], sent)
      BY <3>3 DEF NoReg
    <3>5. Rearmed(certs[c], sent) = "none" => sent = "none"
      BY StoreAssumption DEF Rearmed, RenewMethods
    <3> QED BY <1>2, <1>3, <3>2, <3>4, <3>5
  <2>3. CASE pc'[p] \in {"import_insert", "update_replace"}
    <3>1. ImportCheck(p) \/ UpdateCheck(p)
      BY <1>1, <2>3 DEF Comes
    <3>2. Finish(p) \/ \E l \in Labels : Goto(p, l, reg[p])
      BY <3>1 DEF ImportCheck, UpdateCheck, Labels
    <3>3. ~Finish(p)
      BY <2>3, GotoActs DEF Finish, Acts
    <3>4. reg'[p] = reg[p] /\ silent' = silent /\ pc[p] \in Bringing
      BY <3>1, <3>2, <3>3, GotoActs DEF Acts, ImportCheck, UpdateCheck, Bringing
    <3> QED BY <1>1, <1>3, <3>4 DEF Told
  <2> QED BY <1>3, <2>1, <2>2, <2>3 DEF Bringing
<1>4. CASE pc'[p] = "renew_replace"
  <2>1. PICK c \in CertIds : p = Watcher /\ WatchRenew(c)
    BY <1>1, <1>4 DEF Comes
  <2>2. PICK m \in Materials : Goto(p, "renew_replace", [NoReg EXCEPT !.id = c, !.m = m])
    BY <2>1 DEF WatchRenew
  <2>3. reg'[p] = [NoReg EXCEPT !.id = c, !.m = m]
    BY <2>2, GotoActs DEF Acts
  <2>4. reg'[p].id = c
    BY <2>3 DEF NoReg
  <2>5. /\ c \in DOMAIN todo /\ RenewsItself(todo[c]) /\ certs' = certs
        /\ reused' = reused /\ overtaken' = overtaken
    BY <2>1 DEF WatchRenew, marks
  <2>6. c \in DOMAIN certs /\ ~NoticeAstray(c) => certs[c].renew = "renew"
    BY <2>5 DEF NoticeInv, Current, RenewsItself
  <2>7. Told(p)'
    BY <1>4, <2>1, <2>4, <2>5, <2>6 DEF Told, NoticeAstray, RenewalAstray, Bringing
  <2> QED BY <2>7
<1>5. CASE pc'[p] = "notify_reset"
  <2>1. PICK c \in CertIds : p = Watcher /\ WatchNotify(c)
    BY <1>1, <1>5 DEF Comes
  <2>2. reg'[p] = [NoReg EXCEPT !.id = c]
    BY <2>1, GotoActs DEF Acts, WatchNotify
  <2>3. reg'[p].id = c
    BY <2>2 DEF NoReg
  <2>4. /\ c \in DOMAIN todo /\ todo[c].data \in silent' /\ certs' = certs
        /\ reused' = reused /\ overtaken' = overtaken /\ c \notin DOMAIN todo'
    BY <2>1 DEF WatchNotify, marks, Handled
  <2>5. c \in DOMAIN certs /\ ~NoticeAstray(c) => certs[c].data \in silent'
    BY <2>4 DEF NoticeInv, Current
  <2>6. Told(p)'
    BY <1>5, <2>1, <2>3, <2>4, <2>5 DEF Told, NoticeAstray, RenewalAstray, Bringing
  <2> QED BY <2>6
<1> QED BY <1>3, <1>4, <1>5 DEF Told

LEMMA NoticeRows ==
  ASSUME Inv, MarksType, NoticeInv, NEW p \in Procs, Step(p)
  PROVE  NoLostNotice'
<1>1. Shape(p) /\ Frame(p) /\ Past /\ Told(p)
  BY StepShape, StepFrame, StepPast DEF NoticeInv
<1> SUFFICES ASSUME NEW c \in DOMAIN certs', certs'[c].renew = "none", certs'[c].ca # Null,
                    ~NoticeAstray(c)'
             PROVE  certs'[c].data \in silent'
  BY DEF NoLostNotice
<1>3. ASSUME c \in DOMAIN certs, ~NoticeAstray(c), certs'[c].renew = certs[c].renew,
             certs'[c].ca = certs[c].ca, certs'[c].data = certs[c].data
      PROVE  certs'[c].data \in silent'
  BY <1>1, <1>3 DEF NoticeInv, NoLostNotice, Past
<1>4. CASE Quiet \/ Deleted(reg[p].id)
  <2>1. c \in DOMAIN certs /\ certs'[c] = certs[c]
    BY <1>4 DEF Quiet, Deleted
  <2>2. ~NoticeAstray(c)
    BY <1>1, <2>1, AstrayGrows DEF Frame
  <2> QED BY <1>3, <2>1, <2>2
<1>5. CASE Column(p)
  <2>1. c \in DOMAIN certs /\ certs'[c].data = certs[c].data /\ certs'[c].ca = certs[c].ca
    BY <1>5 DEF Column
  <2>2. ~NoticeAstray(c)
    BY <1>1, <2>1, AstrayGrows DEF Frame
  <2>3. CASE certs'[c].renew = certs[c].renew
    BY <1>3, <2>1, <2>2, <2>3
  <2>4. CASE pc[p] = "notify_reset" /\ c = reg[p].id
    BY <1>1, <2>1, <2>2, <2>4 DEF Told, Past
  <2> QED BY <1>5, <2>1, <2>3, <2>4 DEF Column
<1>6. ASSUME NEW d \in CertIds, NEW n \in Row, Makes(p, d, n)
      PROVE  certs'[c].data \in silent'
  <2>1. CASE c = d
    <3>1. certs'[c] = n
      BY <1>6, <2>1 DEF Makes, Inserted
    <3>2. pc[p] \in Bringing /\ reg[p].renew = "none" /\ n.data = reg[p].m
      BY <1>6, <3>1 DEF Makes, Bringing
    <3> QED BY <1>1, <3>1, <3>2 DEF Told, Past
  <2>2. CASE c # d
    <3>1. c \in DOMAIN certs /\ certs'[c] = certs[c]
      BY <1>6, <2>2 DEF Makes, Inserted
    <3>2. ~NoticeAstray(c)
      BY <1>1, <3>1, AstrayGrows DEF Frame
    <3> QED BY <1>3, <3>1, <3>2
  <2> QED BY <2>1, <2>2
<1>7. ASSUME NEW d \in DOMAIN certs, Rewrites(p, d)
      PROVE  certs'[c].data \in silent'
  <2>1. c \in DOMAIN certs
    BY <1>7 DEF Rewrites, Replaced
  <2>2. ~NoticeAstray(c)
    BY <1>1, <2>1, AstrayGrows DEF Frame
  <2>3. CASE c # d
    <3>1. certs'[c] = certs[c]
      BY <1>7, <2>1, <2>3 DEF Rewrites, Replaced
    <3> QED BY <1>3, <2>1, <2>2, <3>1
  <2>4. CASE c = d /\ pc[p] = "update_replace"
    <3>1. reg[p].renew = "none" /\ certs'[c].data = reg[p].m
      BY <1>7, <2>4 DEF Rewrites, Replaced
    <3> QED BY <1>1, <2>4, <3>1 DEF Told, Bringing, Past
  <2>5. c = d => pc[p] # "acme_replace"
    BY <1>7 DEF Rewrites
  <2>6. c = d => pc[p] # "renew_replace"
    <3> SUFFICES ASSUME c = d, pc[p] = "renew_replace" PROVE FALSE
      OBVIOUS
    <3>1. c = reg[p].id /\ ~certs[c].imported /\ certs'[c].renew = certs[c].renew
      BY <1>7 DEF Rewrites, Replaced
    <3> QED BY <1>1, <2>1, <2>2, <3>1 DEF Told
  <2> QED BY <1>7, <2>3, <2>4, <2>5, <2>6 DEF Rewrites
<1> QED BY <1>1, <1>4, <1>5, <1>6, <1>7 DEF Shape

LEMMA NoticeStep ==
  ASSUME Inv, MarksType, NoticeInv, NEW p \in Procs, Step(p)
  PROVE  NoticeInv'
<1>1. \A q \in Procs : Told(q)'
  BY ToldOthers, ToldMover
<1>2. \A c \in DOMAIN todo' : Current(c)'
  BY CurrentStep
<1>3. NoLostNotice'
  BY NoticeRows
<1> QED BY <1>1, <1>2, <1>3 DEF NoticeInv

LEMMA NoticeRestart ==
  ASSUME Inv, NoticeInv, Restart
  PROVE  NoticeInv'
<1>1. (\A q \in Procs : Told(q)') /\ (\A c \in DOMAIN todo' : Current(c)')
  BY DEF Restart, Told, Empty, Bringing
<1>2. /\ DOMAIN certs' = DOMAIN certs /\ silent' = silent
      /\ reused' = reused /\ overtaken' = overtaken
      /\ \A c \in DOMAIN certs : /\ certs'[c].data = certs[c].data
                                 /\ certs'[c].ca = certs[c].ca
                                 /\ certs'[c].renew = certs[c].renew
  <2>1. \A c \in DOMAIN certs : certs[c] \in Row
    BY DEF Inv, TableInv, TableTypeOK
  <2> QED BY <2>1 DEF Restart, Backfill, marks, Row
<1>3. NoLostNotice'
  BY <1>2 DEF NoLostNotice, NoticeInv, NoticeAstray, RenewalAstray
<1> QED BY <1>1, <1>3 DEF NoticeInv

-----------------------------------------------------------------------------
\* Together.
RaceInv == SubjectInv /\ SerialInv /\ ImportInv /\ PublicInv /\ NoticeInv

LEMMA RaceInit == Init => RaceInv
<1> SUFFICES ASSUME Init PROVE RaceInv
  OBVIOUS
<1>1. DOMAIN certs = {} /\ DOMAIN todo = {} /\ versions = {} /\ \A q \in Procs : pc[q] = "idle"
  BY DEF Init, Empty
<1>2. SubjectInv
  BY <1>1 DEF SubjectInv, Checked, SubjectMatches
<1>3. SerialInv
  BY <1>1 DEF SerialInv, Recording
<1>4. ImportInv
  BY <1>1 DEF ImportInv, Fresh, Twice, Storing, Printed, ImportedLeavesDistinct
<1>5. PublicInv
  BY <1>1 DEF PublicInv, Sourced, PublicMaterialKept
<1>6. NoticeInv
  BY <1>1 DEF NoticeInv, Told, Bringing, NoLostNotice
<1> QED BY <1>2, <1>3, <1>4, <1>5, <1>6 DEF RaceInv

LEMMA RaceStutter ==
  ASSUME RaceInv, UNCHANGED vars
  PROVE  RaceInv'
<1> USE DEF vars, marks, RaceInv
<1>1. \A c : Held(c)' = Held(c)
  BY DEF Held
<1>2. SubjectInv'
  BY <1>1 DEF SubjectInv, Checked, SubjectMatches, UpdateAstray
<1>3. SerialInv'
  BY DEF SerialInv, Recording, SerialRow, SerialVersion, Pending, SerialAstray
<1>4. ImportInv'
  BY <1>1 DEF ImportInv, Fresh, Twice, Printed, ImportedLeavesDistinct
<1>5. PublicInv'
  BY <1>1 DEF PublicInv, Sourced, Copied, NotArmed, PublicMaterialKept, RenewalAstray
<1>6. NoticeInv'
  BY DEF NoticeInv, Told, Current, NoLostNotice, NoticeAstray, RenewalAstray
<1> QED BY <1>2, <1>3, <1>4, <1>5, <1>6

LEMMA RaceNext ==
  ASSUME Inv, MarksType, RaceInv, [Next]_vars
  PROVE  RaceInv'
<1>1. ASSUME NEW p \in Procs, Step(p)
      PROVE  RaceInv'
  BY <1>1, SubjectStep, SerialStep, ImportStep, PublicStep, NoticeStep DEF RaceInv
<1>2. CASE Restart
  BY <1>2, SubjectRestart, SerialRestart, ImportRestart, PublicRestart, NoticeRestart DEF RaceInv
<1>3. CASE UNCHANGED vars
  BY <1>3, RaceStutter
<1> QED BY <1>1, <1>2, <1>3 DEF Next, Step, Procs

\* The invariant of overlapping handlers: what each may rely on between its calls.
THEOREM RaceHolds == Spec => []RaceInv
<1>1. Inv /\ MarksType /\ RaceInv /\ [Next]_vars => RaceInv'
  BY RaceNext
<1> QED BY <1>1, RaceInit, InvHolds, MarksTyped, PTL DEF Spec

\* set_cert_serial writes the serial of the content it finds, whatever ran since
\* the insert, unless the row was replaced or its id reused in between.
THEOREM SerialsTruthful == Spec => []SerialColumnTruthful
<1>1. RaceInv => SerialColumnTruthful
  BY DEF RaceInv, SerialInv, SerialRow, SerialVersion, SerialColumnTruthful
<1> QED BY <1>1, RaceHolds, PTL

\* get_cert_status_by_serial_hex finds every content that was ever replaced: its
\* serial was recorded before it became history, by replace_certificate or by the
\* request that inserted it.
THEOREM SupersededAreKnown == Spec => []KnownAfterRotation
<1>1. Inv /\ RaceInv => KnownAfterRotation
  <2> SUFFICES ASSUME Inv, RaceInv, NEW v \in versions, ~SerialAstray(v.cert), v.ca # Null
               PROVE  CertStatusBySerial(v.data) # {"unknown"}
    BY DEF KnownAfterRotation
  <2> DEFINE current == {c \in DOMAIN certs : certs[c].hex = v.data}
             history == {w \in versions : w.hex = v.data /\ w.cert \in DOMAIN certs}
             Status(c) == IF certs[c].revoked THEN "revoked" ELSE "good"
  <2>1. v \in history
    BY DEF RaceInv, SerialInv, SerialVersion, Inv, TableInv, HistoryBelowCurrent
  <2>2. CertStatusBySerial(v.data) =
          IF current # {} THEN {Status(c) : c \in current}
          ELSE IF history # {} THEN {Status(w.cert) : w \in history}
          ELSE {"unknown"}
    BY DEF CertStatusBySerial
  <2>3. \A c : Status(c) # "unknown"
    OBVIOUS
  <2> HIDE DEF current, history, Status
  <2>4. CASE current # {}
    <3>1. PICK c : c \in current
      BY <2>4
    <3> QED BY <2>2, <2>3, <2>4, <3>1
  <2>5. CASE current = {}
    BY <2>1, <2>2, <2>3, <2>5
  <2> QED BY <2>4, <2>5
<1> QED BY <1>1, InvHolds, RaceHolds, PTL

\* update_certificate compares the CN two calls before it replaces; whatever runs
\* in between, the row it replaces still has that CN, unless the id was reused.
THEOREM SubjectsMatch == Spec => []SubjectMatches
<1>1. RaceInv => SubjectMatches
  BY DEF RaceInv, SubjectInv
<1> QED BY <1>1, RaceHolds, PTL

\* The lookups by fingerprint keep a leaf from being held twice, whichever of
\* import and update brings it, unless two requests store it at the same time.
THEOREM ImportsAreDistinct == Spec => []ImportedLeavesDistinct
<1>1. RaceInv => ImportedLeavesDistinct
  BY DEF RaceInv, ImportInv
<1> QED BY <1>1, RaceHolds, PTL

\* The watcher never replaces what a public CA issued, deletions of providers and
\* of certificates included, unless the id of a row it had read was reused.
THEOREM PublicIsKept == Spec => []PublicMaterialKept
<1>1. RaceInv => PublicMaterialKept
  BY DEF RaceInv, PublicInv
<1> QED BY <1>1, RaceHolds, PTL

\* One-shot notices: with updates, renewals, deletions and restarts between the
\* mail and the reset, a row is muted only for a content that needs no notice.
THEOREM NoNoticeIsLost == Spec => []NoLostNotice
<1>1. RaceInv => NoLostNotice
  BY DEF RaceInv, NoticeInv
<1> QED BY <1>1, RaceHolds, PTL

=============================================================================
