------------------------------ MODULE CertLedger -----------------------------
(***************************************************************************)
(* What the certificate store promises, with no tables, handlers or        *)
(* processes: every certificate is a ledger of the contents it has carried.*)
(* A content is superseded by appending its successor, never overwritten;  *)
(* nothing is appended to a revoked certificate; revocation is final for   *)
(* as long as the certificate exists.  Only two acts remove anything: an   *)
(* administrator purges one superseded entry, or the whole certificate is  *)
(* removed.                                                                *)
(***************************************************************************)
EXTENDS Naturals

CONSTANTS
  Ids,       \* identities a certificate can have
  Contents   \* what an entry can carry: a material and its issuer

VARIABLES
  live,      \* the certificates that exist
  ledger,    \* per live certificate, its entries [version, content]
  revoked    \* the revoked ones

lvars == <<live, ledger, revoked>>

Entry == [version : Nat, content : Contents]

\* e is the current entry of c.
IsTop(c, e) == \A f \in ledger[c] : f.version <= e.version

LInit ==
  /\ live = {}
  /\ ledger = [c \in {} |-> {}]
  /\ revoked = {}

Issue(c) ==
  /\ c \notin live
  /\ live' = live \cup {c}
  /\ \E x \in Contents :
       ledger' = [d \in live \cup {c} |->
                    IF d = c THEN {[version |-> 1, content |-> x]} ELSE ledger[d]]
  /\ UNCHANGED revoked

Supersede(c) ==
  /\ c \in live \ revoked
  /\ \E e \in ledger[c], x \in Contents :
       /\ IsTop(c, e)
       /\ ledger' = [ledger EXCEPT ![c] = @ \cup {[version |-> e.version + 1, content |-> x]}]
  /\ UNCHANGED <<live, revoked>>

Revoke(c) ==
  /\ c \in live
  /\ revoked' = revoked \cup {c}
  /\ UNCHANGED <<live, ledger>>

Purge(c) ==
  /\ c \in live
  /\ \E e \in ledger[c] :
       /\ ~IsTop(c, e)
       /\ ledger' = [ledger EXCEPT ![c] = @ \ {e}]
  /\ UNCHANGED <<live, revoked>>

Remove(c) ==
  /\ c \in live
  /\ live' = live \ {c}
  /\ ledger' = [d \in live \ {c} |-> ledger[d]]
  /\ revoked' = revoked \ {c}

LNext == \E c \in Ids : Issue(c) \/ Supersede(c) \/ Revoke(c) \/ Purge(c) \/ Remove(c)

LSpec == LInit /\ [][LNext]_lvars

=============================================================================
