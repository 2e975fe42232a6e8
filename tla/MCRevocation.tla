---------------------------- MODULE MCRevocation -----------------------------
(* Small instances of Revocation: two CA ids, two certificates. *)
EXTENDS Revocation, TLC

CONSTANTS s1, p1, p2

MCCAs == {1, 2}

\* Requests are alike.
Alike == Permutations(Clients)

\* The number of a CRL and the generation of its key are written and never read.
View == <<certs, versions, signer, number, gen, [ca \in DOMAIN file |-> file[ca].serials], dead,
          promised, pc, [p \in Clients |-> [reg[p] EXCEPT !.gen = 0]], order>>

=============================================================================
