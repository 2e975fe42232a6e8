---------------------------- MODULE MCAcmeClient ----------------------------
(* Finite instances of AcmeClient. *)
EXTENDS AcmeClient, FiniteSets, TLC

CONSTANTS p1, p2, d1, d2

\* Interchangeable directories and requests.
Symmetry == Permutations(Directories) \cup Permutations(Clients)

\* With a second order at the CA a behaviour is about renewals, by one account and
\* with the provider left alone, or about accounts, with nothing issued.
Focus ==
    Cardinality(DOMAIN remote) = 2 =>
        \/ Cardinality(DOMAIN accounts) = 1 /\ \A p \in Clients : pc[p] # "update"
        \/ certs = Empty /\ \A n \in DOMAIN remote : remote[n].status \in {"pending", "ready"}

=============================================================================
