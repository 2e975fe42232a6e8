----------------------------- MODULE MCAccounts -----------------------------
(* Finite instances of Accounts. *)
EXTENDS Accounts, TLC

CONSTANTS p1, p2, e1, e2, x1, x0, o1, o2, c1

Symmetry ==
    Permutations(Clients) \cup Permutations(Emails) \cup Permutations(Subjects)

\* Passwords, linked subjects, service accounts, sharing and a second setup meet
\* only in the users table, through its ids: a behaviour is about one of them at a
\* time, and starts each of the others' with one kind of password.  With OIDC, one
\* browser at a time logs in and one has a session, and the provider stays known
\* while accounts are linked.
Focus ==
    LET standard == [v |-> 2, secret |-> x1]
        AtAny(labels) == {p \in Clients : pc[p] \in labels}
        passwords == \/ \E u \in DOMAIN users : users[u].password \notin {standard, Null}
                     \/ AtAny({"migrate", "change"}) # {}
                     \/ disturbed # {}
        linked == \/ \E u \in DOMAIN users : users[u].oidc # Null
                  \/ discovered \/ flow # {}
        service == services # Empty \/ AtAny({"service_insert", "service_write"}) # {}
        sharing == group \/ \E c \in Certs : owner[c] # Null
        again == \/ users # Empty /\ cas = 0 /\ AtAny({"setup_ca"}) = {}
                 \/ Cardinality(AtAny({"setup_cas", "setup_insert", "setup_ca"})) > 1
                 \/ users = Empty /\ cas > 0
        closed == users # Empty /\ ~passwordEnabled /\ ~linked
    IN /\ Cardinality(flow) <= 1
       /\ linked => Cardinality({p \in Clients : claims[p] # Null}) <= 1
       /\ linked => discovered
       /\ Cardinality({i \in 1..6 :
              <<passwords, linked, service, sharing, again, closed>>[i]}) <= 1

=============================================================================
