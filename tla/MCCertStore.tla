----------------------------- MODULE MCCertStore -----------------------------
(* Finite instances of CertStore. *)
EXTENDS CertStore, TLC

CONSTANTS s1, s2, ca1, ca2, p1, p2, w

\* Interchangeable names of subjects, issuers and client processes.
Symmetry == Permutations(Subjects) \cup Permutations(CAs) \cup Permutations(Clients)

\* A view for each run tells states apart by what decides the steps and the run's
\* properties.  The history variables decide no step; of its copy the watcher
\* uses a few columns, and of the marks a property asks whether they except a row.

Copies == [c \in DOMAIN todo |-> <<todo[c].subject, todo[c].data, todo[c].renew,
                                   todo[c].imported, todo[c].acme>>]

Control == <<certs, versions, orders, issued, pc, reg, Copies>>

ConcView == <<Control, uploaded, silent, [c \in DOMAIN certs |-> NoticeAstray(c)]>>

OverlapView == <<Control, [c \in DOMAIN certs |-> <<SerialAstray(c), UpdateAstray(c)>>], doubled>>

AcmeView == <<Control, [c \in DOMAIN certs |-> RenewalAstray(c)]>>

=============================================================================
