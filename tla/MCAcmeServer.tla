---------------------------- MODULE MCAcmeServer ----------------------------
(* A small instance of AcmeServer.                                          *)
EXTENDS AcmeServer, TLC

CONSTANTS p1, p2, k1, k2

Interchangeable == Permutations({p1, p2}) \cup Permutations({k1, k2})
=============================================================================
