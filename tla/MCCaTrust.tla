----------------------------- MODULE MCCaTrust -----------------------------
(* A small instance of CaTrust: two CAs and one anchor of somebody else.    *)
EXTENDS CaTrust

CONSTANTS ca1, ca2, f1

MCCAs == {ca1, ca2}
MCForeign == {f1}
=============================================================================
