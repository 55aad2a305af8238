--------------------------- MODULE MCIntrospection ---------------------------
(* Introspection with a short name, one that just fits and one that goes on  *)
(* from there.                                                               *)
EXTENDS Introspection

MCNames == {"a", "fits", "fits_not"}
MCCut == [n \in MCNames |-> IF n = "fits_not" THEN "fits" ELSE n]
=============================================================================
