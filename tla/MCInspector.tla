----------------------------- MODULE MCInspector -----------------------------
(***************************************************************************)
(* Instance of Inspector: two models that share an input and an output by  *)
(* name, the second with an input more.  Shapes are typed that fit, that   *)
(* do not, that take a text, and whose 64-bit element count wraps to one   *)
(* (5 x 13 = 65 modulo 64).                                                *)
(***************************************************************************)
EXTENDS Inspector

MCModels ==
  { [inputs |-> [n \in {"x"} |-> <<0, 2>>], outputs |-> {"p"}],
    [inputs |-> [n \in {"x", "y"} |-> IF n = "x" THEN <<0, 0>> ELSE <<1>>],
     outputs |-> {"p"}] }

MCTypedShapes == { <<1, 2>>, <<2, 2>>, <<5, 13>>, <<0>> }
=============================================================================
