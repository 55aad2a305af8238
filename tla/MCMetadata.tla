------------------------------ MODULE MCMetadata ------------------------------
(* Metadata on a small instance: a key that fits, two that are cut to the   *)
(* same third, the empty key and one with an accent; a value that is cut,    *)
(* what is left of it, and one with an accent.                               *)
EXTENDS Metadata

MCKeys == {"author", "long1", "long2", "long", "auteur_e", ""}
MCValues == {"wide", "wid", "e_acute"}
MCCutKey == [k \in MCKeys |-> IF k \in {"long1", "long2"} THEN "long" ELSE k]
MCCutValue == [v \in MCValues |-> IF v = "wide" THEN "wid" ELSE v]
MCLatin1 ==
  [t \in MCKeys \cup MCValues |->
     CASE t = "e_acute" -> "two_signs" [] t = "auteur_e" -> "auteur_two_signs" [] OTHER -> t]
=============================================================================
