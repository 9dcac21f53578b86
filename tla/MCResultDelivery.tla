--------------------------- MODULE MCResultDelivery ---------------------------
(* Model-checking instance of ResultDelivery: contents and keys are         *)
(* interchangeable, so TLC may identify states that differ by a renaming.   *)
EXTENDS ResultDelivery, TLC

Symmetry == Permutations(Contents) \cup Permutations(Keys)

===============================================================================
