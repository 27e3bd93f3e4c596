--------------------------- MODULE MCDispatchQueue ---------------------------
(* DispatchQueue with the idempotency keys interchangeable *)
EXTENDS DispatchQueue, TLC

KeySymmetry == Permutations(Keys)
=============================================================================
