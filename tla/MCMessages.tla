----------------------------- MODULE MCMessages -----------------------------
(* Binary numbers: the third default name is "p10", as a client may ask to  *)
(* be.                                                                      *)
EXTENDS Messages, TLC

AskedNames == {<<p, 1>>, <<p, 1, 0>>, <<Dash>>}
Symmetry == Permutations(Client) \cup Permutations(Address)
=============================================================================
