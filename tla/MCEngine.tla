------------------------------- MODULE MCEngine -------------------------------
(* Instance of Engine: two workers, two jobs in two domains, two render     *)
(* keys, one browser slot.                                                  *)
EXTENDS Engine, TLC

CONSTANTS w1, w2, j1, j2, d1, d2, k1, k2

MCDomainOf == (j1 :> d1) @@ (j2 :> d2)
=============================================================================
