--------------------------- MODULE MCDomainLimiter ---------------------------
(* Instance of DomainLimiter: two callers, one domain.                      *)
EXTENDS DomainLimiter, TLC

CONSTANTS w1, w2, d1

WorkerSymmetry == Permutations(Worker)
=============================================================================
