---------------------------- MODULE MCFrontier -----------------------------
(* Instance of Frontier: a seed that is its own key, two URLs with the same *)
(* fingerprint, one of which may be stored under the seed's URL, and a URL  *)
(* of a blacklisted domain.                                                 *)
EXTENDS Frontier, TLC

CONSTANTS c1, c2, s, u1, u2, x, f

CallerSymmetry == Permutations(Caller)
MCKeyOf == (s :> s) @@ (x :> x) @@ (u1 :> f) @@ (u2 :> f)
MCFinal == (s :> {s}) @@ (x :> {x}) @@ (u1 :> {u1, s}) @@ (u2 :> {u2})
=============================================================================
