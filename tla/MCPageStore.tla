---------------------------- MODULE MCPageStore -----------------------------
(* Small instances of PageStore for TLC. *)
EXTENDS PageStore, TLC

CONSTANTS u1, u2, i1

Urls == {u1, u2}
Images == {i1}
=============================================================================
