---------------------------- MODULE MCScheduler -----------------------------
(* Instance of Scheduler: a configured seed of one domain, a URL of another, *)
(* whose pages are crawled, counted and recrawled.                           *)
EXTENDS Scheduler, TLC

CONSTANTS s, u, d1, d2

MCDomainOf == (s :> d1) @@ (u :> d2)
MCMaxPages == (d1 :> 0) @@ (d2 :> 2)
=============================================================================
