---------------------------- MODULE MCCrawlQueue -----------------------------
(* Instance of CrawlQueue: two workers, two domains, a URL with a           *)
(* fingerprint and one that is its own key.                                  *)
EXTENDS CrawlQueue, TLC

CONSTANTS w1, w2, d1, d2, u1, u2, f1

MCWorker == {w1, w2}
MCDomain == {d1, d2}
MCUrl == {u1, u2}
MCDomainOf == (u1 :> d1) @@ (u2 :> d2)
MCFingerprint == (u1 :> f1) @@ (u2 :> NoFingerprint)
=============================================================================
