----------------------------- MODULE MCFetcher ------------------------------
(* Instance of Fetcher: one host, two workers, a proxy and the direct        *)
(* connection behind it.  The jitter makes a backoff longer or shorter than  *)
(* the one it replaces.                                                      *)
EXTENDS Fetcher

CONSTANTS w1, w2, d1

MCProxies == <<"proxy", "direct">>
MCBackoffDelay == <<2>>
=============================================================================
