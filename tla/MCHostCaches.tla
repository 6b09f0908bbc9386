---------------------------- MODULE MCHostCaches ----------------------------
(* Instance of HostCaches: two workers and a host that keeps crawlers out.  *)
EXTENDS HostCaches

CONSTANTS w1, w2, d1, e1, e2, e3
=============================================================================
