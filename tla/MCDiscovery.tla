---------------------------- MODULE MCDiscovery ----------------------------
(* Instances of Discovery for TLC. *)
EXTENDS Discovery, TLC

CONSTANTS h1, h2, d1, d2

\* One domain has the addresses of the seed, and an IPv6 address of the other host
\* that is no use; the other domain cannot be looked up
SeedLookup ==
  (d1 :> {[host |-> h1, to4 |-> TRUE], [host |-> h2, to4 |-> FALSE]}) @@ (d2 :> Failed)

\* The seed lists the other host, which lists nobody
SeedLists == (h1 :> {h2}) @@ (h2 :> {})
============================================================================
