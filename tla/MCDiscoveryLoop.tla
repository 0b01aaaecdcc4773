-------------------------- MODULE MCDiscoveryLoop --------------------------
(* Values for checking DiscoveryLoop: a watched token and three that may be  *)
(* discovered, one of them with an authority.                                *)
EXTENDS DiscoveryLoop

CONSTANTS w, a, b, c

MCWatched == <<w>>
=============================================================================
