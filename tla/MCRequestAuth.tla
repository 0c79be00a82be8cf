--------------------------- MODULE MCRequestAuth ---------------------------
(* A shutdown or status request that arrives up to three times, and a re-pairing. *)
EXTENDS RequestAuth, TLC

CONSTANTS n1, k1, k2, h1, h2, h3

MCNonces == {n1}
MCCredentials == {k1, k2}
MCOneCredential == {k1}
MCHandlers == {h1, h2, h3}
MCOneHandler == {h1}
Symmetry == Permutations(MCHandlers) \cup Permutations(MCCredentials)
=============================================================================
