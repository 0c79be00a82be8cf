---------------------------- MODULE MCDeckStore ----------------------------
(* The store of a Deck with two PCs and two pairings. *)
EXTENDS DeckStore, TLC

CONSTANTS d1, d2, p1, p2

MCDevices == {d1, d2}
MCOneDevice == {d1}
MCPairings == {p1, p2}
Symmetry == Permutations(MCDevices) \cup Permutations(MCPairings)
=============================================================================
