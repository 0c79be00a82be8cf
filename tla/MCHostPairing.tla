--------------------------- MODULE MCHostPairing ---------------------------
(* Pairing on the host with three Decks, two exchanges and three credentials. *)
EXTENDS HostPairing, TLC

CONSTANTS ip1, ip2, ip3, s1, s2, k1, k2, k3, c1, c2

MCSources == {ip1, ip2, ip3}
MCOneSource == {ip1}
MCSessions == {s1, s2}
MCCodes == {c1, c2}
MCCredentials == {k1, k2, k3}
MCOneSession == {s1}
MCOneCode == {c1}
MCTwoCredentials == {k1, k2}
MCClockForward == {2}
MCClockBothWays == {-2, 2}
MCNoClockStep == {}
Symmetry ==
    Permutations(MCSources) \cup Permutations(MCSessions)
        \cup Permutations(MCCredentials) \cup Permutations(MCCodes)
=============================================================================
