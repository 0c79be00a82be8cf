--------------------------- MODULE MCPairingCode ---------------------------
(* The pairing code with one source, six exchanges and the limits of the code. *)
EXTENDS PairingCode, TLC

CONSTANTS ip1, s1, s2, s3, s4, s5, s6, k1, c1

MCSources == {ip1}
MCSessions == {s1, s2, s3, s4, s5, s6}
MCCodes == {c1}
MCCredentials == {k1}

Symmetry == Permutations(MCSessions)
=============================================================================
