--------------------------- MODULE MCHostControl ---------------------------
(* A window with two requests in flight, one of which may hang, and two    *)
(* codes.                                                                  *)
EXTENDS HostControl

CONSTANTS r1, r2, c1, c2

MCRequests == {r1, r2}
MCMayHang == {r1}
MCCodes == {c1, c2}
=============================================================================
