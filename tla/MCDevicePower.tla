--------------------------- MODULE MCDevicePower ---------------------------
(* One PC with one refresh and one action in flight. *)
EXTENDS DevicePower

CONSTANTS p1, a1, k1

MCPolls == {p1}
MCActions == {a1}
MCCredentials == {k1}
=============================================================================
