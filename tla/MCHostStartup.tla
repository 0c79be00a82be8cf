--------------------------- MODULE MCHostStartup ---------------------------
(* HostStartup for TLC. *)
EXTENDS HostStartup

MCConfigs ==
    {[kind |-> "absent"], [kind |-> "malformed"],
     [kind |-> "port", port |-> MaxPort], [kind |-> "port", port |-> 0]}
=============================================================================
