----------------------------- MODULE Versioning -----------------------------
(***************************************************************************)
(* The versions that a Deck and a host compare, each in its own language:  *)
(* versioning.rs and versioning.py.                                        *)
(*                                                                         *)
(* A version is split at its dots.  A part is told apart by the number it  *)
(* spells and by how it does: plain decimal digits, with leading zeros,    *)
(* with a plus sign, with digits of another script after the first, or not *)
(* at all.  (int() of Python raises beyond 4300 digits; no version here    *)
(* has as many.)                                                           *)
(***************************************************************************)
EXTENDS Naturals, Sequences

CONSTANT MaxPart    \* u64::MAX

Part ==
    [style : {"plain", "padded", "signed", "foreign", "text"}, value : Nat]

Version == Seq(Part)
-----------------------------------------------------------------------------
\* str::parse::<u64>
IsU64(part) ==
    part.style \in {"plain", "padded", "signed"} /\ part.value <= MaxPart

\* parse returns Some: three numbers that are written as to_string writes
\* them.
Parses(v) ==
    /\ Len(v) = 3
    /\ \A i \in 1..3 : IsU64(v[i])
    /\ \A i \in 1..3 : v[i].style = "plain"

\* The relation of two versions that could be read.
Relation(plugin, host) ==
    IF plugin[1].value # host[1].value THEN "incompatible"
    ELSE IF plugin[2].value > host[2].value THEN "update_host"
    ELSE IF plugin[2].value < host[2].value THEN "update_plugin"
    ELSE "compatible"

\* versioning.rs
compare(plugin, host) ==
    IF Parses(plugin) /\ Parses(host) THEN Relation(plugin, host) ELSE "unknown"

\* _VERSION.fullmatch: \d is a digit of any script.
Matches(v) == Len(v) = 3 /\ \A i \in 1..3 : v[i].style \in {"plain", "foreign"}

\* versioning.py
compare_versions(plugin, host) ==
    IF Matches(plugin) /\ Matches(host) THEN Relation(plugin, host)
                                        ELSE "unknown"
=============================================================================
