------------------------- MODULE MCPairingExchange -------------------------
(* PairingExchange for TLC: two PCs, a Deck and a test client. *)
EXTENDS PairingExchange, Integers, Sequences, TLC

Symmetry ==
    Permutations(Hosts) \cup Permutations(Exchanges)
        \cup Permutations(Credentials) \cup Permutations(Nonces)
        \cup Permutations(Codes)
-----------------------------------------------------------------------------
Wire == INSTANCE WireMessages

Versions == INSTANCE Versioning WITH MaxPart <- 9

Release(major, minor, patch) ==
    [i \in 1..3 |-> [style |-> "plain", value |-> <<major, minor, patch>>[i]]]

\* The examples that both test suites have: only_patch_differences_are_silent
\* of versioning.rs and test_versioning.py.
ASSUME VersionExamples ==
    \A compare \in {"rust", "python"} :
        LET Relation(p, h) == IF compare = "rust"
                              THEN Versions!compare(p, h)
                              ELSE Versions!compare_versions(p, h)
            tagged == [Release(1, 2, 3) EXCEPT ![1].style = "text"]
        IN  /\ Relation(Release(1, 2, 9), Release(1, 2, 0)) = "compatible"
            /\ Relation(Release(1, 3, 0), Release(1, 2, 9)) = "update_host"
            /\ Relation(Release(1, 2, 0), Release(1, 3, 0)) = "update_plugin"
            /\ Relation(Release(2, 0, 0), Release(1, 9, 0)) = "incompatible"
            /\ Relation(tagged, Release(1, 2, 3)) = "unknown"

\* The request of rejects_modification_stale_and_malformed_values, with and
\* without a nonce of the right length, and its canonical bytes up to the path.
ASSUME MessageExamples ==
    LET nonce == [i \in 1..16 |-> 4]
        request ==
            [timestamp |-> <<0, 0, 0, 0, 0, 0, 0, 100>>, nonce |-> nonce,
             method |-> <<112, 111, 115, 116>>, path |-> <<47>>,
             digest |-> [i \in 1..32 |-> 7]]
    IN  /\ Wire!RequestFits(request)
        /\ ~ Wire!RequestFits([request EXCEPT !.nonce = <<1, 1, 1>>])
        /\ Wire!canonical_message(request) =
               Wire!AUTH_DOMAIN \o <<0, 0, 0, 0, 0, 0, 0, 100, 0, 16>> \o nonce
                   \o <<0, 4, 80, 79, 83, 84, 0, 1, 47>> \o request.digest
=============================================================================
