-------------------------- MODULE PairingContract --------------------------
(***************************************************************************)
(* What pairing promises, without exchanges, clocks, locks or failures.    *)
(* The durable credential of the host changes only when an outstanding     *)
(* code is used, a code is used at most once, and a Deck is never given a  *)
(* credential that is not the durable one.  The one exception that the     *)
(* code leaves is named: a use that panics may leave the used code usable  *)
(* until the next use, the next code or the end of the process.            *)
(***************************************************************************)
CONSTANTS Credentials, NoCredential

VARIABLES
    credential,     \* the credential the host keeps across restarts
    offered,        \* a code that was not used is outstanding
    panicked,       \* the last use panicked: its code may be used again
    reply           \* the credential in the last answer to a Deck

contractVars == <<credential, offered, panicked, reply>>

Init ==
    /\ credential = NoCredential
    /\ offered = TRUE
    /\ panicked = FALSE
    /\ reply = NoCredential

\* A new code is offered, or replaces the one outstanding.
Offer ==
    /\ offered' = TRUE
    /\ panicked' = FALSE
    /\ UNCHANGED <<credential, reply>>

\* The outstanding code is used; the answer may be lost.
Pair(k) ==
    /\ offered \/ panicked
    /\ credential' = k
    /\ offered' = FALSE
    /\ panicked' \in BOOLEAN
    /\ reply' \in {reply, k}

\* The answer is given again.
Answer ==
    /\ credential # NoCredential
    /\ reply' = credential
    /\ UNCHANGED <<credential, offered, panicked>>

\* The process ends, and with it the code that a panic left usable.
End ==
    /\ panicked' = FALSE
    /\ UNCHANGED <<credential, offered, reply>>

Next == Offer \/ (\E k \in Credentials : Pair(k)) \/ Answer \/ End

Spec == Init /\ [][Next]_contractVars
=============================================================================
