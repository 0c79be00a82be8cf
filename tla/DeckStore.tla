----------------------------- MODULE DeckStore -----------------------------
(***************************************************************************)
(* The device store of the Decky plugin (store.py): the settings file, the *)
(* credentials file and the write-ahead transaction, with failing writes,  *)
(* a killed plugin and power loss at every point.                          *)
(*                                                                         *)
(* Every public operation holds the lock of the directory, so operations   *)
(* follow one another; an operation is a chain of stages, each of which is *)
(* one _atomic_write or _remove_transaction.  A stage first changes the    *)
(* directory (os.replace of a synced temporary file, or unlink) and then   *)
(* syncs it.  Both can fail.                                               *)
(*                                                                         *)
(* A pairing stands for the host id and metadata that mark_paired writes   *)
(* to the settings together with the credential it writes to the           *)
(* credentials.  The file system is external: a journal keeps the changes  *)
(* of a directory in order, so that power loss leaves the directory as it  *)
(* was at some moment since it was last synced.                            *)
(***************************************************************************)
CONSTANTS
    Devices,        \* device ids
    Pairings,
    NoPairing,      \* a device that was never paired
    NoTransaction   \* transaction.json does not exist

VARIABLES
    directory,      \* the three files, as the plugin reads them
    survivors,      \* the directories that power loss may leave
    stage,          \* the stage of the running operation, or "idle"
    replaced,       \* the stage has changed the directory, not synced it
    operation,      \* the running operation
    previous,       \* previous_credentials of _commit
    target,         \* what the operation is to store
    base,           \* what could be stored when the operation began
    result,         \* how the last operation ended
    syncFailed      \* a sync of the directory has failed

storeVars == <<directory, survivors, stage, replaced, operation, previous,
               target, base, result, syncFailed>>

Partial(S, T) == UNION {[U -> T] : U \in SUBSET S}

Contents ==
    [settings : Partial(Devices, Pairings \cup {NoPairing}),
     credentials : Partial(Devices, Pairings)]

ASSUME StoreAssumption ==
    /\ NoPairing \notin Pairings
    /\ NoTransaction \notin Contents

Directory == [settings : Partial(Devices, Pairings \cup {NoPairing}),
              credentials : Partial(Devices, Pairings),
              transaction : Contents \cup {NoTransaction}]

Operations ==
    [kind : {"load"}] \cup [kind : {"upsert", "delete"}, device : Devices]
        \cup [kind : {"mark_paired"}, device : Devices, pairing : Pairings]

Stages ==
    {"idle", "read", "recover_credentials", "recover_settings",
     "recover_remove", "save", "transaction", "credentials", "settings",
     "remove", "rollback_credentials", "rollback_remove"}

Empty == [d \in {} |-> NoPairing]

TypeOK ==
    /\ directory \in Directory
    /\ survivors \subseteq Directory
    /\ stage \in Stages
    /\ replaced \in BOOLEAN
    /\ operation \in Operations
    /\ previous \in Partial(Devices, Pairings)
    /\ target \in Contents
    /\ base \subseteq Contents
    /\ result \in {"none", "ok", "failed"}
    /\ syncFailed \in BOOLEAN
-----------------------------------------------------------------------------
(* Helpers *)

\* What a directory holds once _recover_transaction has rolled it forward.
Recovered(dir) ==
    IF dir.transaction # NoTransaction THEN dir.transaction
    ELSE [settings |-> dir.settings, credentials |-> dir.credentials]

Outcomes == {Recovered(dir) : dir \in survivors}

\* The settings and the credentials tell the same pairings.
Coherent(c) ==
    /\ \A d \in DOMAIN c.credentials :
        d \in DOMAIN c.settings /\ c.settings[d] = c.credentials[d]
    /\ \A d \in DOMAIN c.settings :
        c.settings[d] # NoPairing => d \in DOMAIN c.credentials

With(f, d, v) == [x \in DOMAIN f \cup {d} |-> IF x = d THEN v ELSE f[x]]

Without(f, d) == [x \in DOMAIN f \ {d} |-> f[x]]

\* The change a stage makes to the directory.
Changed(s) ==
    CASE s = "recover_credentials" ->
            [directory EXCEPT !.credentials = directory.transaction.credentials]
      [] s = "recover_settings" ->
            [directory EXCEPT !.settings = directory.transaction.settings]
      [] s = "transaction" -> [directory EXCEPT !.transaction = target]
      [] s = "credentials" -> [directory EXCEPT !.credentials = target.credentials]
      [] s \in {"settings", "save"} ->
            [directory EXCEPT !.settings = target.settings]
      [] s = "rollback_credentials" ->
            [directory EXCEPT !.credentials = previous]
      [] s \in {"recover_remove", "remove", "rollback_remove"} ->
            [directory EXCEPT !.transaction = NoTransaction]

\* The stage after one that succeeded.
AfterSuccess(s) ==
    CASE s = "recover_credentials" -> "recover_settings"
      [] s = "recover_settings" -> "recover_remove"
      [] s = "recover_remove" -> "read"
      [] s = "transaction" -> "credentials"
      [] s = "credentials" -> "settings"
      [] s = "settings" -> "remove"
      [] s = "rollback_credentials" -> "rollback_remove"
      [] OTHER -> "idle"

\* Faulty variant: a failed write of the settings leaves the new credentials.
AfterFailure_no_rollback(s) ==
    IF s \in {"credentials", "settings"} THEN "rollback_remove" ELSE "idle"

\* The stage after one that raised.  credentials_written is set only when
\* the write of the credentials returned, settings_written never is.
AfterFailure(s) ==
    CASE s = "credentials" -> "rollback_remove"
      [] s = "settings" -> "rollback_credentials"
      [] OTHER -> "idle"

Result(s, ok) ==
    IF s # "idle" THEN "none" ELSE IF ok THEN "ok" ELSE "failed"

Goes(s, ok) == stage' = s /\ result' = Result(s, ok)
-----------------------------------------------------------------------------
(* The operations *)

\* Every operation first recovers an interrupted transaction.
begin(op) ==
    /\ stage = "idle"
    /\ operation' = op
    /\ target' = Recovered(directory)
    /\ base' = Outcomes
    /\ Goes(IF directory.transaction # NoTransaction THEN "recover_credentials"
                                                     ELSE "read", TRUE)
    /\ UNCHANGED <<directory, survivors, replaced, previous, syncFailed>>

load ==
    /\ stage = "read" /\ operation.kind = "load"
    /\ Goes("idle", TRUE)
    /\ UNCHANGED <<directory, survivors, replaced, operation, previous, target,
                   base, syncFailed>>

\* An existing device keeps its pairing, a new one has none.
upsert ==
    /\ stage = "read" /\ operation.kind = "upsert"
    /\ LET d == operation.device
           settings == directory.settings
       IN  target' = [settings |-> IF d \in DOMAIN settings THEN settings
                                   ELSE With(settings, d, NoPairing),
                      credentials |-> directory.credentials]
    /\ Goes("save", TRUE)
    /\ UNCHANGED <<directory, survivors, replaced, operation, previous, base,
                   syncFailed>>

\* Faulty variant: the credential is cleared and not removed.
delete_clearing ==
    /\ stage = "read" /\ operation.kind = "delete"
    /\ target' = [settings |-> Without(directory.settings, operation.device),
                  credentials |-> With(directory.credentials, operation.device,
                                       NoPairing)]
    /\ previous' = directory.credentials
    /\ Goes("transaction", TRUE)
    /\ UNCHANGED <<directory, survivors, replaced, operation, base, syncFailed>>

\* Faulty variant: the credential of the device stays.
delete_settings_only ==
    /\ stage = "read" /\ operation.kind = "delete"
    /\ target' = [settings |-> Without(directory.settings, operation.device),
                  credentials |-> directory.credentials]
    /\ previous' = directory.credentials
    /\ Goes("transaction", TRUE)
    /\ UNCHANGED <<directory, survivors, replaced, operation, base, syncFailed>>

delete ==
    /\ stage = "read" /\ operation.kind = "delete"
    /\ target' = [settings |-> Without(directory.settings, operation.device),
                  credentials |->
                    Without(directory.credentials, operation.device)]
    /\ previous' = directory.credentials
    /\ Goes("transaction", TRUE)
    /\ UNCHANGED <<directory, survivors, replaced, operation, base, syncFailed>>

mark_paired ==
    /\ stage = "read" /\ operation.kind = "mark_paired"
    /\ operation.device \in DOMAIN directory.settings
    /\ target' = [settings |-> With(directory.settings, operation.device,
                                    operation.pairing),
                  credentials |-> With(directory.credentials, operation.device,
                                       operation.pairing)]
    /\ previous' = directory.credentials
    /\ Goes("transaction", TRUE)
    /\ UNCHANGED <<directory, survivors, replaced, operation, base, syncFailed>>

\* The device was deleted while the Deck was pairing: next() finds none.
mark_paired_missing ==
    /\ stage = "read" /\ operation.kind = "mark_paired"
    /\ operation.device \notin DOMAIN directory.settings
    /\ Goes("idle", FALSE)
    /\ UNCHANGED <<directory, survivors, replaced, operation, previous, target,
                   base, syncFailed>>
-----------------------------------------------------------------------------
(* The stages of _recover_transaction, save and _commit *)

Writing == stage \notin {"idle", "read"}

\* os.replace or unlink
replace ==
    /\ Writing /\ ~replaced
    /\ directory' = Changed(stage)
    /\ survivors' = survivors \cup {directory'}
    /\ replaced' = TRUE
    /\ UNCHANGED <<stage, operation, previous, target, base, result, syncFailed>>

\* The temporary file or the unlink fails: nothing has changed.
replace_fails ==
    /\ Writing /\ ~replaced
    /\ Goes(AfterFailure(stage), FALSE)
    /\ UNCHANGED <<directory, survivors, replaced, operation, previous, target,
                   base, syncFailed>>

\* Faulty variant: the directory is not synced.
sync_skipped ==
    /\ Writing /\ replaced
    /\ replaced' = FALSE
    /\ Goes(AfterSuccess(stage), stage # "rollback_remove")
    /\ UNCHANGED <<directory, survivors, operation, previous, target, base,
                   syncFailed>>

\* os.fsync of the directory
sync ==
    /\ Writing /\ replaced
    /\ survivors' = {directory}
    /\ replaced' = FALSE
    /\ Goes(AfterSuccess(stage), stage # "rollback_remove")
    /\ UNCHANGED <<directory, operation, previous, target, base, syncFailed>>

\* The sync fails after the directory has changed.
sync_fails ==
    /\ Writing /\ replaced
    /\ replaced' = FALSE
    /\ syncFailed' = TRUE
    /\ Goes(AfterFailure(stage), FALSE)
    /\ UNCHANGED <<directory, survivors, operation, previous, target, base>>
-----------------------------------------------------------------------------
(* Interruptions *)

\* The plugin is unloaded or killed; the directory stays as it is.
killed ==
    /\ stage # "idle"
    /\ stage' = "idle" /\ result' = "none" /\ replaced' = FALSE
    /\ UNCHANGED <<directory, survivors, operation, previous, target, base,
                   syncFailed>>

power_loss ==
    /\ directory' \in survivors
    /\ survivors' = {directory'}
    /\ stage' = "idle" /\ result' = "none" /\ replaced' = FALSE
    /\ UNCHANGED <<operation, previous, target, base, syncFailed>>
-----------------------------------------------------------------------------
Init ==
    /\ directory = [settings |-> Empty, credentials |-> Empty,
                    transaction |-> NoTransaction]
    /\ survivors = {directory}
    /\ stage = "idle"
    /\ replaced = FALSE
    /\ operation = [kind |-> "load"]
    /\ previous = Empty
    /\ target = Recovered(directory)
    /\ base = Outcomes
    /\ result = "none"
    /\ syncFailed = FALSE

Next ==
    \/ \E op \in Operations : begin(op)
    \/ load \/ upsert \/ delete \/ mark_paired \/ mark_paired_missing
    \/ replace \/ replace_fails \/ sync \/ sync_fails
    \/ killed \/ power_loss

Spec == Init /\ [][Next]_storeVars
-----------------------------------------------------------------------------
(* Properties *)

\* An operation is all or nothing: whenever the power fails, also in the
\* middle of a recovery or of a rollback, the next read finds what was stored
\* before the operation or all of what it stores (_commit and
\* _recover_transaction), as long as no sync of the directory failed.
AtomicOperation == ~syncFailed => Outcomes \subseteq base \cup {target}

\* Whatever survives holds no orphaned credential and no device that is only
\* half paired (_commit), as long as no sync of the directory failed.
OutcomesCoherent == ~syncFailed => \A c \in Outcomes : Coherent(c)

\* A change that was reported as stored survives power loss, even if syncs
\* failed before (_atomic_write and _remove_transaction).
SuccessIsDurable ==
    (stage = "idle" /\ result = "ok" /\ operation.kind # "load")
        => Outcomes = {target}

\* Both files hold the same of a device in c as in b.
AgreeOn(d, c, b) ==
    /\ d \in DOMAIN c.settings <=> d \in DOMAIN b.settings
    /\ d \in DOMAIN c.settings => c.settings[d] = b.settings[d]
    /\ d \in DOMAIN c.credentials <=> d \in DOMAIN b.credentials
    /\ d \in DOMAIN c.credentials => c.credentials[d] = b.credentials[d]

\* The operation is not about the device.
Spares(d) == operation.kind = "load" \/ d # operation.device

\* An operation on one device never changes another: whatever a kill or power
\* loss leaves in the middle of it, the other devices are as they were when it
\* began (upsert, delete, mark_paired write all devices back), as long as no
\* sync of the directory failed.
OtherDevicesKept ==
    ~syncFailed => \A c \in Outcomes : \E b \in base :
                        \A d \in Devices : Spares(d) => AgreeOn(d, c, b)

\* What the documentation promises: normal write failures roll back and leave
\* neither orphaned credentials nor half-applied pairing state.
NoHalfApplied ==
    stage = "idle" => \A c \in Outcomes : Coherent(c)
=============================================================================
