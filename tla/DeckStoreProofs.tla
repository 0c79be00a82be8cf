--------------------------- MODULE DeckStoreProofs ---------------------------
(***************************************************************************)
(* Proofs for DeckStore: operations are all or nothing, no credential is   *)
(* orphaned, and what was reported as stored survives power loss, for any  *)
(* devices and pairings.                                                   *)
(***************************************************************************)
EXTENDS DeckStore, TLAPS

-----------------------------------------------------------------------------
(* The inductive invariant *)

Recovery == {"recover_credentials", "recover_settings", "recover_remove"}

Removal == {"recover_remove", "remove", "rollback_remove"}

\* How far a stage has brought the three files.
StageOK ==
    /\ stage \in {"recover_credentials", "recover_settings", "credentials",
                  "settings", "rollback_credentials"}
        => directory.transaction = target
    /\ stage \in Removal
        => directory.transaction = IF replaced THEN NoTransaction ELSE target
    /\ stage = "transaction"
        => directory.transaction = IF replaced THEN target ELSE NoTransaction
    /\ stage \in {"read", "save"} => directory.transaction = NoTransaction
    /\ (\/ stage \in {"recover_settings", "recover_remove", "settings", "remove",
                      "save"}
        \/ stage \in {"recover_credentials", "credentials"} /\ replaced)
        => directory.credentials = target.credentials
    /\ (\/ stage \in {"recover_remove", "remove"}
        \/ stage \in {"recover_settings", "settings", "save"} /\ replaced)
        => directory.settings = target.settings
    /\ stage \in {"idle", "read"} => ~replaced
    /\ directory \in survivors

\* What a rollback restores.
Before == [settings |-> directory.settings, credentials |-> previous]

\* What may be left of the operation, and what it started from.
BaseOK ==
    /\ Outcomes \subseteq base \cup {target}
    /\ stage \in Recovery \cup {"read"} => Outcomes \subseteq base
    /\ (\/ stage \in {"transaction", "credentials", "rollback_credentials",
                      "rollback_remove"}
        \/ stage = "settings" /\ ~replaced)
        => Before \in base
    /\ (\/ stage \in {"transaction", "rollback_remove"}
        \/ stage = "credentials" /\ ~replaced
        \/ stage = "rollback_credentials" /\ replaced)
        => directory.credentials = previous
    /\ \A c \in base \cup {target} : Coherent(c)

StoreInvariant ==
    /\ TypeOK
    /\ StageOK
    /\ ~syncFailed => BaseOK
    /\ SuccessIsDurable
-----------------------------------------------------------------------------
(* Lemmas about the helpers *)

\* An empty map.
LEMMA EmptyFacts ==
    /\ DOMAIN Empty = {}
    /\ \A T : Empty \in Partial(Devices, T)
<1>1. DOMAIN Empty = {}
  BY DEF Empty
<1>2. ASSUME NEW T PROVE Empty \in Partial(Devices, T)
  <2>1. Empty \in [{} -> T]
    BY DEF Empty
  <2> QED
    BY <2>1 DEF Partial
<1> QED
  BY <1>1, <1>2

\* Setting and removing an entry of a map.
LEMMA MapFacts ==
    ASSUME NEW T, NEW f \in Partial(Devices, T), NEW d \in Devices, NEW v \in T
    PROVE  With(f, d, v) \in Partial(Devices, T)
           /\ Without(f, d) \in Partial(Devices, T)
<1>1. PICK U \in SUBSET Devices : f \in [U -> T]
  BY DEF Partial
<1>2. With(f, d, v) \in [U \cup {d} -> T] /\ Without(f, d) \in [U \ {d} -> T]
  BY <1>1 DEF With, Without
<1>3. U \cup {d} \in SUBSET Devices /\ U \ {d} \in SUBSET Devices
  OBVIOUS
<1> QED
  BY <1>2, <1>3 DEF Partial

\* The parts of a directory.
LEMMA DirectoryFacts ==
    ASSUME NEW dir \in Directory
    PROVE  /\ dir.settings \in Partial(Devices, Pairings \cup {NoPairing})
           /\ dir.credentials \in Partial(Devices, Pairings)
           /\ dir.transaction \in Contents \cup {NoTransaction}
           /\ Recovered(dir) \in Contents
  BY DEF Directory, Contents, Recovered

\* Two ways for a directory to hold some contents: in a transaction, or in the
\* two files.
LEMMA RecoveredFacts ==
    ASSUME NEW dir, NEW t \in Contents,
           \/ dir.transaction = t
           \/ /\ dir.transaction = NoTransaction
              /\ dir.settings = t.settings
              /\ dir.credentials = t.credentials
    PROVE  Recovered(dir) = t
  BY StoreAssumption DEF Recovered, Contents

\* The empty store satisfies the invariant.
LEMMA StoreInit == Init => StoreInvariant
<1> SUFFICES ASSUME Init PROVE StoreInvariant
  OBVIOUS
<1>1. directory \in Directory /\ Recovered(directory) \in Contents
      /\ Recovered(directory) = [settings |-> Empty, credentials |-> Empty]
  BY EmptyFacts DEF Init, Directory, Contents, Recovered
<1>2. Outcomes = {Recovered(directory)}
  BY DEF Init, Outcomes
<1>3. TypeOK
  BY <1>1, <1>2, EmptyFacts, Zenon DEF Init, TypeOK, Stages, Operations
<1>4. BaseOK
  BY <1>1, <1>2, EmptyFacts DEF Init, BaseOK, Coherent, Recovery
<1> QED
  BY <1>3, <1>4 DEF Init, StoreInvariant, StageOK, Removal, SuccessIsDurable
-----------------------------------------------------------------------------
(* Every step keeps the types *)

\* The store with a pairing of one device.
LEMMA WithTypes ==
    ASSUME TypeOK, NEW d \in Devices, NEW p \in Pairings
    PROVE  [settings |-> With(directory.settings, d, p),
            credentials |-> With(directory.credentials, d, p)] \in Contents
<1>1. /\ directory.settings \in Partial(Devices, Pairings \cup {NoPairing})
      /\ directory.credentials \in Partial(Devices, Pairings)
  BY DirectoryFacts DEF TypeOK
<1>2. p \in Pairings \cup {NoPairing}
  OBVIOUS
<1>3. With(directory.settings, d, p)
        \in Partial(Devices, Pairings \cup {NoPairing})
  BY <1>1, <1>2, MapFacts
<1>4. With(directory.credentials, d, p) \in Partial(Devices, Pairings)
  BY <1>1, MapFacts
<1> QED
  BY <1>3, <1>4 DEF Contents

\* The store without one device.
LEMMA WithoutTypes ==
    ASSUME TypeOK, NEW d
    PROVE  [settings |-> Without(directory.settings, d),
            credentials |-> Without(directory.credentials, d)] \in Contents
<1>1. ASSUME NEW T, NEW f \in Partial(Devices, T)
      PROVE  Without(f, d) \in Partial(Devices, T)
  <2>1. PICK U \in SUBSET Devices : f \in [U -> T]
    BY DEF Partial
  <2>2. Without(f, d) \in [U \ {d} -> T] /\ U \ {d} \in SUBSET Devices
    BY <2>1 DEF Without
  <2> QED
    BY <2>2 DEF Partial
<1>2. /\ directory.settings \in Partial(Devices, Pairings \cup {NoPairing})
      /\ directory.credentials \in Partial(Devices, Pairings)
  BY DirectoryFacts DEF TypeOK
<1> QED
  BY <1>1, <1>2 DEF Contents

\* The running operation has the fields of its kind.
LEMMA OperationFacts ==
    ASSUME TypeOK
    PROVE  /\ operation.kind \in {"upsert", "delete", "mark_paired"}
                => operation.device \in Devices
           /\ operation.kind = "mark_paired" => operation.pairing \in Pairings
  BY DEF TypeOK, Operations

\* A stage makes a directory of a directory.
LEMMA ChangedType ==
    ASSUME TypeOK, StageOK, Writing, ~replaced
    PROVE  Changed(stage) \in Directory
<1>1. directory \in Directory /\ target \in Contents
      /\ previous \in Partial(Devices, Pairings)
  BY DEF TypeOK
<1>2. stage \in Stages \ {"idle", "read"}
  BY DEF TypeOK, Writing
<1>3. /\ [directory EXCEPT !.transaction = target] \in Directory
      /\ [directory EXCEPT !.transaction = NoTransaction] \in Directory
      /\ [directory EXCEPT !.credentials = target.credentials] \in Directory
      /\ [directory EXCEPT !.settings = target.settings] \in Directory
      /\ [directory EXCEPT !.credentials = previous] \in Directory
  BY <1>1 DEF Directory, Contents
<1>4. stage \in {"recover_credentials", "recover_settings"}
        => directory.transaction = target
  BY DEF StageOK
<1> QED
  BY <1>2, <1>3, <1>4 DEF Changed, Stages

\* Every step keeps the types.
LEMMA StoreTypes ==
    ASSUME TypeOK, StageOK, [Next]_storeVars
    PROVE  TypeOK'
<1> USE DEF TypeOK
<1>0. Outcomes \subseteq Contents
  BY DirectoryFacts DEF Outcomes
<1>1. ASSUME NEW op \in Operations, begin(op) PROVE TypeOK'
  BY <1>0, <1>1, DirectoryFacts DEF begin, Goes, Result, Stages
<1>2. CASE load \/ mark_paired_missing
  BY <1>2 DEF load, mark_paired_missing, Goes, Result, Stages
<1>3. CASE upsert
  <2>1. operation.device \in Devices
    BY <1>3, OperationFacts DEF upsert
  <2>2. /\ directory.settings \in Partial(Devices, Pairings \cup {NoPairing})
        /\ directory.credentials \in Partial(Devices, Pairings)
    BY DirectoryFacts
  <2>3. With(directory.settings, operation.device, NoPairing)
            \in Partial(Devices, Pairings \cup {NoPairing})
    BY <2>1, <2>2, MapFacts
  <2>4. target' \in Contents
    BY <1>3, <2>2, <2>3 DEF upsert, Contents
  <2> QED
    BY <1>3, <2>4 DEF upsert, Goes, Result, Stages
<1>4. CASE delete
  <2>1. target' \in Contents /\ previous' \in Partial(Devices, Pairings)
    BY <1>4, WithoutTypes, DirectoryFacts DEF delete
  <2> QED
    BY <1>4, <2>1 DEF delete, Goes, Result, Stages
<1>5. CASE mark_paired
  <2>1. operation.device \in Devices /\ operation.pairing \in Pairings
    BY <1>5, OperationFacts DEF mark_paired
  <2>2. target' \in Contents /\ previous' \in Partial(Devices, Pairings)
    BY <1>5, <2>1, WithTypes, DirectoryFacts DEF mark_paired
  <2> QED
    BY <1>5, <2>2 DEF mark_paired, Goes, Result, Stages
<1>6. CASE replace
  BY <1>6, ChangedType DEF replace
<1>7. CASE replace_fails \/ sync \/ sync_fails
  <2>1. AfterSuccess(stage) \in Stages /\ AfterFailure(stage) \in Stages
    BY DEF AfterSuccess, AfterFailure, Stages
  <2> QED
    BY <1>7, <2>1, Zenon DEF replace_fails, sync, sync_fails, Goes, Result
<1>8. CASE killed \/ power_loss
  BY <1>8, Zenon DEF killed, power_loss, Stages
<1>9. CASE UNCHANGED storeVars
  BY <1>9 DEF storeVars
<1> QED
  BY <1>1, <1>2, <1>3, <1>4, <1>5, <1>6, <1>7, <1>8, <1>9 DEF Next
-----------------------------------------------------------------------------
(* Every step keeps the stages in order *)

\* Every step leaves the three files as the next stage expects them.
LEMMA StageStep ==
    ASSUME TypeOK, StageOK, [Next]_storeVars
    PROVE  StageOK'
<1> USE DEF StageOK, Removal
<1>0. target \in Contents /\ target # NoTransaction
      /\ directory \in Directory /\ stage \in Stages
  BY StoreAssumption DEF TypeOK
<1>1. ASSUME NEW op \in Operations, begin(op) PROVE StageOK'
  <2>1. /\ stage = "idle" /\ UNCHANGED <<directory, survivors, replaced>>
        /\ stage' = IF directory.transaction # NoTransaction
                      THEN "recover_credentials" ELSE "read"
        /\ directory.transaction # NoTransaction
              => target' = directory.transaction
    BY <1>1 DEF begin, Goes, Recovered
  <2> QED
    BY <2>1
<1>2. CASE load \/ mark_paired_missing
  <2>1. /\ stage = "read" /\ stage' = "idle"
        /\ UNCHANGED <<directory, survivors, replaced>>
    BY <1>2, Zenon DEF load, mark_paired_missing, Goes
  <2> QED
    BY <2>1
<1>3. CASE upsert
  <2>1. /\ stage = "read" /\ stage' = "save"
        /\ target'.credentials = directory.credentials
        /\ UNCHANGED <<directory, survivors, replaced>>
    BY <1>3 DEF upsert, Goes
  <2> QED
    BY <2>1
<1>4. CASE delete \/ mark_paired
  <2>1. /\ stage = "read" /\ stage' = "transaction"
        /\ UNCHANGED <<directory, survivors, replaced>>
    BY <1>4, Zenon DEF delete, mark_paired, Goes
  <2> QED
    BY <2>1
<1>5. CASE replace
  <2>1. /\ directory' = Changed(stage) /\ replaced' /\ ~replaced
        /\ directory' \in survivors'
        /\ UNCHANGED <<stage, target, previous>> /\ Writing
    BY <1>5 DEF replace
  <2>2. stage \in Stages \ {"idle", "read"}
    BY <1>0, <2>1 DEF Writing
  <2>3. /\ stage \in Removal => directory' = [directory EXCEPT
                                                !.transaction = NoTransaction]
        /\ stage = "transaction" => directory' = [directory EXCEPT
                                                    !.transaction = target]
        /\ stage \in {"recover_credentials", "credentials"} =>
              directory' = [directory EXCEPT !.credentials = target.credentials]
        /\ stage \in {"recover_settings", "settings", "save"} =>
              directory' = [directory EXCEPT !.settings = target.settings]
        /\ stage = "rollback_credentials" =>
              directory' = [directory EXCEPT !.credentials = previous]
    BY <2>1 DEF Changed
  <2> QED
    BY <1>0, <2>1, <2>2, <2>3 DEF Directory, Stages
<1>6. CASE replace_fails
  <2>1. /\ stage' = AfterFailure(stage) /\ ~replaced' /\ ~replaced
        /\ UNCHANGED <<directory, survivors, target>>
    BY <1>6 DEF replace_fails, Goes
  <2> QED
    BY <2>1 DEF AfterFailure
<1>7. CASE sync
  <2>1. /\ stage' = AfterSuccess(stage) /\ ~replaced' /\ replaced /\ Writing
        /\ survivors' = {directory} /\ UNCHANGED <<directory, target>>
    BY <1>7 DEF sync, Goes
  <2>2. stage \in Stages \ {"idle", "read"}
    BY <1>0, <2>1 DEF Writing
  <2> QED
    BY <2>1, <2>2 DEF AfterSuccess, Stages
<1>8. CASE sync_fails
  <2>1. /\ stage' = AfterFailure(stage) /\ ~replaced' /\ replaced
        /\ UNCHANGED <<directory, survivors, target>>
    BY <1>8 DEF sync_fails, Goes
  <2> QED
    BY <2>1 DEF AfterFailure
<1>9. CASE killed \/ power_loss
  BY <1>9 DEF killed, power_loss
<1>10. CASE UNCHANGED storeVars
  BY <1>10 DEF storeVars
<1> QED
  BY <1>1, <1>2, <1>3, <1>4, <1>5, <1>6, <1>7, <1>8, <1>9, <1>10 DEF Next
-----------------------------------------------------------------------------
(* Every step keeps to what the operation started from or stores *)

\* What the plugin reads now is one of the outcomes.
LEMMA OutcomeFacts ==
    ASSUME TypeOK, StageOK
    PROVE  /\ Recovered(directory) \in Outcomes
           /\ (replaced /\ stage \in {"transaction", "recover_remove", "remove",
                                      "save"})
                => Recovered(directory) = target
           /\ (stage \in {"recover_credentials", "recover_settings",
                          "credentials", "settings", "rollback_credentials"}
               \/ (stage \in Removal /\ ~replaced))
                => Recovered(directory) = target
<1>1. Recovered(directory) \in Outcomes
  BY DEF StageOK, Outcomes
<1> QED
  BY <1>1, RecoveredFacts DEF TypeOK, StageOK, Removal

\* The steps that read the files and choose what to store.
LEMMA ReadStep ==
    ASSUME TypeOK, StageOK, BaseOK, upsert \/ delete \/ mark_paired
    PROVE  BaseOK'
<1> DEFINE now == [settings |-> directory.settings,
                   credentials |-> directory.credentials]
<1>1. /\ stage = "read" /\ directory.transaction = NoTransaction
      /\ UNCHANGED <<directory, survivors, base, replaced>>
  BY Zenon DEF upsert, delete, mark_paired, StageOK
<1>2. Outcomes' = Outcomes /\ Outcomes \subseteq base
  BY <1>1 DEF Outcomes, BaseOK
<1>3. now \in base /\ Coherent(now)
  <2>1. Recovered(directory) = now
    BY <1>1 DEF Recovered
  <2> QED
    BY <1>2, <2>1, OutcomeFacts DEF BaseOK
<1> HIDE DEF now
<1>4. CASE upsert
  <2>1. Coherent(target')
    <3>1. target' = now
          \/ /\ operation.device \notin DOMAIN directory.settings
             /\ target' = [settings |-> With(directory.settings,
                                             operation.device, NoPairing),
                           credentials |-> directory.credentials]
      BY <1>4 DEF upsert, now
    <3>2. ASSUME NEW s, NEW k, NEW d, d \notin DOMAIN s,
                 Coherent([settings |-> s, credentials |-> k])
          PROVE  Coherent([settings |-> With(s, d, NoPairing),
                           credentials |-> k])
      BY <3>2 DEF Coherent, With
    <3> QED
      BY <1>3, <3>1, <3>2 DEF now
  <2>2. stage' = "save"
    BY <1>4 DEF upsert, Goes
  <2> QED
    BY <1>1, <1>2, <2>1, <2>2 DEF BaseOK, Recovery
<1>5. CASE delete \/ mark_paired
  <2>1. stage' = "transaction" /\ previous' = directory.credentials
    BY <1>5, Zenon DEF delete, mark_paired, Goes
  <2>2. Coherent(target')
    <3>1. CASE delete
      <4>1. target' = [settings |-> Without(directory.settings,
                                            operation.device),
                       credentials |-> Without(directory.credentials,
                                               operation.device)]
        BY <3>1 DEF delete
      <4> QED
        BY <1>3, <4>1 DEF now, Coherent, Without
    <3>2. CASE mark_paired
      <4>1. operation.pairing # NoPairing
        BY <3>2, OperationFacts, StoreAssumption DEF mark_paired
      <4>2. target' = [settings |-> With(directory.settings, operation.device,
                                         operation.pairing),
                       credentials |-> With(directory.credentials,
                                            operation.device,
                                            operation.pairing)]
        BY <3>2 DEF mark_paired
      <4> QED
        BY <1>3, <4>1, <4>2 DEF now, Coherent, With
    <3> QED
      BY <1>5, <3>1, <3>2
  <2>3. Before' = now
    BY <1>1, <2>1 DEF Before, now
  <2> QED
    BY <1>1, <1>2, <1>3, <2>1, <2>2, <2>3 DEF BaseOK, Recovery
<1> QED
  BY <1>4, <1>5

\* The step that changes the directory.
LEMMA ReplaceStep ==
    ASSUME TypeOK, StageOK, BaseOK, replace
    PROVE  BaseOK'
<1>0. /\ Writing /\ ~replaced /\ replaced'
      /\ directory' = Changed(stage) /\ survivors' = survivors \cup {directory'}
      /\ UNCHANGED <<stage, previous, target, base>>
      /\ directory \in Directory /\ stage \in Stages \ {"idle", "read"}
  BY DEF replace, TypeOK, Writing
<1>1. TypeOK' /\ StageOK'
  <2>1. [Next]_storeVars
    BY DEF Next
  <2> QED
    BY <2>1, StoreTypes, StageStep
<1>2. /\ stage = "rollback_credentials" =>
            /\ directory'.settings = directory.settings
            /\ directory'.credentials = previous
      /\ stage \in {"transaction", "rollback_remove"} =>
            /\ directory'.settings = directory.settings
            /\ directory'.credentials = directory.credentials
      /\ stage = "credentials" => directory'.settings = directory.settings
  BY <1>0 DEF Changed, Directory
<1>3. /\ stage = "rollback_remove" => Recovered(directory') \in base
      /\ stage # "rollback_remove" => Recovered(directory') = target
      /\ stage \in Recovery => target \in base
  <2>1. ASSUME stage = "rollback_remove" PROVE Recovered(directory') \in base
    <3>1. directory'.transaction = NoTransaction
      BY <1>0, <1>1, <2>1 DEF StageOK, Removal
    <3>2. Recovered(directory') = Before
      BY <1>2, <2>1, <3>1 DEF Recovered, Before, BaseOK
    <3> QED
      BY <2>1, <3>2 DEF BaseOK
  <2>2. ASSUME stage # "rollback_remove" PROVE Recovered(directory') = target
    <3>1. \/ directory'.transaction = target
          \/ /\ directory'.transaction = NoTransaction
             /\ directory'.settings = target.settings
             /\ directory'.credentials = target.credentials
      BY <1>0, <1>1, <2>2 DEF StageOK, Stages, Removal
    <3> QED
      BY <3>1, RecoveredFacts DEF TypeOK
  <2>3. ASSUME stage \in Recovery PROVE target \in base
    BY <1>0, <2>3, OutcomeFacts DEF Recovery, Removal, BaseOK
  <2> QED
    BY <2>1, <2>2, <2>3
<1>4. Outcomes' = Outcomes \cup {Recovered(directory')}
  BY <1>0 DEF Outcomes, Recovered
<1>5. /\ stage \in {"transaction", "credentials", "rollback_credentials",
                    "rollback_remove"} => Before' = Before
  BY <1>0, <1>2 DEF Before
<1> QED
  BY <1>0, <1>2, <1>3, <1>4, <1>5 DEF BaseOK, Recovery

\* Every step, as long as no sync has failed.
LEMMA BaseStep ==
    ASSUME TypeOK, StageOK, ~syncFailed => BaseOK, [Next]_storeVars, ~syncFailed'
    PROVE  BaseOK'
<1>0. ~syncFailed /\ BaseOK /\ ~sync_fails
  <2>1. ~sync_fails
    BY Zenon DEF sync_fails
  <2>2. UNCHANGED syncFailed
    BY <2>1, Zenon DEF Next, begin, load, upsert, delete, mark_paired,
                mark_paired_missing, replace, replace_fails, sync, killed,
                power_loss, storeVars
  <2> QED
    BY <2>1, <2>2
<1>1. ASSUME NEW op \in Operations, begin(op) PROVE BaseOK'
  <2>1. /\ base' = Outcomes /\ target' = Recovered(directory)
        /\ stage' \in {"recover_credentials", "read"}
        /\ UNCHANGED survivors
    BY <1>1 DEF begin, Goes
  <2>2. Outcomes' = Outcomes
    BY <2>1 DEF Outcomes
  <2> QED
    BY <1>0, <2>1, <2>2, OutcomeFacts DEF BaseOK, Recovery
<1>2. CASE load \/ mark_paired_missing \/ killed
  <2>1. stage' = "idle" /\ UNCHANGED <<survivors, base, target>>
    BY <1>2, Zenon DEF load, mark_paired_missing, killed, Goes
  <2>2. Outcomes' = Outcomes
    BY <2>1 DEF Outcomes
  <2> QED
    BY <1>0, <2>1, <2>2 DEF BaseOK, Recovery
<1>3. CASE upsert \/ delete \/ mark_paired
  BY <1>0, <1>3, ReadStep
<1>4. CASE replace
  BY <1>0, <1>4, ReplaceStep
<1>5. CASE replace_fails
  <2>1. /\ stage' = AfterFailure(stage) /\ ~replaced /\ ~replaced'
        /\ UNCHANGED <<directory, survivors, previous, base, target>>
    BY <1>5 DEF replace_fails, Goes
  <2>2. Outcomes' = Outcomes /\ Before' = Before
    BY <2>1 DEF Outcomes, Before
  <2> QED
    BY <1>0, <2>1, <2>2 DEF BaseOK, Recovery, AfterFailure
<1>6. CASE sync
  <2>1. /\ stage' = AfterSuccess(stage) /\ replaced /\ ~replaced' /\ Writing
        /\ survivors' = {directory}
        /\ UNCHANGED <<directory, previous, base, target>>
    BY <1>6 DEF sync, Goes
  <2>2. Outcomes' \subseteq Outcomes /\ Before' = Before
    BY <2>1 DEF Outcomes, Before, StageOK
  <2>3. stage \in Stages \ {"idle", "read"}
    BY <2>1 DEF TypeOK, Writing
  <2> QED
    BY <1>0, <2>1, <2>2, <2>3 DEF BaseOK, Recovery, AfterSuccess, Stages
<1>7. CASE power_loss
  <2>1. stage' = "idle" /\ UNCHANGED <<base, target>>
        /\ survivors' \subseteq survivors
    BY <1>7 DEF power_loss
  <2>2. Outcomes' \subseteq Outcomes
    BY <2>1 DEF Outcomes
  <2> QED
    BY <1>0, <2>1, <2>2 DEF BaseOK, Recovery
<1>8. CASE UNCHANGED storeVars
  BY <1>0, <1>8 DEF storeVars, BaseOK, Outcomes, Before
<1> QED
  BY <1>0, <1>1, <1>2, <1>3, <1>4, <1>5, <1>6, <1>7, <1>8 DEF Next

\* Every step keeps what was reported as stored.
LEMMA DurableStep ==
    ASSUME TypeOK, StageOK, SuccessIsDurable, [Next]_storeVars
    PROVE  SuccessIsDurable'
<1>1. CASE sync
  <2>1. /\ stage' = AfterSuccess(stage) /\ replaced /\ Writing
        /\ survivors' = {directory} /\ UNCHANGED target
        /\ result' = Result(AfterSuccess(stage), stage # "rollback_remove")
    BY <1>1 DEF sync, Goes
  <2>2. Outcomes' = {Recovered(directory)}
    BY <2>1 DEF Outcomes
  <2>3. ASSUME stage' = "idle", result' = "ok" PROVE stage \in {"save", "remove"}
    BY <2>1, <2>3 DEF AfterSuccess, Result, TypeOK, Writing, Stages
  <2> QED
    BY <2>1, <2>2, <2>3, OutcomeFacts DEF SuccessIsDurable
<1>2. CASE \/ \E op \in Operations : begin(op)
           \/ upsert \/ delete \/ mark_paired
  BY <1>2 DEF begin, upsert, delete, mark_paired, Goes, SuccessIsDurable
<1>3. CASE replace_fails \/ sync_fails \/ mark_paired_missing
  BY <1>3 DEF replace_fails, sync_fails, mark_paired_missing, Goes, Result,
              SuccessIsDurable
<1>4. CASE load \/ killed \/ power_loss
  BY <1>4 DEF load, killed, power_loss, Goes, SuccessIsDurable
<1>5. CASE replace
  BY <1>5 DEF replace, Writing, SuccessIsDurable
<1>6. CASE UNCHANGED storeVars
  BY <1>6 DEF storeVars, SuccessIsDurable, Outcomes
<1> QED
  BY <1>1, <1>2, <1>3, <1>4, <1>5, <1>6 DEF Next

\* The invariant holds in every reachable state.
LEMMA StoreInvariance == Spec => []StoreInvariant
<1>1. StoreInvariant /\ [Next]_storeVars => StoreInvariant'
  BY StoreTypes, StageStep, BaseStep, DurableStep DEF StoreInvariant
<1> QED
  BY <1>1, StoreInit, PTL DEF Spec
-----------------------------------------------------------------------------
(* The theorems *)

\* The types of the store and of its operations.
THEOREM StoreTypeCorrect == Spec => []TypeOK
<1>1. StoreInvariant => TypeOK
  BY DEF StoreInvariant
<1> QED
  BY <1>1, StoreInvariance, PTL

\* An operation is all or nothing, wherever it is interrupted and however often
\* (_commit, _recover_transaction).
THEOREM OperationsAreAtomic == Spec => []AtomicOperation
<1>1. StoreInvariant => AtomicOperation
  BY DEF StoreInvariant, BaseOK, AtomicOperation
<1> QED
  BY <1>1, StoreInvariance, PTL

\* Whatever survives tells the same pairings in both files (_commit).
THEOREM OutcomesAlwaysCoherent == Spec => []OutcomesCoherent
<1>1. StoreInvariant => OutcomesCoherent
  BY DEF StoreInvariant, BaseOK, OutcomesCoherent
<1> QED
  BY <1>1, StoreInvariance, PTL

\* What was reported as stored survives power loss, even after failed syncs
\* (_atomic_write, _remove_transaction).
THEOREM SuccessAlwaysDurable == Spec => []SuccessIsDurable
<1>1. StoreInvariant => SuccessIsDurable
  BY DEF StoreInvariant
<1> QED
  BY <1>1, StoreInvariance, PTL
-----------------------------------------------------------------------------
(* Other devices are kept *)

\* What the operation stores differs from something it may have started from
\* in its own device only.
TargetSpares ==
    \E b \in base : \A d \in Devices : Spares(d) => AgreeOn(d, target, b)

OthersInvariant == ~syncFailed => TargetSpares

\* Setting and removing the entry of one device leaves the others.
LEMMA OthersAgree ==
    ASSUME NEW s, NEW k, NEW d, NEW e, NEW v, NEW w, d # e
    PROVE  LET b == [settings |-> s, credentials |-> k]
           IN  /\ AgreeOn(d, [settings |-> With(s, e, v),
                               credentials |-> With(k, e, w)], b)
               /\ AgreeOn(d, [settings |-> Without(s, e),
                               credentials |-> Without(k, e)], b)
               /\ AgreeOn(d, [settings |-> With(s, e, v),
                               credentials |-> k], b)
               /\ AgreeOn(d, b, b)
  BY DEF AgreeOn, With, Without

\* The three operations that write leave the other devices in what they store.
LEMMA OthersRead ==
    ASSUME TypeOK, StageOK, BaseOK, upsert \/ delete \/ mark_paired
    PROVE  TargetSpares'
<1> DEFINE now == [settings |-> directory.settings,
                   credentials |-> directory.credentials]
<1>1. /\ stage = "read" /\ directory.transaction = NoTransaction
      /\ UNCHANGED <<base, operation>> /\ operation.kind # "load"
  BY Zenon DEF upsert, delete, mark_paired, StageOK
<1>2. now \in base'
  <2>1. Recovered(directory) = now
    BY <1>1 DEF Recovered
  <2> QED
    BY <1>1, <2>1, OutcomeFacts DEF BaseOK
<1>3. ASSUME NEW d \in Devices, d # operation.device
      PROVE  AgreeOn(d, target', now)
  <2>1. \/ target' = now
        \/ target' = [settings |-> With(directory.settings, operation.device,
                                        NoPairing),
                      credentials |-> directory.credentials]
        \/ target' = [settings |-> Without(directory.settings,
                                           operation.device),
                      credentials |-> Without(directory.credentials,
                                              operation.device)]
        \/ target' = [settings |-> With(directory.settings, operation.device,
                                        operation.pairing),
                      credentials |-> With(directory.credentials,
                                           operation.device,
                                           operation.pairing)]
    BY Zenon DEF upsert, delete, mark_paired
  <2>2. /\ AgreeOn(d, [settings |-> With(directory.settings, operation.device,
                                         NoPairing),
                       credentials |-> directory.credentials], now)
        /\ AgreeOn(d, now, now)
        /\ AgreeOn(d, [settings |-> Without(directory.settings,
                                            operation.device),
                       credentials |-> Without(directory.credentials,
                                               operation.device)], now)
    BY <1>3, OthersAgree, Zenon
  <2>3. AgreeOn(d, [settings |-> With(directory.settings, operation.device,
                                      operation.pairing),
                    credentials |-> With(directory.credentials,
                                         operation.device,
                                         operation.pairing)], now)
    BY <1>3, OthersAgree, Zenon
  <2> HIDE DEF now
  <2> QED
    BY <2>1, <2>2, <2>3, Zenon
<1>4. \A d \in Devices : Spares(d)' => d # operation.device
  BY <1>1 DEF Spares
<1> HIDE DEF now
<1> QED
  BY <1>2, <1>3, <1>4 DEF TargetSpares

\* Every step leaves the other devices in what the operation stores.
LEMMA OthersStep ==
    ASSUME StoreInvariant, OthersInvariant, [Next]_storeVars
    PROVE  OthersInvariant'
<1> SUFFICES ASSUME ~syncFailed' PROVE TargetSpares'
  BY DEF OthersInvariant
<1>0. TypeOK /\ StageOK
  BY DEF StoreInvariant
<1>1. ASSUME NEW op \in Operations, begin(op) PROVE TargetSpares'
  <2>1. target' \in base'
    BY <1>0, <1>1, OutcomeFacts DEF begin
  <2>2. \A d \in Devices : AgreeOn(d, target', target')
    BY DEF AgreeOn
  <2> QED
    BY <2>1, <2>2 DEF TargetSpares
<1>2. CASE upsert \/ delete \/ mark_paired
  <2>1. ~syncFailed
    BY <1>2, Zenon DEF upsert, delete, mark_paired
  <2> QED
    BY <1>0, <1>2, <2>1, OthersRead DEF StoreInvariant
<1>3. CASE load \/ mark_paired_missing \/ replace \/ replace_fails \/ sync
           \/ killed \/ power_loss \/ UNCHANGED storeVars
  <2>1. UNCHANGED <<operation, target, base, syncFailed>>
    BY <1>3, Zenon DEF load, mark_paired_missing, replace, replace_fails, sync,
                killed, power_loss, storeVars
  <2> QED
    BY <2>1 DEF OthersInvariant, TargetSpares, Spares
<1>4. ~sync_fails
  BY Zenon DEF sync_fails
<1> QED
  BY <1>1, <1>2, <1>3, <1>4 DEF Next

\* An operation on one device leaves every other device as it was when it
\* began, wherever it is interrupted (upsert, delete and mark_paired write the
\* files of all devices).
THEOREM OthersAlwaysKept == Spec => []OtherDevicesKept
<1>1. Init => OthersInvariant
  <2>1. ASSUME Init PROVE target \in base
    BY <2>1 DEF Init, Outcomes
  <2>2. \A d \in Devices : AgreeOn(d, target, target)
    BY DEF AgreeOn
  <2> QED
    BY <2>1, <2>2 DEF OthersInvariant, TargetSpares
<1>2. StoreInvariant /\ OthersInvariant /\ [Next]_storeVars => OthersInvariant'
  BY OthersStep
<1>3. StoreInvariant /\ OthersInvariant => OtherDevicesKept
  <2> SUFFICES ASSUME StoreInvariant, TargetSpares, ~syncFailed,
                      NEW c \in Outcomes
               PROVE  \E b \in base :
                        \A d \in Devices : Spares(d) => AgreeOn(d, c, b)
    BY DEF OthersInvariant, OtherDevicesKept
  <2>1. c \in base \/ c = target
    BY DEF StoreInvariant, BaseOK
  <2>2. \A d \in Devices : AgreeOn(d, c, c)
    BY DEF AgreeOn
  <2> QED
    BY <2>1, <2>2 DEF TargetSpares
<1> QED
  BY <1>1, <1>2, <1>3, StoreInvariance, PTL DEF Spec
=============================================================================
