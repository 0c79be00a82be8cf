------------------------- MODULE HostPairingProofs -------------------------
(***************************************************************************)
(* Pairing on the host keeps the limits of its code and agrees with what   *)
(* is stored, for every lifetime, every set of peers and every adjustment  *)
(* of the wall clock.  It implements PairingContract, and as long as no    *)
(* commit panics a code is single-use.                                     *)
(***************************************************************************)
EXTENDS HostPairing, PairingCodeProofs

\* What the host does to its pairing code is a step of the pairing code, or
\* the process is gone with the code.
LEMMA PairingStep ==
    ASSUME HostTypeOK, [HostNext]_hostVars
    PROVE  \/ [Next]_pairingVars
           \/ Down /\ (uptime' = uptime \/ uptime' = MinUptime)
<1>1. CASE UNCHANGED pairingVars
  BY <1>1
<1>2. ASSUME NEW o \in Sources, pair_start(o) PROVE Next
  <2>1. o \in Origins
    BY DEF Origins
  <2> QED
    BY <1>2, <2>1 DEF pair_start, Next
<1>3. ASSUME NEW s \in Sessions,
             pair_rejected(s) \/ pair_repeated(s) \/ pair_not_saved(s)
      PROVE  Next
  BY <1>3 DEF pair_rejected, pair_repeated, pair_not_saved, Next
<1>4. ASSUME NEW s \in Sessions, NEW k \in Credentials,
             pair_succeeded(s, k) \/ pair_panicked(s, k)
      PROVE  Next
  BY <1>4 DEF pair_succeeded, pair_panicked, Next
<1>5. ASSUME NEW c \in Codes, generate_pairing_code(c) PROVE Next
  BY <1>5 DEF generate_pairing_code, Next
<1>6. CASE run_service
  <2>1. ASSUME NEW c \in Codes, generate(c) PROVE Next
    BY <2>1 DEF Next
  <2>2. CASE /\ disk.pairing_code # NoCode
             /\ from_code_with_age(disk.pairing_code,
                                   persisted_code_age(disk.code_age))
    <3>1. /\ disk.pairing_code \in Codes
          /\ disk.code_age \in WallAges
      BY <2>2 DEF HostTypeOK, HostIdentity
    <3>2. persisted_code_age(disk.code_age) \in Ages
      BY <3>1, LimitsAssumption, HorizonAssumption
      DEF persisted_code_age, WallAges, Ages
    <3> QED
      BY <2>2, <3>1, <3>2 DEF Next
  <2> QED
    BY <1>6, <2>1, <2>2 DEF run_service
<1>7. CASE second
  BY <1>7 DEF second, Next
<1>8. CASE pair_already_paired \/ UNCHANGED hostVars
  BY <1>1, <1>8 DEF pair_already_paired, hostVars
<1>9. ASSUME NEW o \in Sources, pair_admitted(o) \/ pair_start_dropped(o)
       PROVE  UNCHANGED pairingVars
  BY <1>9 DEF pair_admitted, pair_start_dropped
<1>10. ASSUME NEW s \in Sessions, NEW k \in Credentials, pair_crashed(s, k)
       PROVE  Down /\ uptime' = uptime
  BY <1>10 DEF pair_crashed
<1>11. ASSUME NEW c \in Codes, generate_crashed(c)
       PROVE  Down /\ uptime' = uptime
  BY <1>11 DEF generate_crashed
<1>12. CASE crash \/ reboot
  BY <1>12 DEF crash, reboot
<1>13. ASSUME NEW d \in ClockSteps, clock_adjusted(d)
       PROVE  UNCHANGED pairingVars
  BY <1>13 DEF clock_adjusted
<1> QED
  BY <1>1, <1>2, <1>3, <1>4, <1>5, <1>6, <1>7, <1>8, <1>9, <1>10, <1>11,
     <1>12, <1>13
  DEF HostNext

LEMMA HostTypeStep ==
    ASSUME HostTypeOK, [HostNext]_hostVars
    PROVE  TypeOK'
<1>1. TypeOK
  BY DEF HostTypeOK
<1>2. CASE [Next]_pairingVars
  BY <1>1, <1>2, TypeStep
<1>3. CASE Down /\ (uptime' = uptime \/ uptime' = MinUptime)
  <2>1. panicked' \in BOOLEAN
    BY <1>3, Zenon DEF Down, NewCode
  <2> QED
    BY <1>1, <1>3, <2>1, NoSessionsFacts, HorizonAssumption
    DEF TypeOK, Down, NewCode, Uptimes
<1> QED
  BY <1>2, <1>3, PairingStep

\* The passing of time and an adjusted clock move the age of a stored code
\* and nothing else.
LEMMA ShiftedFacts ==
    ASSUME NEW id \in HostIdentity, NEW d \in Int
    PROVE  /\ Shifted(id, d) \in HostIdentity
           /\ Shifted(id, d).credential = id.credential
           /\ Shifted(id, d).pairing_code = id.pairing_code
<1> DEFINE age == IF id.code_age + d > Horizon THEN Horizon
                  ELSE IF id.code_age + d < -Horizon THEN -Horizon
                       ELSE id.code_age + d
<1>1. age \in WallAges
  BY HorizonAssumption DEF HostIdentity, WallAges
<1>2. Shifted(id, d) = [id EXCEPT !.code_age = age]
  BY DEF Shifted
<1> HIDE DEF age
<1> QED
  BY <1>1, <1>2 DEF HostIdentity

\* The identities that pair and generate_pairing_code store.
LEMMA StoredFacts ==
    ASSUME HostTypeOK
    PROVE  /\ \A k \in Credentials : /\ Paired(k) \in HostIdentity
                                     /\ Paired(k).credential = k
                                     /\ Paired(k).pairing_code = NoCode
           /\ \A c \in Codes : /\ WithCode(c) \in HostIdentity
                               /\ WithCode(c).credential = identity.credential
                               /\ WithCode(c).pairing_code = c
<1>1. 0 \in WallAges
  BY HorizonAssumption DEF WallAges
<1> QED
  BY <1>1, Zenon DEF HostTypeOK, HostIdentity, Paired, WithCode

\* The types of the host's state.
THEOREM HostTypeCorrect == HostSpec => []HostTypeOK
<1>1. HostInit => HostTypeOK
  <2> SUFFICES ASSUME HostInit PROVE HostTypeOK
    OBVIOUS
  <2>1. 0 \in Ages /\ 0 \in WallAges
    BY HorizonAssumption DEF Ages, WallAges
  <2>2. TypeOK
    <3>1. panicked \in BOOLEAN
      BY Zenon DEF HostInit
    <3> QED
      BY <2>1, <3>1, NoSessionsFacts DEF HostInit, TypeOK
  <2> QED
    BY <2>1, <2>2 DEF HostInit, HostTypeOK, HostIdentity
<1>2. HostTypeOK /\ [HostNext]_hostVars => HostTypeOK'
  <2> SUFFICES ASSUME HostTypeOK, [HostNext]_hostVars PROVE HostTypeOK'
    OBVIOUS
  <2>1. TypeOK'
    BY HostTypeStep
  <2>2. identity \in HostIdentity /\ disk \in HostIdentity /\ codeAge \in Ages
    BY DEF HostTypeOK
  <2>3. 0 \in Ages /\ Older(codeAge) \in Ages
    BY <2>2, OlderFacts, HorizonAssumption DEF Ages
  <2>4. ASSUME NEW s \in Sessions, NEW k \in Credentials,
               pair_succeeded(s, k) \/ pair_panicked(s, k) \/ pair_crashed(s, k)
        PROVE  HostTypeOK'
    BY <2>1, <2>4, StoredFacts, Zenon
    DEF HostTypeOK, pair_succeeded, pair_panicked, pair_crashed, Down
  <2>5. ASSUME NEW c \in Codes, generate_pairing_code(c) \/ generate_crashed(c)
        PROVE  HostTypeOK'
    BY <2>1, <2>3, <2>5, StoredFacts, Zenon
    DEF HostTypeOK, generate_pairing_code, generate_crashed, Down
  <2>6. CASE second
    BY <2>1, <2>2, <2>3, <2>6, ShiftedFacts DEF HostTypeOK, second
  <2>7. ASSUME NEW d \in ClockSteps, clock_adjusted(d) PROVE HostTypeOK'
    BY <2>1, <2>2, <2>7, ShiftedFacts, ClockStepsAssumption
    DEF HostTypeOK, clock_adjusted
  <2>8. ASSUME NEW s \in Sessions, pair_repeated(s) PROVE HostTypeOK'
    <3>1. completed[s].credential \in Credentials
      BY <2>8, LiveFacts, Zenon
      DEF pair_repeated, finish_completed, HostTypeOK, TypeOK, CompletedPairing
    <3> QED
      BY <2>1, <2>8, <3>1 DEF HostTypeOK, pair_repeated
  <2>9. ASSUME NEW s \in Sessions, pair_rejected(s) \/ pair_not_saved(s)
        PROVE  HostTypeOK'
    BY <2>1, <2>9 DEF HostTypeOK, pair_rejected, pair_not_saved
  <2>10. ASSUME NEW o \in Sources,
                pair_admitted(o) \/ pair_start(o) \/ pair_start_dropped(o)
         PROVE  HostTypeOK'
    BY <2>1, <2>10
    DEF HostTypeOK, pair_admitted, pair_start, pair_start_dropped
  <2>11. CASE crash \/ reboot
    BY <2>1, <2>11, Zenon DEF HostTypeOK, crash, reboot, Down
  <2>12. CASE run_service
    BY <2>1, <2>12 DEF HostTypeOK, run_service
  <2>13. CASE pair_already_paired \/ UNCHANGED hostVars
    BY <2>1, <2>13 DEF HostTypeOK, pair_already_paired, hostVars
  <2> QED
    BY <2>4, <2>5, <2>6, <2>7, <2>8, <2>9, <2>10, <2>11, <2>12, <2>13
    DEF HostNext
<1> QED
  BY <1>1, <1>2, PTL DEF HostSpec

\* Every limit of the pairing code holds on the host that keeps it, through
\* crashes, restarts and handlers that are dropped: the budget of failures,
\* the size of the tables, the lifetime of exchanges, and the code that is
\* spent by a commit (start_for_source, finish and commit of pairing.rs, as
\* the pair handler of server.rs calls them).
THEOREM HostKeepsLimits ==
    HostSpec => [](/\ FailureBudget /\ TrackedSourcesBounded
                   /\ StartedWithinLifetime /\ SpentAfterCommit)
<1>1. HostInit => CodeLimits
  <2>1. HostInit => EmptyTables
    BY NoSessionsFacts DEF HostInit, EmptyTables
  <2> QED
    BY <2>1, EmptyLimits
<1>2. EmptyTables' => CodeLimits'
  BY EmptyLimits, PTL
<1>3. HostTypeOK /\ HostTypeOK' /\ CodeLimits /\ [HostNext]_hostVars
        => CodeLimits'
  <2> SUFFICES ASSUME HostTypeOK, HostTypeOK', CodeLimits, [HostNext]_hostVars
               PROVE  CodeLimits'
    OBVIOUS
  <2>1. CASE [Next]_pairingVars
    BY <2>1, LimitsStep DEF HostTypeOK
  <2>2. CASE Down
    BY <1>2, <2>2, NoSessionsFacts DEF Down, NewCode, EmptyTables
  <2> QED
    BY <2>1, <2>2, PairingStep
<1> QED
  BY <1>1, <1>3, HostTypeCorrect, PTL DEF HostSpec, CodeLimits
-----------------------------------------------------------------------------
(* The inductive invariants *)

\* What holds at every uptime: memory and disk agree, and so do the code on
\* display and the answers kept for retries; a host without a code is paired.
StoredInvariant ==
    /\ identity = disk
    /\ DisplayedCodeIsStored
    /\ RetryAnswersDurable
    /\ running \/ (admitted = {} /\ DOMAIN pending = {})
    /\ disk.pairing_code = NoCode => disk.credential # NoCredential
    /\ panicked => running /\ disk.pairing_code = NoCode

\* What a commit adds that does not panic.
SpentInvariant ==
    (disk.pairing_code = NoCode /\ ~panicked) =>
        DOMAIN pending = {} /\ (Expired \/ admitted = {})

\* The two are the invariant that the run checks.
LEMMA InvariantParts == HostInvariant <=> StoredInvariant /\ SpentInvariant
BY DEF HostInvariant, StoredInvariant, SpentInvariant

\* A step that keeps the stored credential and code and the code in memory,
\* and only drops answers, of a service that goes on running or of none.
LEMMA QuietStep ==
    ASSUME StoredInvariant,
           identity' = disk',
           disk'.credential = disk.credential,
           disk'.pairing_code = disk.pairing_code,
           UNCHANGED <<running, code, panicked>>,
           running \/ (admitted' = {} /\ DOMAIN pending' = {}),
           \A s \in DOMAIN completed' :
                /\ s \in DOMAIN completed
                /\ completed'[s].credential = completed[s].credential
    PROVE  StoredInvariant'
BY DEF StoredInvariant, DisplayedCodeIsStored, RetryAnswersDurable,
       pairing_state

\* The same for a handler, which leaves the identity alone and prunes.
LEMMA HandlerStep ==
    ASSUME StoredInvariant, running,
           UNCHANGED <<running, identity, disk, code, panicked>>,
           Shrinks(completed, completed')
    PROVE  StoredInvariant'
<1>1. identity' = disk'
  BY DEF StoredInvariant
<1> QED
  BY <1>1, QuietStep DEF Shrinks

\* A process that died leaves the stored identity and nothing in memory.
LEMMA DownStep ==
    ASSUME Down, identity' = disk',
           disk'.pairing_code = NoCode => disk'.credential # NoCredential
    PROVE  StoredInvariant' /\ SpentInvariant'
BY NoSessionsFacts
DEF Down, NewCode, StoredInvariant, SpentInvariant, DisplayedCodeIsStored,
    RetryAnswersDurable

\* A commit: the answer kept is the credential stored before it.
LEMMA CommitStep ==
    ASSUME HostTypeOK, NEW s \in Sessions, NEW k \in Credentials,
           running', identity' = Paired(k), disk' = Paired(k), Commit(s, k)
    PROVE  StoredInvariant'
<1>1. /\ identity' = disk'
      /\ disk'.credential = k /\ disk'.pairing_code = NoCode
  BY StoredFacts
<1>2. completed' = [x \in {s} |-> [credential |-> k, elapsed |-> 0]]
  BY DEF Commit
<1>3. \A x \in DOMAIN completed' : completed'[x].credential = k
  BY <1>2
<1> QED
  BY <1>1, <1>3, NoneAssumption
  DEF StoredInvariant, DisplayedCodeIsStored, RetryAnswersDurable,
      pairing_state

\* The passing of time and an adjusted clock.
LEMMA ClockStep ==
    ASSUME HostTypeOK, StoredInvariant,
           second \/ \E d \in ClockSteps : clock_adjusted(d)
    PROVE  /\ identity' = disk'
           /\ disk'.credential = disk.credential
           /\ disk'.pairing_code = disk.pairing_code
           /\ UNCHANGED <<running, code, admitted, panicked>>
           /\ DOMAIN pending' = DOMAIN pending
           /\ \A s \in DOMAIN completed' :
                /\ s \in DOMAIN completed
                /\ completed'[s].credential = completed[s].credential
           /\ Expired => Expired'
<1>1. identity = disk /\ disk \in HostIdentity
  BY DEF StoredInvariant, HostTypeOK
<1>2. CASE second
  <2>1. /\ identity' = disk'
        /\ disk'.credential = disk.credential
        /\ disk'.pairing_code = disk.pairing_code
    BY <1>1, <1>2, ShiftedFacts DEF second
  <2>2. UNCHANGED <<running, code, admitted, panicked>>
    BY <1>2 DEF second, Tick
  <2>3. DOMAIN pending' = DOMAIN pending
    BY <1>2, AgedPending DEF second, Tick, HostTypeOK, TypeOK
  <2>4. \A s \in DOMAIN completed' :
            /\ s \in DOMAIN completed
            /\ completed'[s].credential = completed[s].credential
    <3>1. completed' = Aged(completed)
      BY <1>2 DEF second, Tick
    <3>2. \A s \in DOMAIN completed : completed[s] \in CompletedPairing
      BY DEF HostTypeOK, TypeOK
    <3> QED
      BY <3>1, <3>2 DEF Aged, CompletedPairing
  <2>5. Expired => Expired'
    <3>1. elapsed' = Older(elapsed)
      BY <1>2, Zenon DEF second, Tick
    <3>2. elapsed \in Ages /\ elapsed \in Int /\ PAIRING_LIFETIME \in Int
      BY LimitsAssumption, HorizonAssumption DEF HostTypeOK, TypeOK, Ages
    <3> QED
      BY <3>1, <3>2, OlderFacts DEF Expired, Ages
  <2> QED
    BY <2>1, <2>2, <2>3, <2>4, <2>5
<1>3. ASSUME NEW d \in ClockSteps, clock_adjusted(d)
      PROVE  /\ identity' = disk'
             /\ disk'.credential = disk.credential
             /\ disk'.pairing_code = disk.pairing_code
             /\ UNCHANGED <<pairingVars, running, admitted>>
  BY <1>1, <1>3, ShiftedFacts, ClockStepsAssumption DEF clock_adjusted
<1> QED
  BY <1>2, <1>3 DEF pairingVars, Expired

\* Every step of the host keeps the first, whether a commit panics or not.
LEMMA StoredStep ==
    ASSUME HostTypeOK, StoredInvariant, [HostNext]_hostVars
    PROVE  StoredInvariant'
<1>1. /\ identity = disk
      /\ disk \in HostIdentity
      /\ NoCode \notin Codes
      /\ NoCredential \notin Credentials
  BY NoneAssumption DEF StoredInvariant, HostTypeOK
<1>2. CASE UNCHANGED hostVars
  BY <1>1, <1>2, QuietStep
  DEF hostVars, pairingVars, StoredInvariant
<1>3. CASE pair_already_paired
  BY <1>2, <1>3 DEF pair_already_paired
<1>4. ASSUME NEW o \in Sources, pair_admitted(o) PROVE StoredInvariant'
  BY <1>4, HandlerStep DEF pair_admitted, pairingVars, Shrinks
<1>5. ASSUME NEW o \in Sources, pair_start(o) PROVE StoredInvariant'
  <2>0. running /\ UNCHANGED <<running, identity, disk>>
    BY <1>5 DEF pair_start, StoredInvariant
  <2>1. CASE start_expired
    BY <2>0, <2>1, HandlerStep DEF start_expired, pairingVars, Shrinks
  <2>2. ASSUME NEW wf \in BOOLEAN, start_refused(o, wf) PROVE StoredInvariant'
    BY <2>0, <2>2, HandlerStep, PruneEffect DEF start_refused
  <2>3. ASSUME NEW s \in Sessions, start_for_source(o, s)
        PROVE  StoredInvariant'
    <3>1. Shrinks(completed, completed') /\ UNCHANGED <<code, panicked>>
      BY <2>3, LiveFacts, Zenon DEF start_for_source, Shrinks
    <3> QED
      BY <2>0, <3>1, HandlerStep
  <2> QED
    BY <1>5, <2>1, <2>2, <2>3 DEF pair_start
<1>6. ASSUME NEW o \in Sources, pair_start_dropped(o) PROVE StoredInvariant'
  <2>1. running
    BY <1>6 DEF pair_start_dropped, StoredInvariant
  <2> QED
    BY <1>6, <2>1, HandlerStep DEF pair_start_dropped, pairingVars, Shrinks
<1>7. ASSUME NEW s \in Sessions, pair_rejected(s) PROVE StoredInvariant'
  <2>1. CASE finish_unknown(s) \/ finish_completed(s)
    BY <1>7, <2>1, HandlerStep, PruneEffect
    DEF pair_rejected, finish_unknown, finish_completed
  <2>2. CASE finish_failed(s)
    BY <1>7, <2>2, HandlerStep, FailEffect, Zenon
    DEF pair_rejected, finish_failed
  <2> QED
    BY <1>7, <2>1, <2>2 DEF pair_rejected
<1>8. ASSUME NEW s \in Sessions, pair_repeated(s) \/ pair_not_saved(s)
      PROVE  StoredInvariant'
  BY <1>8, HandlerStep, PruneEffect
  DEF pair_repeated, pair_not_saved, finish_completed, finish_prepared
<1>9. ASSUME NEW s \in Sessions, NEW k \in Credentials,
             pair_succeeded(s, k) \/ pair_panicked(s, k)
      PROVE  StoredInvariant'
  BY <1>9, CommitStep
  DEF pair_succeeded, pair_panicked, finish_committed, commit_panicked
<1>10. ASSUME NEW s \in Sessions, NEW k \in Credentials, pair_crashed(s, k)
       PROVE  StoredInvariant'
  BY <1>1, <1>10, StoredFacts, DownStep DEF pair_crashed
<1>11. ASSUME NEW c \in Codes, generate_pairing_code(c) PROVE StoredInvariant'
  <2>1. /\ identity' = disk' /\ disk'.pairing_code = c
        /\ running' /\ code' = c /\ ~panicked'
        /\ DOMAIN completed' = {}
    BY <1>11, StoredFacts, NoSessionsFacts
    DEF generate_pairing_code, generate, NewCode
  <2> QED
    BY <1>1, <2>1
    DEF StoredInvariant, DisplayedCodeIsStored, RetryAnswersDurable,
        pairing_state
<1>12. ASSUME NEW c \in Codes, generate_crashed(c) PROVE StoredInvariant'
  BY <1>1, <1>12, StoredFacts, DownStep DEF generate_crashed
<1>13. CASE crash \/ reboot
  BY <1>13, DownStep DEF crash, reboot, StoredInvariant
<1>14. CASE run_service
  <2>1. /\ running' /\ identity' = disk' /\ disk' = disk /\ ~panicked'
        /\ DOMAIN completed' = {}
        /\ disk.pairing_code # NoCode => code' = disk.pairing_code
    BY <1>14, NoSessionsFacts
    DEF run_service, from_code_with_age, generate, NewCode
  <2> QED
    BY <2>1
    DEF StoredInvariant, DisplayedCodeIsStored, RetryAnswersDurable,
        pairing_state
<1>15. CASE second \/ \E d \in ClockSteps : clock_adjusted(d)
  BY <1>15, ClockStep, QuietStep DEF StoredInvariant
<1> QED
  BY <1>2, <1>3, <1>4, <1>5, <1>6, <1>7, <1>8, <1>9, <1>10, <1>11, <1>12,
     <1>13, <1>14, <1>15
  DEF HostNext

\* A handler that leaves the stored code alone and starts no exchange.
LEMMA SpentKept ==
    ASSUME SpentInvariant,
           disk'.pairing_code = disk.pairing_code,
           admitted' \subseteq admitted,
           DOMAIN pending' \subseteq DOMAIN pending,
           Expired => Expired',
           UNCHANGED panicked
    PROVE  SpentInvariant'
BY DEF SpentInvariant

\* Every step of the host keeps the second.
LEMMA SpentStep ==
    ASSUME HostTypeOK, StoredInvariant, SpentInvariant, [HostNext]_hostVars
    PROVE  SpentInvariant'
<1>1. identity = disk /\ NoCode \notin Codes
  BY NoneAssumption DEF StoredInvariant
<1>2. CASE pair_already_paired \/ UNCHANGED hostVars
  BY <1>2, SpentKept DEF pair_already_paired, hostVars, pairingVars, Expired
<1>3. ASSUME NEW o \in Sources, pair_admitted(o) PROVE SpentInvariant'
  <2>1. disk'.pairing_code # NoCode
    BY <1>1, <1>3 DEF pair_admitted, AlreadyPaired, StoredInvariant
  <2> QED
    BY <2>1 DEF SpentInvariant
<1>4. ASSUME NEW o \in Sources, pair_start(o) PROVE SpentInvariant'
  <2>0. disk' = disk /\ admitted' \subseteq admitted
    BY <1>4 DEF pair_start
  <2>1. CASE start_expired
    BY <2>0, <2>1, SpentKept DEF start_expired, pairingVars, Expired
  <2>2. ASSUME NEW wf \in BOOLEAN, start_refused(o, wf) PROVE SpentInvariant'
    BY <2>0, <2>2, SpentKept, PruneEffect DEF start_refused, Shrinks, Expired
  <2>3. ASSUME NEW s \in Sessions, start_for_source(o, s) PROVE SpentInvariant'
    BY <1>4, <2>0, <2>3 DEF start_for_source, pair_start, SpentInvariant
  <2> QED
    BY <1>4, <2>1, <2>2, <2>3 DEF pair_start
<1>5. ASSUME NEW o \in Sources, pair_start_dropped(o) PROVE SpentInvariant'
  BY <1>5, SpentKept DEF pair_start_dropped, pairingVars, Expired
<1>6. ASSUME NEW s \in Sessions,
             pair_rejected(s) \/ pair_repeated(s) \/ pair_not_saved(s)
      PROVE  SpentInvariant'
  <2>1. UNCHANGED <<disk, admitted, elapsed, panicked>>
    BY <1>6
    DEF pair_rejected, pair_repeated, pair_not_saved, finish_unknown,
        finish_failed, finish_completed, finish_prepared
  <2>2. DOMAIN pending' \subseteq DOMAIN pending
    BY <1>6, PruneEffect, FailEffect
    DEF pair_rejected, pair_repeated, pair_not_saved, finish_unknown,
        finish_failed, finish_completed, finish_prepared, Shrinks
  <2> QED
    BY <2>1, <2>2, SpentKept DEF Expired
<1>7. ASSUME NEW s \in Sessions, NEW k \in Credentials, pair_succeeded(s, k)
      PROVE  SpentInvariant'
  <2>1. elapsed' = PAIRING_LIFETIME + 1 /\ pending' = NoSessions
    BY <1>7, Zenon DEF pair_succeeded, finish_committed, Commit
  <2>2. Expired'
    BY <2>1, LimitsAssumption DEF Expired
  <2> QED
    BY <2>1, <2>2, NoSessionsFacts DEF SpentInvariant
<1>8. ASSUME NEW s \in Sessions, NEW k \in Credentials, pair_panicked(s, k)
      PROVE  SpentInvariant'
  BY <1>8, Zenon DEF pair_panicked, commit_panicked, SpentInvariant
<1>9. ASSUME NEW s \in Sessions, NEW k \in Credentials, pair_crashed(s, k)
      PROVE  SpentInvariant'
  BY <1>9, NoSessionsFacts DEF pair_crashed, Down, NewCode, SpentInvariant
<1>10. ASSUME NEW c \in Codes, generate_pairing_code(c) \/ generate_crashed(c)
       PROVE  SpentInvariant'
  BY <1>1, <1>10, StoredFacts
  DEF generate_pairing_code, generate_crashed, SpentInvariant
<1>11. CASE crash \/ reboot
  BY <1>11, NoSessionsFacts DEF crash, reboot, Down, NewCode, SpentInvariant
<1>12. CASE run_service
  <2>1. DOMAIN pending' = {}
    BY <1>12, NoSessionsFacts
    DEF run_service, from_code_with_age, generate, NewCode
  <2>2. admitted' = {}
    BY <1>12 DEF run_service, StoredInvariant
  <2> QED
    BY <2>1, <2>2 DEF SpentInvariant
<1>13. CASE second \/ \E d \in ClockSteps : clock_adjusted(d)
  BY <1>13, ClockStep, SpentKept
<1> QED
  BY <1>2, <1>3, <1>4, <1>5, <1>6, <1>7, <1>8, <1>9, <1>10, <1>11, <1>12,
     <1>13
  DEF HostNext

LEMMA StoredInvariance == HostSpec => []StoredInvariant
<1>1. HostInit => StoredInvariant
  BY NoSessionsFacts, NoneAssumption
  DEF HostInit, StoredInvariant, DisplayedCodeIsStored, RetryAnswersDurable,
      pairing_state
<1>2. HostTypeOK /\ StoredInvariant /\ [HostNext]_hostVars => StoredInvariant'
  BY StoredStep
<1> QED
  BY <1>1, <1>2, HostTypeCorrect, PTL DEF HostSpec

\* The code that Host Control shows is the stored one, also on a host that
\* pairs right after boot and whose commit panics (pairing_state,
\* generate_pairing_code, run_service).
THEOREM DisplayAlwaysStored == HostSpec => []DisplayedCodeIsStored
<1>1. StoredInvariant => DisplayedCodeIsStored
  BY DEF StoredInvariant
<1> QED
  BY <1>1, StoredInvariance, PTL

\* A repeated final request is answered with the credential on disk, even
\* after commits that panicked (pair, commit, is_completed).
THEOREM RetriesAlwaysDurable == HostSpec => []RetryAnswersDurable
<1>1. StoredInvariant => RetryAnswersDurable
  BY DEF StoredInvariant
<1> QED
  BY <1>1, StoredInvariance, PTL

\* The invariant holds: memory and disk agree, the displayed code is the
\* stored one, a retry is answered the durable credential, and no exchange
\* outlives its code unless the commit that used it panicked (pair,
\* generate_pairing_code, run_service).
THEOREM HostInvariantHolds == HostSpec => []HostInvariant
<1>1. HostInit => SpentInvariant
  BY NoneAssumption DEF HostInit, SpentInvariant
<1>2. HostTypeOK /\ StoredInvariant /\ SpentInvariant /\ [HostNext]_hostVars
        => SpentInvariant'
  BY SpentStep
<1> QED
  BY <1>1, <1>2, HostTypeCorrect, StoredInvariance, InvariantParts, PTL
  DEF HostSpec
-----------------------------------------------------------------------------
(* The contract *)

\* Every step of the host is a step of the contract, or none.
LEMMA ContractStep ==
    ASSUME HostTypeOK, HostInvariant, [HostNext]_hostVars
    PROVE  [Contract!Next]_Contract!contractVars
<1>1. identity = disk /\ disk \in HostIdentity /\ NoCode \notin Codes
  BY NoneAssumption DEF HostInvariant, HostTypeOK
<1>2. CASE /\ disk'.credential = disk.credential
           /\ disk'.pairing_code = disk.pairing_code
           /\ reply' = reply
           /\ panicked' = panicked
  BY <1>2 DEF Contract!contractVars
<1>3. ASSUME NEW s \in Sessions, NEW k \in Credentials,
             pair_succeeded(s, k) \/ pair_panicked(s, k) \/ pair_crashed(s, k)
      PROVE  Contract!Pair(k)
  <2>1. /\ disk'.credential = k
        /\ disk'.pairing_code = NoCode
        /\ reply' \in {reply, k}
    BY <1>3, StoredFacts DEF pair_succeeded, pair_panicked, pair_crashed
  <2>4. panicked' \in BOOLEAN
    BY <1>3, Zenon
    DEF pair_succeeded, pair_panicked, pair_crashed, finish_committed,
        commit_panicked, Down, NewCode
  <2>2. s \in DOMAIN pending
    BY <1>3, LiveFacts, Zenon
    DEF pair_succeeded, pair_panicked, pair_crashed, finish_committed,
        commit_panicked, Commit
  <2>3. disk.pairing_code # NoCode \/ panicked
    BY <2>2 DEF HostInvariant
  <2> QED
    BY <2>1, <2>3, <2>4 DEF Contract!Pair
<1>4. ASSUME NEW s \in Sessions, pair_repeated(s) PROVE Contract!Answer
  <2>1. s \in DOMAIN completed /\ reply' = completed[s].credential
        /\ disk' = disk /\ panicked' = panicked
    BY <1>4, LiveFacts, Zenon DEF pair_repeated, finish_completed
  <2> QED
    BY <2>1 DEF HostInvariant, RetryAnswersDurable, Contract!Answer
<1>5. ASSUME NEW c \in Codes, generate_pairing_code(c) \/ generate_crashed(c)
      PROVE  Contract!Offer
  BY <1>1, <1>5, StoredFacts
  DEF generate_pairing_code, generate_crashed, generate, Down, NewCode,
      Contract!Offer
<1>6. ASSUME NEW d \in Int, disk' = Shifted(disk, d), UNCHANGED <<reply, panicked>>
      PROVE  [Contract!Next]_Contract!contractVars
  BY <1>1, <1>2, <1>6, ShiftedFacts
<1>7. CASE second
  BY <1>6, <1>7 DEF second, Tick
<1>8. ASSUME NEW d \in ClockSteps, clock_adjusted(d)
      PROVE  [Contract!Next]_Contract!contractVars
  BY <1>6, <1>8, ClockStepsAssumption DEF clock_adjusted, pairingVars
<1>9. CASE UNCHANGED <<disk, reply, panicked>>
  BY <1>2, <1>9
<1>10. ASSUME NEW o \in Sources,
              pair_admitted(o) \/ pair_start(o) \/ pair_start_dropped(o)
       PROVE  UNCHANGED <<disk, reply, panicked>>
  BY <1>10 DEF pair_admitted, pair_start, pair_start_dropped, pairingVars,
               start_expired, start_refused, start_for_source
<1>11. ASSUME NEW s \in Sessions, pair_rejected(s) \/ pair_not_saved(s)
       PROVE  UNCHANGED <<disk, reply, panicked>>
  BY <1>11, Zenon DEF pair_rejected, pair_not_saved, finish_unknown,
                      finish_failed, finish_completed, finish_prepared
<1>12. CASE pair_already_paired \/ UNCHANGED hostVars
  BY <1>9, <1>12 DEF pair_already_paired, hostVars, pairingVars
<1>13. CASE crash \/ reboot
  <2>1. UNCHANGED <<disk, reply>> /\ panicked' = FALSE
    BY <1>13, Zenon DEF crash, reboot, Down, NewCode
  <2>2. Contract!End
    BY <2>1, Zenon DEF Contract!End
  <2> QED
    BY <2>2, Zenon DEF Contract!Next
<1>14. CASE run_service
  <2>1. UNCHANGED <<disk, reply>> /\ panicked' = FALSE /\ ~running
    BY <1>14, Zenon DEF run_service, from_code_with_age, generate, NewCode
  <2>2. panicked = FALSE
    BY <2>1, Zenon DEF HostInvariant, HostTypeOK, TypeOK
  <2> QED
    BY <1>9, <2>1, <2>2
<1> QED
  BY <1>3, <1>4, <1>5, <1>7, <1>8, <1>9, <1>10, <1>11, <1>12, <1>13, <1>14
  DEF HostNext, Contract!Next

\* The pair handler, the management operations, crashes, restarts and clock
\* adjustments together implement PairingContract: the durable credential
\* changes only by using up an outstanding code, or one whose last use
\* panicked, and an answer carries it.
THEOREM HostImplementsContract == HostSpec => HostKeepsContract
<1>1. HostInit => Contract!Init
  BY NoneAssumption DEF HostInit, Contract!Init
<1>2. HostTypeOK /\ HostInvariant /\ [HostNext]_hostVars
        => [Contract!Next]_Contract!contractVars
  BY ContractStep
<1> QED
  BY <1>1, <1>2, HostTypeCorrect, HostInvariantHolds, PTL
  DEF HostSpec, HostKeepsContract, Contract!Spec

\* A code is single-use as long as no commit panics: the credential is
\* replaced only while a code is outstanding (pair and commit).  The
\* hypothesis is needed, as HostSingleUse shows.
THEOREM CodesAreSingleUse == HostSpec /\ []~panicked => CodeIsSingleUse
<1>1. ~panicked /\ [Contract!Next]_Contract!contractVars =>
        (disk'.credential # disk.credential => disk.pairing_code # NoCode)
  BY DEF Contract!Next, Contract!Pair, Contract!Answer, Contract!Offer,
         Contract!End, Contract!contractVars
<1>2. HostTypeOK /\ HostInvariant /\ ~panicked /\ [HostNext]_hostVars
        => [disk'.credential # disk.credential
              => disk.pairing_code # NoCode]_hostVars
  BY <1>1, ContractStep
<1> QED
  BY <1>2, HostTypeCorrect, HostInvariantHolds, PTL
  DEF HostSpec, CodeIsSingleUse
-----------------------------------------------------------------------------
(* Expiry *)

\* Neither the stored age nor the age in memory falls behind the real age of
\* the stored code, until the code is expired.
ExpiryInvariant ==
    disk.pairing_code # NoCode =>
        /\ codeAge <= disk.code_age
        /\ running => Expired \/ codeAge <= elapsed

\* As long as the wall clock is not set back, a code past its lifetime stays
\* expired over any number of crashes and restarts (persisted_code_age and
\* from_code_with_age).
THEOREM ExpirySurvivesRestart ==
    ASSUME \A d \in ClockSteps : d >= 0
    PROVE  HostSpec => []ExpiryIsFinal
<1>1. HostInit => ExpiryInvariant
  BY DEF HostInit, ExpiryInvariant
<1>2. HostTypeOK /\ HostTypeOK' /\ ExpiryInvariant /\ [HostNext]_hostVars
        => ExpiryInvariant'
  <2> SUFFICES ASSUME HostTypeOK, HostTypeOK', ExpiryInvariant,
                      [HostNext]_hostVars, disk'.pairing_code # NoCode
               PROVE  /\ codeAge' <= disk'.code_age
                      /\ running' => Expired' \/ codeAge' <= elapsed'
    BY DEF ExpiryInvariant
  <2>1. /\ disk \in HostIdentity /\ disk.code_age \in WallAges
        /\ codeAge \in Ages /\ elapsed \in Ages
        /\ elapsed' \in Ages
    BY DEF HostTypeOK, HostIdentity, TypeOK
  <2>2. CASE UNCHANGED <<disk, codeAge, running, elapsed>>
    BY <2>2 DEF ExpiryInvariant, Expired
  <2>3. CASE UNCHANGED <<disk, codeAge>> /\ ~running'
    BY <2>3 DEF ExpiryInvariant
  <2>4. ASSUME NEW s \in Sessions, NEW k \in Credentials,
               pair_succeeded(s, k) \/ pair_panicked(s, k) \/ pair_crashed(s, k)
        PROVE  FALSE
    BY <2>4, StoredFacts DEF pair_succeeded, pair_panicked, pair_crashed
  <2>5. ASSUME NEW c \in Codes, generate_pairing_code(c) \/ generate_crashed(c)
        PROVE  codeAge' = 0 /\ disk'.code_age = 0
    <3>1. disk' = WithCode(c) /\ codeAge' = 0
      BY <2>5 DEF generate_pairing_code, generate_crashed
    <3>2. WithCode(c).code_age = 0
      BY DEF WithCode, HostTypeOK, HostIdentity
    <3> QED
      BY <3>1, <3>2
  <2>6. ASSUME NEW d \in Int, d >= 0, disk' = Shifted(disk, d)
        PROVE  /\ disk.pairing_code # NoCode
               /\ disk'.code_age = IF disk.code_age + d > Horizon
                                     THEN Horizon ELSE disk.code_age + d
    <3>1. disk.pairing_code # NoCode
      BY <2>1, <2>6, ShiftedFacts
    <3>2. ~(disk.code_age + d < -Horizon)
      BY <2>1, <2>6, HorizonAssumption DEF WallAges
    <3>3. disk' = [disk EXCEPT !.code_age =
                     IF disk.code_age + d > Horizon THEN Horizon
                                                    ELSE disk.code_age + d]
      BY <2>6, <3>2 DEF Shifted
    <3> QED
      BY <2>1, <3>1, <3>3 DEF HostIdentity
  <2>7. CASE second
    <3>1. disk' = Shifted(disk, 1)
      BY <2>7 DEF second
    <3>2. /\ disk.pairing_code # NoCode
          /\ disk'.code_age = IF disk.code_age + 1 > Horizon
                                THEN Horizon ELSE disk.code_age + 1
      BY <2>6, <3>1
    <3>3. /\ running' = running
          /\ elapsed' = Older(elapsed)
          /\ codeAge' = Older(codeAge)
      BY <2>7 DEF second, Tick
    <3> QED
      BY <2>1, <3>2, <3>3, HorizonAssumption, LimitsAssumption
      DEF ExpiryInvariant, Expired, Older, WallAges, Ages
  <2>8. ASSUME NEW d \in ClockSteps, clock_adjusted(d)
        PROVE  /\ codeAge' <= disk'.code_age
               /\ running' => Expired' \/ codeAge' <= elapsed'
    <3>1. disk' = Shifted(disk, d) /\ d \in Int /\ d >= 0
      BY <2>8, ClockStepsAssumption DEF clock_adjusted
    <3>2. /\ disk.pairing_code # NoCode
          /\ disk'.code_age = IF disk.code_age + d > Horizon
                                THEN Horizon ELSE disk.code_age + d
      BY <2>6, <3>1
    <3>3. UNCHANGED <<running, elapsed, codeAge>>
      BY <2>8 DEF clock_adjusted, pairingVars
    <3> QED
      BY <2>1, <3>1, <3>2, <3>3, HorizonAssumption
      DEF ExpiryInvariant, Expired, WallAges, Ages
  <2>9. CASE run_service
    <3>1. /\ disk' = disk /\ codeAge' = codeAge
          /\ codeAge <= disk.code_age
      BY <2>9 DEF run_service, ExpiryInvariant
    <3>2. elapsed' = CappedAge(persisted_code_age(disk.code_age))
      BY <2>9, <3>1 DEF run_service, from_code_with_age, NewCode
    <3> QED
      BY <2>1, <3>1, <3>2, LimitsAssumption
      DEF CappedAge, persisted_code_age, Expired, WallAges, Ages
  <2>10. ASSUME NEW o \in Sources,
                pair_admitted(o) \/ pair_start(o) \/ pair_start_dropped(o)
         PROVE  UNCHANGED <<disk, codeAge, running, elapsed>>
    BY <2>10
    DEF pair_admitted, pair_start, pair_start_dropped, pairingVars,
        start_expired, start_refused, start_for_source
  <2>11. ASSUME NEW s \in Sessions,
                pair_rejected(s) \/ pair_repeated(s) \/ pair_not_saved(s)
         PROVE  UNCHANGED <<disk, codeAge, running, elapsed>>
    BY <2>11, Zenon
    DEF pair_rejected, pair_repeated, pair_not_saved, finish_unknown,
        finish_failed, finish_completed, finish_prepared
  <2>12. CASE pair_already_paired \/ UNCHANGED hostVars
    BY <2>2, <2>12 DEF pair_already_paired, hostVars, pairingVars
  <2>13. CASE crash \/ reboot
    BY <2>3, <2>13 DEF crash, reboot, Down
  <2>14. ASSUME NEW c \in Codes, generate_pairing_code(c) \/ generate_crashed(c)
         PROVE  /\ codeAge' <= disk'.code_age
                /\ running' => Expired' \/ codeAge' <= elapsed'
    BY <2>1, <2>5, <2>14 DEF Ages
  <2> QED
    BY <2>2, <2>4, <2>7, <2>8, <2>9, <2>10, <2>11, <2>12, <2>13, <2>14
    DEF HostNext
<1>3. HostTypeOK /\ ExpiryInvariant => ExpiryIsFinal
  <2> SUFFICES ASSUME HostTypeOK, ExpiryInvariant, running,
                      disk.pairing_code # NoCode, codeAge > PAIRING_LIFETIME
               PROVE  Expired
    BY Zenon DEF ExpiryIsFinal
  <2>1. elapsed \in Int /\ codeAge \in Int /\ PAIRING_LIFETIME \in Int
    <3>1. elapsed \in Ages /\ codeAge \in Ages
      BY Zenon DEF HostTypeOK, TypeOK
    <3> QED
      BY <3>1, LimitsAssumption DEF Ages
  <2>2. Expired \/ codeAge <= elapsed
    BY Zenon DEF ExpiryInvariant
  <2> QED
    BY <2>1, <2>2 DEF Expired
<1> QED
  BY <1>1, <1>2, <1>3, HostTypeCorrect, PTL DEF HostSpec
=============================================================================
