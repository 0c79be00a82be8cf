------------------------- MODULE PairingCodeProofs -------------------------
(***************************************************************************)
(* The limits of the pairing code, for every value of the limits, every    *)
(* set of peer addresses and every lifetime.                               *)
(***************************************************************************)
EXTENDS PairingCode, FiniteSetTheorems, TLAPS

\* The operators on the session maps, and what they keep of an entry
\* (HashMap::retain, insert and remove, and the passing of time).
LEMMA LiveFacts ==
    ASSUME NEW f
    PROVE  /\ DOMAIN Live(f) = {s \in DOMAIN f : f[s].elapsed <= PAIRING_LIFETIME}
           /\ \A s \in DOMAIN Live(f) : Live(f)[s] = f[s]
BY DEF Live

\* An empty session map has no session.
LEMMA NoSessionsFacts == DOMAIN NoSessions = {}
BY DEF NoSessions

\* An age that grows stays an age.
LEMMA OlderFacts ==
    ASSUME NEW a \in Ages
    PROVE  Older(a) \in Ages /\ Older(a) >= a /\ Older(a) <= a + 1
BY HorizonAssumption DEF Older, Ages

\* One second more leaves the sessions and their other fields alone.
LEMMA AgedPending ==
    ASSUME NEW f, \A s \in DOMAIN f : f[s] \in PendingPairing
    PROVE  /\ DOMAIN Aged(f) = DOMAIN f
           /\ \A s \in DOMAIN f : /\ Aged(f)[s] \in PendingPairing
                                  /\ Aged(f)[s].source = f[s].source
                                  /\ Aged(f)[s].elapsed = Older(f[s].elapsed)
<1>1. DOMAIN Aged(f) = DOMAIN f
  BY DEF Aged
<1>2. ASSUME NEW s \in DOMAIN f
      PROVE  /\ Aged(f)[s] \in PendingPairing
             /\ Aged(f)[s].source = f[s].source
             /\ Aged(f)[s].elapsed = Older(f[s].elapsed)
  <2>1. f[s] \in PendingPairing /\ f[s].elapsed \in Ages
    BY DEF PendingPairing
  <2>2. Older(f[s].elapsed) \in Ages
    BY <2>1, OlderFacts
  <2>3. Aged(f)[s] = [f[s] EXCEPT !.elapsed = Older(f[s].elapsed)]
    BY DEF Aged
  <2> QED
    BY <2>1, <2>2, <2>3 DEF PendingPairing
<1> QED
  BY <1>1, <1>2

\* The same for the completed exchange.
LEMMA AgedCompleted ==
    ASSUME NEW f, \A s \in DOMAIN f : f[s] \in CompletedPairing
    PROVE  /\ DOMAIN Aged(f) = DOMAIN f
           /\ \A s \in DOMAIN f : Aged(f)[s] \in CompletedPairing
<1>1. DOMAIN Aged(f) = DOMAIN f
  BY DEF Aged
<1>2. ASSUME NEW s \in DOMAIN f
      PROVE  Aged(f)[s] \in CompletedPairing
  <2>1. f[s] \in CompletedPairing /\ f[s].elapsed \in Ages
    BY DEF CompletedPairing
  <2>2. Older(f[s].elapsed) \in Ages
    BY <2>1, OlderFacts
  <2>3. Aged(f)[s] = [f[s] EXCEPT !.elapsed = Older(f[s].elapsed)]
    BY DEF Aged
  <2> QED
    BY <2>1, <2>2, <2>3 DEF CompletedPairing
<1> QED
  BY <1>1, <1>2
-----------------------------------------------------------------------------
(* What the operations do to the exchanges *)

\* A map of exchanges that lost some of them and kept the others as they were.
Shrinks(f, g) == DOMAIN g \subseteq DOMAIN f /\ \A s \in DOMAIN g : g[s] = f[s]

\* prune_sessions drops exchanges and changes none.
LEMMA PruneEffect ==
    ASSUME prune_sessions
    PROVE  Shrinks(pending, pending') /\ Shrinks(completed, completed')
<1>1. Shrinks(pending, Live(pending)) /\ Shrinks(completed, Live(completed))
  BY LiveFacts, Zenon DEF Shrinks
<1> QED
  BY <1>1 DEF prune_sessions

\* start_for_source adds one exchange of the source to the live ones.
LEMMA StartEffect ==
    ASSUME NEW o, NEW s, start_for_source(o, s)
    PROVE  /\ s \notin DOMAIN pending
           /\ DOMAIN Live(pending) \subseteq DOMAIN pending
           /\ DOMAIN pending' = DOMAIN Live(pending) \cup {s}
           /\ pending'[s] = [source |-> o, elapsed |-> 0]
           /\ \A x \in DOMAIN Live(pending) : pending'[x] = pending[x]
           /\ Shrinks(completed, completed')
<1> DEFINE e == [source |-> o, elapsed |-> 0]
<1>1. /\ s \notin DOMAIN pending
      /\ pending' = Insert(Live(pending), s, e)
      /\ completed' = Live(completed)
  BY DEF start_for_source
<1>2. /\ DOMAIN Live(pending) \subseteq DOMAIN pending
      /\ \A x \in DOMAIN Live(pending) : Live(pending)[x] = pending[x]
  BY LiveFacts, Zenon
<1>3. Shrinks(completed, Live(completed))
  BY LiveFacts, Zenon DEF Shrinks
<1> HIDE DEF e
<1>4. /\ DOMAIN pending' = DOMAIN Live(pending) \cup {s}
      /\ pending'[s] = e
      /\ \A x \in DOMAIN Live(pending) : x # s => pending'[x] = Live(pending)[x]
  BY <1>1 DEF Insert
<1> QED
  BY <1>1, <1>2, <1>3, <1>4 DEF e

\* A failed confirmation takes its exchange out of the live ones.
LEMMA FailEffect ==
    ASSUME NEW s, finish_failed(s)
    PROVE  /\ s \in DOMAIN pending
           /\ s \notin DOMAIN pending'
           /\ Shrinks(pending, pending')
           /\ Shrinks(completed, completed')
<1>1. /\ s \in DOMAIN Live(pending)
      /\ pending' = Remove(Live(pending), s)
      /\ completed' = Live(completed)
  BY DEF finish_failed
<1>2. /\ DOMAIN Live(pending) \subseteq DOMAIN pending
      /\ \A x \in DOMAIN Live(pending) : Live(pending)[x] = pending[x]
  BY LiveFacts, Zenon
<1>3. Shrinks(completed, Live(completed))
  BY LiveFacts, Zenon DEF Shrinks
<1>4. /\ DOMAIN pending' = DOMAIN Live(pending) \ {s}
      /\ \A x \in DOMAIN Live(pending) \ {s} : pending'[x] = Live(pending)[x]
  BY <1>1 DEF Remove
<1> QED
  BY <1>1, <1>2, <1>3, <1>4 DEF Shrinks
-----------------------------------------------------------------------------
(* Type correctness *)

\* Maps that shrink stay well typed.
LEMMA ShrinkType ==
    ASSUME TypeOK, Shrinks(pending, pending'), Shrinks(completed, completed')
    PROVE  /\ DOMAIN pending' \subseteq Sessions
           /\ \A s \in DOMAIN pending' : pending'[s] \in PendingPairing
           /\ DOMAIN completed' \subseteq Sessions
           /\ \A s \in DOMAIN completed' : completed'[s] \in CompletedPairing
BY DEF TypeOK, Shrinks

\* A new code starts with every map empty.
LEMMA NewCodeType ==
    ASSUME TypeOK, NEW c \in Codes, NEW age \in Ages,
           NewCode(c, age), UNCHANGED uptime
    PROVE  TypeOK'
<1>1. panicked' \in BOOLEAN
  BY Zenon DEF NewCode
<1> QED
  BY <1>1, NoSessionsFacts DEF TypeOK, NewCode

\* Every operation keeps the types.
LEMMA TypeStep ==
    ASSUME TypeOK, [Next]_pairingVars
    PROVE  TypeOK'
<1>1. ASSUME NEW c \in Codes, generate(c) \/ regenerate(c) PROVE TypeOK'
  <2>1. 0 \in Ages
    BY HorizonAssumption DEF Ages
  <2> QED
    BY <1>1, <2>1, NewCodeType DEF generate, regenerate
<1>2. ASSUME NEW c \in Codes, NEW age \in Ages, from_code_with_age(c, age)
      PROVE TypeOK'
  <2>1. CappedAge(age) \in Ages
    BY LimitsAssumption, HorizonAssumption DEF CappedAge, Ages
  <2> QED
    BY <1>2, <2>1, NewCodeType DEF from_code_with_age
<1>3. CASE start_expired
  BY <1>3 DEF start_expired, pairingVars, TypeOK
<1>4. ASSUME NEW o \in Origins, NEW wf \in BOOLEAN, start_refused(o, wf)
      PROVE TypeOK'
  BY <1>4, PruneEffect, ShrinkType DEF start_refused, TypeOK
<1>5. ASSUME NEW o \in Origins, NEW s \in Sessions, start_for_source(o, s)
      PROVE TypeOK'
  <2>1. [source |-> o, elapsed |-> 0] \in PendingPairing
    BY HorizonAssumption DEF PendingPairing, Ages
  <2>2. /\ DOMAIN pending' \subseteq Sessions
        /\ \A x \in DOMAIN pending' : pending'[x] \in PendingPairing
    <3>1. /\ DOMAIN Live(pending) \subseteq DOMAIN pending
          /\ DOMAIN pending' = DOMAIN Live(pending) \cup {s}
          /\ pending'[s] \in PendingPairing
          /\ \A x \in DOMAIN Live(pending) : pending'[x] = pending[x]
      BY <1>5, <2>1, StartEffect, Zenon
    <3> QED
      BY <3>1 DEF TypeOK
  <2>3. /\ DOMAIN completed' \subseteq Sessions
        /\ \A x \in DOMAIN completed' : completed'[x] \in CompletedPairing
    BY <1>5, StartEffect, Zenon DEF TypeOK, Shrinks
  <2> QED
    BY <1>5, <2>2, <2>3 DEF start_for_source, TypeOK
<1>6. ASSUME NEW s \in Sessions,
             finish_completed(s) \/ finish_unknown(s) \/ finish_prepared(s)
      PROVE TypeOK'
  BY <1>6, PruneEffect, ShrinkType, SMTT(30)
  DEF finish_completed, finish_unknown, finish_prepared, TypeOK
<1>7. ASSUME NEW s \in Sessions, finish_failed(s) PROVE TypeOK'
  <2>1. /\ DOMAIN pending' \subseteq Sessions
        /\ \A x \in DOMAIN pending' : pending'[x] \in PendingPairing
        /\ DOMAIN completed' \subseteq Sessions
        /\ \A x \in DOMAIN completed' : completed'[x] \in CompletedPairing
    BY <1>7, FailEffect, ShrinkType
  <2>2. failures' \in [Origins -> 0..255]
    <3>1. \A n \in 0..255 : saturating_add(n) \in 0..255
      BY DEF saturating_add
    <3> QED
      BY <1>7, <3>1, Zenon DEF finish_failed, TypeOK
  <2> QED
    BY <1>7, <2>1, <2>2, Zenon DEF finish_failed, TypeOK
<1>8. ASSUME NEW s \in Sessions, NEW k \in Credentials,
             finish_committed(s, k) \/ commit_panicked(s, k)
      PROVE TypeOK'
  <2>1. PAIRING_LIFETIME + 1 \in Ages /\ 0 \in Ages
    BY LimitsAssumption, HorizonAssumption DEF Ages
  <2>2. [credential |-> k, elapsed |-> 0] \in CompletedPairing
    BY <2>1 DEF CompletedPairing
  <2> QED
    BY <1>8, <2>1, <2>2, NoSessionsFacts, ZenonT(40)
    DEF finish_committed, commit_panicked, Commit, TypeOK
<1>9. CASE Tick
  <2>1. uptime' \in MinUptime..(Horizon - 1) /\ elapsed' \in Ages
    BY <1>9, HorizonAssumption, OlderFacts DEF Tick, Older, Ages, Uptimes, TypeOK
  <2>2. /\ DOMAIN pending' \subseteq Sessions
        /\ \A x \in DOMAIN pending' : pending'[x] \in PendingPairing
    BY <1>9, AgedPending DEF Tick, TypeOK
  <2>3. /\ DOMAIN completed' \subseteq Sessions
        /\ \A x \in DOMAIN completed' : completed'[x] \in CompletedPairing
    BY <1>9, AgedCompleted DEF Tick, TypeOK
  <2> QED
    BY <1>9, <2>1, <2>2, <2>3 DEF Tick, TypeOK
<1>10. CASE UNCHANGED pairingVars
  BY <1>10 DEF pairingVars, TypeOK
<1> QED
  BY <1>1, <1>2, <1>3, <1>4, <1>5, <1>6, <1>7, <1>8, <1>9, <1>10 DEF Next

\* The type invariant of the pairing code.
THEOREM TypeCorrect == Spec => []TypeOK
<1>1. Init => TypeOK
  <2> SUFFICES ASSUME Init PROVE TypeOK
    OBVIOUS
  <2>1. PICK c \in Codes, age \in 0..(PAIRING_LIFETIME + 1) :
          /\ uptime \in MinUptime..(Horizon - 1)
          /\ code = c
          /\ elapsed = age
          /\ failures = [o \in Origins |-> 0]
          /\ pending = NoSessions
          /\ completed = NoSessions
          /\ panicked = FALSE
    BY DEF Init
  <2>2. elapsed \in Ages
    BY <2>1, LimitsAssumption, HorizonAssumption DEF Ages
  <2>3. panicked \in BOOLEAN
    BY <2>1, Zenon
  <2>4. failures \in [Origins -> 0..255]
    BY <2>1
  <2> QED
    BY <2>1, <2>2, <2>3, <2>4, NoSessionsFacts DEF TypeOK
<1>2. TypeOK /\ [Next]_pairingVars => TypeOK'
  BY TypeStep
<1> QED
  BY <1>1, <1>2, PTL DEF Spec
-----------------------------------------------------------------------------
(* The failure budget *)

\* One element more is at most one more.
LEMMA AddBound ==
    ASSUME NEW S, NEW x, IsFiniteSet(S)
    PROVE  /\ Cardinality(S \cup {x}) <= Cardinality(S) + 1
           /\ Cardinality(S \cup {x}) \in Nat
<1>1. Cardinality(S \cup {x}) = IF x \in S THEN Cardinality(S)
                                            ELSE Cardinality(S) + 1
  BY FS_AddElement
<1>2. Cardinality(S) \in Nat
  BY FS_CardinalityType
<1> QED
  BY <1>1, <1>2

\* The exchanges of a source are finitely many.
LEMMA FinitePending ==
    ASSUME TypeOK
    PROVE  /\ IsFiniteSet(DOMAIN pending)
           /\ \A o : /\ IsFiniteSet(PendingOf(o))
                     /\ Cardinality(PendingOf(o)) \in Nat
                     /\ Cardinality(PendingOf(o)) <= Cardinality(DOMAIN pending)
<1>1. IsFiniteSet(DOMAIN pending)
  BY SessionsAssumption, FS_Subset DEF TypeOK
<1>2. ASSUME NEW o
      PROVE  /\ IsFiniteSet(PendingOf(o))
             /\ Cardinality(PendingOf(o)) \in Nat
             /\ Cardinality(PendingOf(o)) <= Cardinality(DOMAIN pending)
  <2>1. PendingOf(o) \in SUBSET DOMAIN pending
    BY DEF PendingOf, Of
  <2> QED
    BY <1>1, <2>1, FS_Subset, FS_CardinalityType
<1> QED
  BY <1>1, <1>2

\* Losing exchanges, with nothing counted, keeps a source within its budget.
LEMMA ShrinkBudget ==
    ASSUME TypeOK, TypeOK', FailureBudget,
           Shrinks(pending, pending'), UNCHANGED failures
    PROVE  FailureBudget'
<1> SUFFICES ASSUME NEW o \in Origins
             PROVE  failures'[o] + Cardinality(PendingOf(o)')
                      <= MAX_CONFIRMATION_FAILURES - 1 + SessionLimit(o)
  BY DEF FailureBudget, SessionLimit
<1>1. PendingOf(o)' \in SUBSET PendingOf(o)
  BY DEF PendingOf, Of, Shrinks
<1>2. /\ Cardinality(PendingOf(o)') <= Cardinality(PendingOf(o))
      /\ Cardinality(PendingOf(o)') \in Nat
      /\ Cardinality(PendingOf(o)) \in Nat
  BY <1>1, FinitePending, FS_Subset, FS_CardinalityType
<1>3. failures[o] + Cardinality(PendingOf(o))
        <= MAX_CONFIRMATION_FAILURES - 1 + SessionLimit(o)
  BY DEF FailureBudget
<1>4. failures[o] \in Nat /\ failures'[o] = failures[o]
  BY DEF TypeOK
<1>5. SessionLimit(o) \in Nat
  BY LimitsAssumption DEF SessionLimit
<1> QED
  BY <1>2, <1>3, <1>4, <1>5, LimitsAssumption

\* A code without failures and exchanges is within every budget.
LEMMA FreshBudget ==
    ASSUME failures = [o \in Origins |-> 0], DOMAIN pending = {}
    PROVE  FailureBudget
<1> SUFFICES ASSUME NEW o \in Origins
             PROVE  failures[o] + Cardinality(PendingOf(o))
                      <= MAX_CONFIRMATION_FAILURES - 1 + SessionLimit(o)
  BY DEF FailureBudget
<1>1. PendingOf(o) = {}
  BY DEF PendingOf, Of
<1>2. Cardinality(PendingOf(o)) = 0 /\ failures[o] = 0
  BY <1>1, FS_EmptySet
<1> QED
  BY <1>2, LimitsAssumption DEF SessionLimit

\* start_for_source: the source is below the failure limit and below its
\* limit of exchanges, so one exchange more fits the budget.
LEMMA StartBudget ==
    ASSUME TypeOK, TypeOK', FailureBudget,
           NEW src \in Origins, NEW s \in Sessions, start_for_source(src, s)
    PROVE  FailureBudget'
<1> SUFFICES ASSUME NEW o \in Origins
             PROVE  failures'[o] + Cardinality(PendingOf(o)')
                      <= MAX_CONFIRMATION_FAILURES - 1 + SessionLimit(o)
  BY DEF FailureBudget, SessionLimit
<1>1. failures' = failures /\ failures[o] \in Nat
  BY DEF start_for_source, TypeOK
<1>2. SessionLimit(o) \in Nat
  BY LimitsAssumption DEF SessionLimit
<1>3. /\ s \notin DOMAIN pending
      /\ DOMAIN Live(pending) \subseteq DOMAIN pending
      /\ DOMAIN pending' = DOMAIN Live(pending) \cup {s}
      /\ pending'[s].source = src
      /\ \A x \in DOMAIN Live(pending) : pending'[x] = pending[x]
  <2>1. pending'[s] = [source |-> src, elapsed |-> 0]
    BY StartEffect, Zenon
  <2>2. pending'[s].source = src
    BY <2>1
  <2> QED
    BY <2>2, StartEffect, Zenon
<1>4. CASE o # src
  <2>1. PendingOf(o)' \in SUBSET PendingOf(o)
    BY <1>3, <1>4 DEF PendingOf, Of
  <2>2. /\ Cardinality(PendingOf(o)') <= Cardinality(PendingOf(o))
        /\ Cardinality(PendingOf(o)') \in Nat
        /\ Cardinality(PendingOf(o)) \in Nat
    BY <2>1, FinitePending, FS_Subset, FS_CardinalityType
  <2>3. failures[o] + Cardinality(PendingOf(o))
          <= MAX_CONFIRMATION_FAILURES - 1 + SessionLimit(o)
    BY DEF FailureBudget
  <2> QED
    BY <1>1, <1>2, <2>2, <2>3, LimitsAssumption
<1>5. CASE o = src
  <2> DEFINE held == Of(Live(pending), src)
  <2>1. held \in SUBSET DOMAIN Live(pending) /\ held \in SUBSET Sessions
    BY <1>3 DEF Of, TypeOK
  <2>2. /\ IsFiniteSet(held)
        /\ Cardinality(held) \in Nat
        /\ Cardinality(DOMAIN Live(pending)) \in Nat
        /\ Cardinality(held) <= Cardinality(DOMAIN Live(pending))
    <3>1. IsFiniteSet(DOMAIN Live(pending))
      BY <1>3, FinitePending, FS_Subset
    <3> QED
      BY <2>1, <3>1, FS_Subset, FS_CardinalityType
  <2>3. PendingOf(o)' = held \cup {s}
    <3>1. \A x \in DOMAIN Live(pending) : Live(pending)[x] = pending[x]
      BY LiveFacts, Zenon
    <3> QED
      BY <1>3, <1>5, <3>1 DEF PendingOf, Of
  <2>4. /\ Cardinality(PendingOf(o)') <= Cardinality(held) + 1
        /\ Cardinality(PendingOf(o)') \in Nat
    BY <2>2, <2>3, AddBound, Zenon
  <2>5. /\ failures[src] < MAX_CONFIRMATION_FAILURES
        /\ Cardinality(DOMAIN Live(pending)) < MAX_PENDING_SESSIONS
        /\ src # NoSource => Cardinality(held) < MAX_PENDING_SESSIONS_PER_SOURCE
    <3>1. ~RateLimited(src)
      BY DEF start_for_source
    <3> QED
      BY <1>1, <1>5, <2>2, <3>1, LimitsAssumption DEF RateLimited
  <2>6. Cardinality(held) + 1 <= SessionLimit(o)
    BY <1>5, <2>2, <2>5, LimitsAssumption DEF SessionLimit
  <2> HIDE DEF held
  <2> QED
    BY <1>1, <1>2, <1>5, <2>2, <2>4, <2>5, <2>6, LimitsAssumption
<1> QED
  BY <1>4, <1>5

\* A failed confirmation moves one exchange of its source to its failures.
LEMMA FailBudget ==
    ASSUME TypeOK, TypeOK', FailureBudget,
           NEW s \in Sessions, finish_failed(s)
    PROVE  FailureBudget'
<1> SUFFICES ASSUME NEW o \in Origins
             PROVE  failures'[o] + Cardinality(PendingOf(o)')
                      <= MAX_CONFIRMATION_FAILURES - 1 + SessionLimit(o)
  BY DEF FailureBudget, SessionLimit
<1> DEFINE src == pending[s].source
<1>1. /\ s \in DOMAIN pending
      /\ s \notin DOMAIN pending'
      /\ Shrinks(pending, pending')
  BY FailEffect
<1>2. src \in Origins
  BY <1>1 DEF TypeOK, PendingPairing
<1>3. failures[o] + Cardinality(PendingOf(o))
        <= MAX_CONFIRMATION_FAILURES - 1 + SessionLimit(o)
  BY DEF FailureBudget
<1>4. SessionLimit(o) \in Nat /\ failures[o] \in Nat /\ failures'[o] \in Nat
  BY LimitsAssumption DEF SessionLimit, TypeOK
<1>5. /\ IsFiniteSet(PendingOf(o))
      /\ Cardinality(PendingOf(o)) \in Nat
  BY FinitePending
<1>6. CASE o # src
  <2>1. failures'[o] = failures[o]
    BY <1>2, <1>6, Zenon DEF finish_failed, TypeOK
  <2>2. PendingOf(o)' \in SUBSET PendingOf(o)
    BY <1>1 DEF PendingOf, Of, Shrinks
  <2>3. /\ Cardinality(PendingOf(o)') <= Cardinality(PendingOf(o))
        /\ Cardinality(PendingOf(o)') \in Nat
    BY <1>5, <2>2, FS_Subset, FS_CardinalityType
  <2> QED
    BY <1>3, <1>4, <1>5, <2>1, <2>3, LimitsAssumption
<1>7. CASE o = src
  <2>1. failures'[o] <= failures[o] + 1
    <3>1. failures'[o] = saturating_add(failures[o])
      BY <1>2, <1>7, Zenon DEF finish_failed, TypeOK
    <3> QED
      BY <1>4, <3>1 DEF saturating_add
  <2>2. /\ PendingOf(o)' \in SUBSET (PendingOf(o) \ {s})
        /\ s \in PendingOf(o)
    BY <1>1, <1>7 DEF PendingOf, Of, Shrinks
  <2>3. /\ IsFiniteSet(PendingOf(o) \ {s})
        /\ Cardinality(PendingOf(o) \ {s}) = Cardinality(PendingOf(o)) - 1
    BY <1>5, <2>2, FS_RemoveElement
  <2>4. /\ Cardinality(PendingOf(o)') <= Cardinality(PendingOf(o)) - 1
        /\ Cardinality(PendingOf(o)') \in Nat
    BY <2>2, <2>3, FS_Subset, FS_CardinalityType
  <2> QED
    BY <1>3, <1>4, <1>5, <2>1, <2>4, LimitsAssumption
<1> QED
  BY <1>6, <1>7

\* A step either empties the tables, or drops exchanges and counts nothing,
\* or starts an exchange, or fails one.
LEMMA StepKinds ==
    ASSUME TypeOK, [Next]_pairingVars
    PROVE  \/ failures' = [o \in Origins |-> 0] /\ DOMAIN pending' = {}
           \/ Shrinks(pending, pending') /\ UNCHANGED failures
           \/ \E o \in Origins, s \in Sessions : start_for_source(o, s)
           \/ \E s \in Sessions : finish_failed(s)
           \/ Tick
<1>1. ASSUME NEW c, NEW age, NewCode(c, age)
      PROVE  failures' = [o \in Origins |-> 0] /\ DOMAIN pending' = {}
  BY <1>1, NoSessionsFacts DEF NewCode
<1>2. CASE prune_sessions /\ UNCHANGED failures
  BY <1>2, PruneEffect
<1>3. ASSUME NEW s, NEW k, Commit(s, k)
      PROVE  Shrinks(pending, pending') /\ UNCHANGED failures
  BY <1>3, NoSessionsFacts DEF Commit, Shrinks
<1>4. CASE UNCHANGED pairingVars
  BY <1>4 DEF pairingVars, Shrinks
<1> QED
  BY <1>1, <1>2, <1>3, <1>4
  DEF Next, generate, regenerate, from_code_with_age, start_expired,
      start_refused, finish_completed, finish_unknown, finish_prepared,
      finish_committed, commit_panicked

\* Every step keeps the budget.
LEMMA BudgetStep ==
    ASSUME TypeOK, TypeOK', FailureBudget, [Next]_pairingVars
    PROVE  FailureBudget'
<1>1. CASE failures' = [o \in Origins |-> 0] /\ DOMAIN pending' = {}
  <2> SUFFICES ASSUME NEW o \in Origins
               PROVE  failures'[o] + Cardinality(PendingOf(o)')
                        <= MAX_CONFIRMATION_FAILURES - 1 + SessionLimit(o)
    BY DEF FailureBudget, SessionLimit
  <2>1. PendingOf(o)' = {}
    BY <1>1 DEF PendingOf, Of
  <2>2. Cardinality(PendingOf(o)') = 0 /\ failures'[o] = 0
    BY <1>1, <2>1, FS_EmptySet
  <2> QED
    BY <2>2, LimitsAssumption DEF SessionLimit
<1>2. CASE Shrinks(pending, pending') /\ UNCHANGED failures
  BY <1>2, ShrinkBudget
<1>3. ASSUME NEW o \in Origins, NEW s \in Sessions, start_for_source(o, s)
      PROVE  FailureBudget'
  BY <1>3, StartBudget
<1>4. ASSUME NEW s \in Sessions, finish_failed(s)
      PROVE  FailureBudget'
  BY <1>4, FailBudget
<1>5. CASE Tick
  <2> SUFFICES ASSUME NEW o \in Origins
               PROVE  failures'[o] + Cardinality(PendingOf(o)')
                        <= MAX_CONFIRMATION_FAILURES - 1 + SessionLimit(o)
    BY DEF FailureBudget, SessionLimit
  <2>1. PendingOf(o)' = PendingOf(o)
    BY <1>5, AgedPending DEF Tick, TypeOK, PendingOf, Of
  <2>2. failures' = failures
    BY <1>5 DEF Tick
  <2> QED
    BY <2>1, <2>2 DEF FailureBudget
<1> QED
  BY <1>1, <1>2, <1>3, <1>4, <1>5, StepKinds

\* Failed confirmations and pending exchanges of a source share one budget
\* (start_for_source and finish of pairing.rs).
THEOREM FailuresWithinBudget == Spec => []FailureBudget
<1>1. Init => FailureBudget
  <2> SUFFICES ASSUME Init PROVE FailureBudget
    OBVIOUS
  <2>1. failures = [o \in Origins |-> 0] /\ DOMAIN pending = {}
    BY NoSessionsFacts DEF Init
  <2> QED
    BY <2>1, FreshBudget
<1>2. TypeOK /\ TypeOK' /\ FailureBudget /\ [Next]_pairingVars
        => FailureBudget'
  BY BudgetStep
<1> QED
  BY <1>1, <1>2, TypeCorrect, PTL DEF Spec
-----------------------------------------------------------------------------
(* Lifetimes *)

\* Every step keeps exchanges within the lifetime of their code.
LEMMA LifetimeStep ==
    ASSUME TypeOK, StartedWithinLifetime, [Next]_pairingVars
    PROVE  StartedWithinLifetime'
<1> SUFFICES ASSUME NEW s \in DOMAIN Live(pending')
             PROVE  elapsed' - pending'[s].elapsed \in 0..PAIRING_LIFETIME
  BY DEF StartedWithinLifetime, Live
<1> USE DEF Ages
<1>1. s \in DOMAIN pending' /\ pending'[s].elapsed <= PAIRING_LIFETIME
  BY LiveFacts, Zenon
<1>2. \A x \in DOMAIN pending :
          pending[x].elapsed <= PAIRING_LIFETIME
            => elapsed - pending[x].elapsed \in 0..PAIRING_LIFETIME
  BY LiveFacts, Zenon DEF StartedWithinLifetime
<1>3. CASE Shrinks(pending, pending') /\ UNCHANGED elapsed
  BY <1>1, <1>2, <1>3 DEF Shrinks
<1>4. CASE DOMAIN pending' = {}
  BY <1>1, <1>4
<1>5. ASSUME NEW o \in Origins, NEW x \in Sessions, start_for_source(o, x)
      PROVE  elapsed' - pending'[s].elapsed \in 0..PAIRING_LIFETIME
  <2>1. elapsed' = elapsed /\ elapsed \in 0..PAIRING_LIFETIME
    BY <1>5, LimitsAssumption, HorizonAssumption
    DEF start_for_source, Expired, TypeOK
  <2>2. CASE s = x
    <3>1. pending'[s] = [source |-> o, elapsed |-> 0]
      BY <1>5, <2>2, StartEffect, Zenon
    <3>2. pending'[s].elapsed = 0
      BY <3>1
    <3> QED
      BY <2>1, <3>2
  <2>3. CASE s # x
    <3>1. s \in DOMAIN pending /\ pending'[s] = pending[s]
      <4>1. DOMAIN pending' = DOMAIN Live(pending) \cup {x}
        BY <1>5, StartEffect, Zenon
      <4>2. s \in DOMAIN Live(pending)
        BY <1>1, <2>3, <4>1
      <4> QED
        BY <1>5, <4>2, StartEffect, Zenon
    <3> QED
      BY <1>1, <1>2, <2>1, <3>1
  <2> QED
    BY <2>2, <2>3
<1>6. CASE Tick
  <2>1. /\ s \in DOMAIN pending
        /\ pending[s].elapsed \in Ages
        /\ pending'[s].elapsed = Older(pending[s].elapsed)
    <3>1. \A x \in DOMAIN pending : pending[x] \in PendingPairing
      BY DEF TypeOK
    <3>2. pending' = Aged(pending)
      BY <1>6 DEF Tick
    <3>3. s \in DOMAIN pending
      BY <1>1, <3>1, <3>2, AgedPending
    <3> QED
      BY <3>1, <3>2, <3>3, AgedPending DEF PendingPairing
  <2>2. pending'[s].elapsed = pending[s].elapsed + 1
    BY <1>1, <2>1, LimitsAssumption, HorizonAssumption DEF Older
  <2>3. elapsed - pending[s].elapsed \in 0..PAIRING_LIFETIME
    BY <1>1, <1>2, <2>1, <2>2, LimitsAssumption
  <2>4. elapsed \in Ages /\ elapsed' = Older(elapsed)
    BY <1>6 DEF Tick, TypeOK
  <2>5. elapsed' = elapsed + 1
    BY <1>1, <2>1, <2>2, <2>3, <2>4, LimitsAssumption, HorizonAssumption
    DEF Older
  <2> QED
    BY <2>1, <2>2, <2>3, <2>4, <2>5, LimitsAssumption
<1>7. ASSUME NEW x \in Sessions, finish_failed(x)
      PROVE  Shrinks(pending, pending') /\ UNCHANGED elapsed
  BY <1>7, FailEffect, Zenon DEF finish_failed
<1>8. ASSUME NEW c, NEW age, NewCode(c, age)
      PROVE  DOMAIN pending' = {}
  BY <1>8, NoSessionsFacts DEF NewCode
<1>9. ASSUME NEW x, NEW k, Commit(x, k)
      PROVE  DOMAIN pending' = {}
  BY <1>9, NoSessionsFacts DEF Commit
<1>10. CASE prune_sessions /\ UNCHANGED elapsed
  BY <1>3, <1>10, PruneEffect
<1>11. CASE UNCHANGED pairingVars
  BY <1>3, <1>11 DEF pairingVars, Shrinks
<1> QED
  BY <1>3, <1>4, <1>5, <1>6, <1>7, <1>8, <1>9, <1>10, <1>11
  DEF Next, generate, regenerate, from_code_with_age, start_expired,
      start_refused, finish_completed, finish_unknown, finish_prepared,
      finish_committed, commit_panicked

\* An exchange that can still be confirmed is no older than its code and was
\* started within the lifetime of the code (start_for_source and finish).
THEOREM ExchangesStartInTime == Spec => []StartedWithinLifetime
<1> USE DEF Ages
<1>1. Init => StartedWithinLifetime
  <2> SUFFICES ASSUME Init PROVE StartedWithinLifetime
    OBVIOUS
  <2>1. pending = NoSessions
    BY DEF Init
  <2> QED
    BY <2>1, NoSessionsFacts, LiveFacts, Zenon DEF StartedWithinLifetime
<1>2. TypeOK /\ StartedWithinLifetime /\ [Next]_pairingVars
        => StartedWithinLifetime'
  BY LifetimeStep
<1> QED
  BY <1>1, <1>2, TypeCorrect, PTL DEF Spec

\* Every step keeps a used code spent.
LEMMA CommitStaysSpent ==
    ASSUME TypeOK, TypeOK', SpentAfterCommit, [Next]_pairingVars
    PROVE  SpentAfterCommit'
<1> SUFFICES ASSUME DOMAIN completed' # {}, ~panicked'
             PROVE  Expired' /\ DOMAIN pending' = {}
  BY DEF SpentAfterCommit
<1>1. CASE /\ Shrinks(pending, pending')
           /\ Shrinks(completed, completed')
           /\ UNCHANGED <<elapsed, panicked>>
  BY <1>1 DEF Shrinks, SpentAfterCommit, Expired
<1>2. ASSUME NEW c, NEW age, NewCode(c, age) PROVE FALSE
  BY <1>2, NoSessionsFacts DEF NewCode
<1>3. ASSUME NEW o \in Origins, NEW s \in Sessions, start_for_source(o, s)
      PROVE  FALSE
  <2>1. Shrinks(completed, completed') /\ ~panicked
    BY <1>3, StartEffect, Zenon DEF start_for_source
  <2>2. Expired
    BY <2>1 DEF SpentAfterCommit, Shrinks
  <2> QED
    BY <1>3, <2>2 DEF start_for_source
<1>4. ASSUME NEW s \in Sessions, finish_failed(s)
      PROVE  /\ Shrinks(pending, pending')
             /\ Shrinks(completed, completed')
             /\ UNCHANGED <<elapsed, panicked>>
  BY <1>4, FailEffect, Zenon DEF finish_failed
<1>5. ASSUME NEW s, NEW k, finish_committed(s, k)
      PROVE  Expired' /\ DOMAIN pending' = {}
  BY <1>5, NoSessionsFacts, LimitsAssumption
  DEF finish_committed, Commit, Expired
<1>6. ASSUME NEW s, NEW k, commit_panicked(s, k) PROVE FALSE
  BY <1>6, Zenon DEF commit_panicked
<1>7. CASE Tick
  <2>1. DOMAIN completed # {} /\ ~panicked
    BY <1>7, AgedCompleted DEF Tick, TypeOK
  <2>2. Expired /\ DOMAIN pending = {}
    BY <2>1 DEF SpentAfterCommit
  <2>3. DOMAIN pending' = {}
    BY <1>7, <2>2, AgedPending DEF Tick, TypeOK
  <2>4. Expired'
    <3>1. elapsed \in Ages /\ elapsed' = Older(elapsed)
      BY <1>7 DEF Tick, TypeOK
    <3>2. elapsed' \in Ages /\ elapsed' >= elapsed
      BY <3>1, OlderFacts
    <3>3. /\ elapsed \in Int /\ elapsed' \in Int
          /\ PAIRING_LIFETIME \in Int
      BY <3>1, <3>2, LimitsAssumption, HorizonAssumption DEF Ages
    <3> QED
      BY <2>2, <3>2, <3>3 DEF Expired
  <2> QED
    BY <2>3, <2>4
<1>8. CASE prune_sessions /\ UNCHANGED <<elapsed, panicked>>
  BY <1>1, <1>8, PruneEffect
<1>9. CASE UNCHANGED pairingVars
  BY <1>1, <1>9 DEF pairingVars, Shrinks
<1> QED
  BY <1>1, <1>2, <1>3, <1>4, <1>5, <1>6, <1>7, <1>8, <1>9
  DEF Next, generate, regenerate, from_code_with_age, start_expired,
      start_refused, finish_completed, finish_unknown, finish_prepared

\* A committed exchange leaves a spent code behind: nothing is pending and
\* nothing can start, unless the commit panicked (commit and
\* start_for_source).
THEOREM CommitSpendsTheCode == Spec => []SpentAfterCommit
<1>1. Init => SpentAfterCommit
  BY NoSessionsFacts DEF Init, SpentAfterCommit
<1>2. TypeOK /\ TypeOK' /\ SpentAfterCommit /\ [Next]_pairingVars
        => SpentAfterCommit'
  BY CommitStaysSpent
<1> QED
  BY <1>1, <1>2, TypeCorrect, PTL DEF Spec
-----------------------------------------------------------------------------
(* The tables are bounded *)

\* The sources of the pending exchanges are at most as many as the exchanges.
LEMMA SourcesOfPending ==
    ASSUME NEW f, IsFiniteSet(DOMAIN f)
    PROVE  /\ IsFiniteSet({f[s].source : s \in DOMAIN f})
           /\ Cardinality({f[s].source : s \in DOMAIN f})
                <= Cardinality(DOMAIN f)
<1> DEFINE T == {f[s].source : s \in DOMAIN f}
           g == [s \in DOMAIN f |-> f[s].source]
<1>1. g \in Surjection(DOMAIN f, T)
  BY DEF Surjection
<1> HIDE DEF g
<1> QED
  BY <1>1, FS_Surjection

\* The table of failures and the sources that may still enter it.
Tracked == FailureSources \cup {pending[s].source : s \in DOMAIN pending}

\* Both are finite.
LEMMA TrackedFinite ==
    ASSUME TypeOK
    PROVE  /\ IsFiniteSet(Tracked) /\ Cardinality(Tracked) \in Nat
           /\ IsFiniteSet(FailureSources) /\ Cardinality(FailureSources) \in Nat
           /\ IsFiniteSet(DOMAIN pending) /\ Cardinality(DOMAIN pending) \in Nat
<1>1. IsFiniteSet(Origins)
  BY SourcesAssumption, FS_AddElement DEF Origins
<1>2. Tracked \in SUBSET Origins /\ FailureSources \in SUBSET Origins
  BY DEF Tracked, FailureSources, TypeOK, PendingPairing
<1> QED
  BY <1>1, <1>2, FinitePending, FS_Subset, FS_CardinalityType

\* start_for_source admits an untracked source only below the limits.
LEMMA StartTracked ==
    ASSUME TypeOK, TypeOK', TrackedSourcesBounded,
           NEW src \in Origins, NEW s \in Sessions, start_for_source(src, s)
    PROVE  TrackedSourcesBounded'
<1>1. /\ DOMAIN Live(pending) \subseteq DOMAIN pending
      /\ DOMAIN pending' = DOMAIN Live(pending) \cup {s}
      /\ \A x \in DOMAIN Live(pending) : pending'[x] = pending[x]
      /\ s \notin DOMAIN pending
  BY StartEffect, Zenon
<1>2. pending'[s].source = src
  <2>1. pending'[s] = [source |-> src, elapsed |-> 0]
    BY StartEffect, Zenon
  <2> QED
    BY <2>1
<1>3. FailureSources' = FailureSources
  BY DEF start_for_source, FailureSources
<1>4. ~RateLimited(src)
  BY DEF start_for_source
<1>5. IsFiniteSet(DOMAIN Live(pending))
      /\ Cardinality(DOMAIN Live(pending)) \in Nat
  BY <1>1, TrackedFinite, FS_Subset, FS_CardinalityType
<1>6. Cardinality(DOMAIN pending') <= MAX_PENDING_SESSIONS
  <2>1. Cardinality(DOMAIN Live(pending)) < MAX_PENDING_SESSIONS
    BY <1>4, <1>5, LimitsAssumption DEF RateLimited
  <2>2. /\ Cardinality(DOMAIN pending') <= Cardinality(DOMAIN Live(pending)) + 1
        /\ Cardinality(DOMAIN pending') \in Nat
    <3> DEFINE live == DOMAIN Live(pending)
    <3>1. IsFiniteSet(live) /\ DOMAIN pending' = live \cup {s}
      BY <1>1, <1>5
    <3> HIDE DEF live
    <3>2. /\ Cardinality(live \cup {s}) <= Cardinality(live) + 1
          /\ Cardinality(live \cup {s}) \in Nat
      BY <3>1, AddBound, Zenon
    <3> QED
      BY <3>1, <3>2 DEF live
  <2> DEFINE live == Cardinality(DOMAIN Live(pending))
             new == Cardinality(DOMAIN pending')
  <2>3. live \in Nat /\ live < MAX_PENDING_SESSIONS
        /\ new \in Nat /\ new <= live + 1
    BY <1>5, <2>1, <2>2
  <2> HIDE DEF live, new
  <2>4. new <= MAX_PENDING_SESSIONS
    BY <2>3, LimitsAssumption
  <2> QED
    BY <2>4 DEF new
<1>7. Tracked' = FailureSources
                   \cup {pending'[x].source : x \in DOMAIN pending'}
  BY <1>3 DEF Tracked
<1>8. Cardinality(Tracked') < MAX_FAILURE_SOURCES + MAX_PENDING_SESSIONS
  <2>1. CASE src \in FailureSources
    <3>1. Tracked' \in SUBSET Tracked
      BY <1>1, <1>2, <1>7, <2>1 DEF Tracked
    <3>2. /\ Cardinality(Tracked') <= Cardinality(Tracked)
          /\ Cardinality(Tracked') \in Nat
          /\ Cardinality(Tracked) \in Nat
      BY <3>1, TrackedFinite, FS_Subset, FS_CardinalityType
    <3>3. Cardinality(Tracked) < MAX_FAILURE_SOURCES + MAX_PENDING_SESSIONS
      BY DEF TrackedSourcesBounded, Tracked
    <3> QED
      BY <3>2, <3>3, LimitsAssumption
  <2>2. CASE src \notin FailureSources
    <3> DEFINE T == {pending'[x].source : x \in DOMAIN pending'}
    <3>1. IsFiniteSet(DOMAIN pending')
      BY <1>1, <1>5, FS_AddElement
    <3>2. /\ IsFiniteSet(T)
          /\ Cardinality(T) <= Cardinality(DOMAIN pending')
          /\ Cardinality(T) \in Nat
          /\ Cardinality(DOMAIN pending') \in Nat
      BY <3>1, SourcesOfPending, FS_CardinalityType
    <3>3. Cardinality(FailureSources) < MAX_FAILURE_SOURCES
      BY <1>4, <2>2, TrackedFinite, LimitsAssumption DEF RateLimited
    <3>4. Tracked' = FailureSources \cup T
      BY <1>7
    <3> HIDE DEF T
    <3>5. /\ Cardinality(FailureSources \cup T)
               <= Cardinality(FailureSources) + Cardinality(T)
          /\ Cardinality(FailureSources \cup T) \in Nat
      <4>1. Cardinality(FailureSources \cup T)
              = Cardinality(FailureSources) + Cardinality(T)
                  - Cardinality(FailureSources \cap T)
        BY <3>2, TrackedFinite, FS_Union
      <4>2. Cardinality(FailureSources \cap T) \in Nat
        BY TrackedFinite, FS_Subset, FS_CardinalityType
      <4>3. Cardinality(FailureSources \cup T) \in Nat
        BY <3>2, TrackedFinite, FS_Union, FS_CardinalityType, Zenon
      <4> QED
        BY <3>2, <4>1, <4>2, <4>3, TrackedFinite
    <3> QED
      BY <1>6, <3>2, <3>3, <3>4, <3>5, TrackedFinite, LimitsAssumption
  <2> QED
    BY <2>1, <2>2
<1> QED
  BY <1>6, <1>8 DEF TrackedSourcesBounded, Tracked

\* A set of tracked sources that does not grow.
LEMMA ShrinkTracked ==
    ASSUME TypeOK, TypeOK', TrackedSourcesBounded,
           Tracked' \subseteq Tracked
    PROVE  TrackedSourcesBounded'
<1>1. /\ Cardinality(Tracked') <= Cardinality(Tracked)
      /\ Cardinality(Tracked') \in Nat
      /\ Cardinality(Tracked) \in Nat
  BY TrackedFinite, FS_Subset, FS_CardinalityType
<1>2. Cardinality(Tracked) < MAX_FAILURE_SOURCES + MAX_PENDING_SESSIONS
  BY DEF TrackedSourcesBounded, Tracked
<1>3. Cardinality(Tracked') < MAX_FAILURE_SOURCES + MAX_PENDING_SESSIONS
  BY <1>1, <1>2, LimitsAssumption
<1> QED
  BY <1>3 DEF TrackedSourcesBounded, Tracked

\* Every step keeps the tables bounded.
LEMMA TablesStep ==
    ASSUME TypeOK, TypeOK', TrackedSourcesBounded, [Next]_pairingVars
    PROVE  TrackedSourcesBounded'
<1>1. CASE failures' = [o \in Origins |-> 0] /\ DOMAIN pending' = {}
  <2>1. Tracked' = {}
    BY <1>1 DEF Tracked, FailureSources
  <2> QED
    BY <1>1, <2>1, ShrinkTracked
<1>2. CASE Shrinks(pending, pending') /\ UNCHANGED failures
  BY <1>2, ShrinkTracked DEF Tracked, FailureSources, Shrinks
<1>3. ASSUME NEW o \in Origins, NEW s \in Sessions, start_for_source(o, s)
      PROVE  TrackedSourcesBounded'
  BY <1>3, StartTracked
<1>4. ASSUME NEW s \in Sessions, finish_failed(s)
      PROVE  TrackedSourcesBounded'
  <2>1. s \in DOMAIN pending /\ Shrinks(pending, pending')
    BY <1>4, FailEffect
  <2>2. FailureSources' \subseteq FailureSources \cup {pending[s].source}
    BY <1>4, Zenon DEF finish_failed, FailureSources, TypeOK
  <2> QED
    BY <2>1, <2>2, ShrinkTracked DEF Tracked, Shrinks
<1>5. CASE Tick
  <2>1. /\ DOMAIN pending' = DOMAIN pending
        /\ \A s \in DOMAIN pending : pending'[s].source = pending[s].source
    BY <1>5, AgedPending DEF Tick, TypeOK
  <2>2. FailureSources' = FailureSources
    BY <1>5 DEF Tick, FailureSources
  <2> QED
    BY <2>1, <2>2, ShrinkTracked DEF Tracked
<1> QED
  BY <1>1, <1>2, <1>3, <1>4, <1>5, StepKinds

\* The exchanges never exceed MAX_PENDING_SESSIONS, and the sources counted
\* or about to be counted stay below the sum of the two limits
\* (start_for_source and finish).
THEOREM TablesBounded == Spec => []TrackedSourcesBounded
<1>1. Init => TrackedSourcesBounded
  <2> SUFFICES ASSUME Init PROVE TrackedSourcesBounded
    OBVIOUS
  <2>1. failures = [o \in Origins |-> 0] /\ DOMAIN pending = {}
    BY NoSessionsFacts DEF Init
  <2>2. Tracked = {} /\ DOMAIN pending = {}
    BY <2>1 DEF Tracked, FailureSources
  <2>3. Cardinality(Tracked) = 0 /\ Cardinality(DOMAIN pending) = 0
    BY <2>2, FS_EmptySet
  <2> QED
    BY <2>3, LimitsAssumption DEF TrackedSourcesBounded, Tracked
<1>2. TypeOK /\ TypeOK' /\ TrackedSourcesBounded /\ [Next]_pairingVars
        => TrackedSourcesBounded'
  BY TablesStep
<1> QED
  BY <1>1, <1>2, TypeCorrect, PTL DEF Spec
-----------------------------------------------------------------------------
(* The limits together *)

CodeLimits ==
    /\ FailureBudget
    /\ TrackedSourcesBounded
    /\ StartedWithinLifetime
    /\ SpentAfterCommit

EmptyTables ==
    /\ failures = [o \in Origins |-> 0]
    /\ DOMAIN pending = {}
    /\ DOMAIN completed = {}

\* A code with nothing counted against it is within its limits.
LEMMA EmptyLimits == EmptyTables => CodeLimits
<1> SUFFICES ASSUME EmptyTables PROVE CodeLimits
  OBVIOUS
<1>1. FailureBudget
  BY FreshBudget DEF EmptyTables
<1>2. TrackedSourcesBounded
  <2>1. Tracked = {} /\ DOMAIN pending = {}
    BY DEF EmptyTables, Tracked, FailureSources
  <2>2. Cardinality(Tracked) = 0 /\ Cardinality(DOMAIN pending) = 0
    BY <2>1, FS_EmptySet
  <2> QED
    BY <2>2, LimitsAssumption DEF TrackedSourcesBounded, Tracked
<1>3. StartedWithinLifetime
  BY LiveFacts, Zenon DEF EmptyTables, StartedWithinLifetime
<1>4. SpentAfterCommit
  BY DEF EmptyTables, SpentAfterCommit
<1> QED
  BY <1>1, <1>2, <1>3, <1>4 DEF CodeLimits

\* Every operation of the pairing code keeps the limits.
LEMMA LimitsStep ==
    ASSUME TypeOK, TypeOK', CodeLimits, [Next]_pairingVars
    PROVE  CodeLimits'
BY BudgetStep, TablesStep, LifetimeStep, CommitStaysSpent DEF CodeLimits
=============================================================================
