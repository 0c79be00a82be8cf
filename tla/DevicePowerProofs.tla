-------------------------- MODULE DevicePowerProofs --------------------------
(***************************************************************************)
(* Proofs for DevicePower: the lock of a device, the wake that is not cut  *)
(* short and the view that shows nothing of another one, for any number of *)
(* refreshes and actions in flight and any timeout.                        *)
(***************************************************************************)
EXTENDS DevicePower, TLAPS

USE DEF machineVars

-----------------------------------------------------------------------------
(* The inductive invariant *)

\* The action has asked for the lock of the device and not released it.
Locking(a) == action[a].pc \in {"start", "stop", "sent", "answered"}

\* Who waits for the lock, or holds it, is in the line, and once.
LineOK ==
    /\ \A a \in Actions : InLine(a) <=> Locking(a)
    /\ \A i, j \in 1..Len(lock) : lock[i] = lock[j] => i = j

\* Only what the mounted view has asked for belongs to it.
AskedOK ==
    /\ \A p \in Polls : poll[p].current => p \in asked
    /\ \A a \in Actions : action[a].current => a \in asked

PowerInvariant == PowerTypeOK /\ LineOK /\ OneStopAtATime /\ AskedOK

\* The invariant holds when the plugin is loaded.
LEMMA PowerInit == Init => PowerInvariant
<1> SUFFICES ASSUME Init PROVE PowerInvariant
  OBVIOUS
<1>1. Idle \in Poll /\ Idle \in Action
  BY DEF Idle, Poll, Action
<1>2. PowerTypeOK
  <2>1. poll \in [Polls -> Poll] /\ action \in [Actions -> Action]
    BY <1>1 DEF Init
  <2>2. timeLeft \in 0..TRANSITION_TIMEOUT /\ lock \in Seq(Actions)
    BY PowerAssumption DEF Init
  <2>3. received \subseteq Credentials /\ asked \subseteq Polls \cup Actions
    BY DEF Init
  <2> QED
    BY <2>1, <2>2, <2>3, Zenon DEF Init, PowerTypeOK
<1> QED
  BY <1>2 DEF Init, PowerInvariant, LineOK, InLine, Locking, OneStopAtATime,
              AskedOK, Idle
-----------------------------------------------------------------------------
(* The types *)

\* What _status makes of an answer is a status of the device.
LEMMA StatusType ==
    ASSUME PowerTypeOK, NEW key \in Secrets, NEW kind \in Kinds
    PROVE  _status(key, kind) \in Status
  BY DEF PowerTypeOK, _status, Probed, Checked, Pending, Status, States,
         Pairing, Transient

\* How a request can end is the kind of an error, or ok.
LEMMA AnswersType == ASSUME NEW key PROVE Answers(key) \subseteq Kinds
  BY DEF Answers, Kinds

\* The steps of a refresh.
LEMMA PollTypes ==
    ASSUME PowerTypeOK, NEW p \in Polls, PollNext(p)
    PROVE  PowerTypeOK'
<1> USE DEF PowerTypeOK
<1>0. poll[p] \in Poll /\ Idle \in Poll
  BY Zenon DEF Idle, Poll
<1>1. CASE refresh(p)
  <2>1. [pc |-> "sent", current |-> TRUE, secret |-> secret] \in Poll
    BY Zenon DEF Poll
  <2> QED
    BY <1>1, <2>1 DEF refresh
<1>2. CASE refresh_failed(p)
  <2>1. [poll[p] EXCEPT !.current = FALSE] \in Poll
    BY <1>0, Zenon DEF Poll
  <2> QED
    BY <1>0, <1>2, <2>1, Zenon DEF refresh_failed
<1>3. CASE status_answered(p)
  <2>1. PICK kind \in Answers(poll[p].secret) :
          poll' = [poll EXCEPT ![p] = [pc |-> "answered", current |-> @.current,
                                       secret |-> @.secret, kind |-> kind]]
    BY <1>3, Zenon DEF status_answered
  <2>2. kind \in Kinds
    BY AnswersType
  <2>3. [pc |-> "answered", current |-> poll[p].current,
         secret |-> poll[p].secret, kind |-> kind] \in Poll
    BY <1>0, <1>3, <2>2, Zenon DEF status_answered, Poll
  <2> QED
    BY <1>3, <2>1, <2>3 DEF status_answered
<1>4. CASE status_raised(p)
  <2>1. [pc |-> "returns", current |-> poll[p].current,
         result |-> [state |-> "unknown",
                     pairing |-> IF poll[p].secret = NoCredential
                                   THEN "unpaired" ELSE "paired"]] \in Poll
    BY <1>0, <1>4, Zenon DEF status_raised, Poll, Status, States, Pairing
  <2> QED
    BY <1>4, <2>1 DEF status_raised
<1>5. CASE status_result(p)
  <2>1. poll[p].secret \in Secrets /\ poll[p].kind \in Kinds
    BY <1>0, <1>5, Zenon DEF status_result, Poll
  <2>2. _status(poll[p].secret, poll[p].kind) \in Status
    BY <2>1, StatusType
  <2>3. [pc |-> "returns", current |-> poll[p].current,
         result |-> _status(poll[p].secret, poll[p].kind)] \in Poll
    BY <1>0, <2>2, Zenon DEF Poll
  <2>4. _status(poll[p].secret, poll[p].kind).state \in States
    BY <2>2 DEF Status
  <2> QED
    BY <1>5, <2>3, <2>4 DEF status_result
<1>6. CASE refreshed(p)
  <2>1. poll[p].result \in Status
    BY <1>0, <1>6, Zenon DEF refreshed, Poll
  <2> QED
    BY <1>0, <1>6, <2>1 DEF refreshed
<1> QED
  BY <1>1, <1>2, <1>3, <1>4, <1>5, <1>6 DEF PollNext

\* Taking the first of a line off, or putting one at its end.
LEMMA LineTypes ==
    ASSUME PowerTypeOK, NEW a \in Actions
    PROVE  /\ Append(lock, a) \in Seq(Actions)
           /\ lock # <<>> => Tail(lock) \in Seq(Actions)
  BY DEF PowerTypeOK

\* The steps of an action.
LEMMA ActionTypes ==
    ASSUME PowerTypeOK, OneStopAtATime, NEW a \in Actions, act(a) \/ ActionNext(a)
    PROVE  PowerTypeOK'
<1> USE DEF PowerTypeOK
<1>0. action[a] \in Action /\ Idle \in Action
  BY Zenon DEF Idle, Action
<1>1. CASE act(a)
  <2>1. shown \in Status
    BY <1>1 DEF act, Actionable, NoStatus, Status, States, Pairing
  <2>2. /\ [shown EXCEPT !.state = "stopping"] \in Status
        /\ [shown EXCEPT !.state = "starting"] \in Status
        /\ shown.pairing \in Pairing
    BY <2>1 DEF Status, States
  <2>3. [pc |-> IF shown.state = "online" THEN "stop" ELSE "start",
         current |-> TRUE, pairing |-> shown.pairing] \in Action
    BY <2>2, Zenon DEF Action
  <2>4. lock' \in Seq(Actions)
    BY <1>1, LineTypes DEF act
  <2>5. shown' \in Status
    BY <1>1, <2>2, Zenon DEF act
  <2>6. action' \in [Actions -> Action]
    BY <1>1, <2>3 DEF act
  <2> QED
    BY <1>1, <2>4, <2>5, <2>6 DEF act
<1>2. ASSUME NEW result \in Status, Returns(a, result)
      PROVE  action' \in [Actions -> Action]
  <2>1. [pc |-> "returns", current |-> action[a].current, result |-> result]
            \in Action
    BY <1>0, Zenon DEF Action
  <2> QED
    BY <1>2, <2>1 DEF Returns
<1>3. ASSUME Locking(a) PROVE Failed(a) \in Status
  BY <1>0, <1>3, Zenon DEF Locking, Action, Failed, Status, States
<1>4. CASE start(a) \/ start_failed(a)
  <2>1. lock' \in Seq(Actions)
    BY <1>4, LineTypes, Zenon DEF start, start_failed, Holds
  <2>2. /\ state' \in States \cup {"none"}
        /\ timeLeft' \in 0..TRANSITION_TIMEOUT
    BY <1>4, PowerAssumption DEF start, start_failed, States
  <2>3. [state |-> "starting", pairing |-> IF secret = NoCredential
            THEN "unpaired" ELSE "paired"] \in Status
    BY DEF Status, States, Pairing
  <2>4. action' \in [Actions -> Action]
    BY <1>2, <1>3, <1>4, <2>3 DEF start, start_failed, Locking
  <2> QED
    BY <1>4, <2>1, <2>2, <2>4 DEF start, start_failed
<1>5. CASE stop(a)
  <2>1. [pc |-> "sent", current |-> action[a].current,
         pairing |-> action[a].pairing, secret |-> secret] \in Action
    BY <1>0, <1>5, Zenon DEF stop, Action
  <2> QED
    BY <1>5, <2>1 DEF stop
<1>6. CASE stop_unpaired(a)
  <2>1. lock' \in Seq(Actions)
    BY <1>6, LineTypes DEF stop_unpaired, Holds
  <2>2. action' \in [Actions -> Action]
    BY <1>2, <1>3, <1>6 DEF stop_unpaired, Locking
  <2> QED
    BY <1>6, <2>1, <2>2 DEF stop_unpaired
<1>7. CASE shutdown_accepted(a) \/ shutdown_refused(a)
  <2>1. PICK kind \in Kinds : Answered(a, kind)
    BY <1>7, AnswersType DEF shutdown_accepted, shutdown_refused, Kinds
  <2>2. [pc |-> "answered", current |-> action[a].current,
         pairing |-> action[a].pairing, kind |-> kind] \in Action
    BY <1>0, <1>7, Zenon DEF shutdown_accepted, shutdown_refused, Action
  <2>3. action' \in [Actions -> Action]
    BY <2>1, <2>2 DEF Answered
  <2> QED
    BY <1>7, <2>3 DEF shutdown_accepted, shutdown_refused
<1>8. CASE stopped(a) \/ stop_failed(a)
  <2>1. lock' \in Seq(Actions)
    BY <1>8, LineTypes DEF stopped, stop_failed, Holds, OneStopAtATime
  <2>2. [state |-> "stopping", pairing |-> "paired"] \in Status
    BY DEF Status, States, Pairing
  <2>3. action' \in [Actions -> Action]
    BY <1>2, <1>3, <1>8, <2>2 DEF stopped, stop_failed, Locking
  <2> QED
    BY <1>8, <2>1, <2>3, PowerAssumption DEF stopped, stop_failed, States
<1>9. CASE acted(a)
  <2>1. action[a].result \in Status
    BY <1>0, <1>9, Zenon DEF acted, Action
  <2> QED
    BY <1>0, <1>9, <2>1 DEF acted
<1> QED
  BY <1>1, <1>4, <1>5, <1>6, <1>7, <1>8, <1>9 DEF ActionNext

\* The steps of the view, the store, the machine and the clock.
LEMMA OtherTypes ==
    ASSUME PowerTypeOK,
           \/ \E k \in Credentials : pair_device(k) \/ mark_paired(k)
                                     \/ paired_elsewhere(k)
           \/ mount \/ unmount \/ switched_on \/ switched_off \/ second
    PROVE  PowerTypeOK'
<1> USE DEF PowerTypeOK
<1>1. ASSUME NEW k \in Credentials,
             pair_device(k) \/ mark_paired(k) \/ paired_elsewhere(k)
      PROVE  PowerTypeOK'
  BY <1>1 DEF pair_device, mark_paired, paired_elsewhere, Secrets
<1>2. CASE unmount
  <2>1. ASSUME NEW p \in Polls PROVE [poll[p] EXCEPT !.current = FALSE] \in Poll
    <3>1. poll[p] \in Poll
      OBVIOUS
    <3> QED
      BY <3>1, Zenon DEF Poll
  <2>2. ASSUME NEW a \in Actions
        PROVE  [action[a] EXCEPT !.current = FALSE] \in Action
    <3>1. action[a] \in Action
      OBVIOUS
    <3>2. \A x \in Action : [x EXCEPT !.current = FALSE] \in Action
      BY Zenon DEF Action
    <3> QED
      BY <3>1, <3>2
  <2> QED
    BY <1>2, <2>1, <2>2, Zenon DEF unmount, Orphaned
<1>3. CASE mount \/ switched_on \/ switched_off
  BY <1>3, Zenon DEF mount, switched_on, switched_off
<1>4. CASE second
  BY <1>4, PowerAssumption DEF second
<1> QED
  BY <1>1, <1>2, <1>3, <1>4
-----------------------------------------------------------------------------
(* The lock, and the view *)

\* A line from which the first is taken, or to which one is added.
LEMMA LineFacts ==
    ASSUME PowerTypeOK, LineOK, NEW a \in Actions
    PROVE  /\ lock # <<>> => \A b \in Actions :
                (\E i \in 1..Len(Tail(lock)) : Tail(lock)[i] = b)
                    <=> InLine(b) /\ b # Head(lock)
           /\ lock # <<>> => \A i, j \in 1..Len(Tail(lock)) :
                Tail(lock)[i] = Tail(lock)[j] => i = j
           /\ \A b \in Actions :
                (\E i \in 1..Len(Append(lock, a)) : Append(lock, a)[i] = b)
                    <=> InLine(b) \/ b = a
           /\ ~InLine(a) => \A i, j \in 1..Len(Append(lock, a)) :
                Append(lock, a)[i] = Append(lock, a)[j] => i = j
<1>0. lock \in Seq(Actions) /\ Len(lock) \in Nat
  BY DEF PowerTypeOK
<1>1. ASSUME lock # <<>>
      PROVE  /\ Len(Tail(lock)) = Len(lock) - 1 /\ Len(lock) > 0
             /\ \A i \in 1..Len(Tail(lock)) : Tail(lock)[i] = lock[i + 1]
             /\ Head(lock) = lock[1]
  BY <1>0, <1>1
<1>2. /\ Len(Append(lock, a)) = Len(lock) + 1
      /\ \A i \in 1..Len(lock) : Append(lock, a)[i] = lock[i]
      /\ Append(lock, a)[Len(lock) + 1] = a
  BY <1>0
<1>3. ASSUME lock # <<>>, NEW b \in Actions
      PROVE  (\E i \in 1..Len(Tail(lock)) : Tail(lock)[i] = b)
                    <=> InLine(b) /\ b # Head(lock)
  <2>1. ASSUME NEW i \in 1..Len(Tail(lock)), Tail(lock)[i] = b
        PROVE  InLine(b) /\ b # Head(lock)
    BY <1>0, <1>1, <1>3, <2>1 DEF InLine, LineOK
  <2>2. ASSUME InLine(b), b # Head(lock)
        PROVE  \E i \in 1..Len(Tail(lock)) : Tail(lock)[i] = b
    <3>1. PICK i \in 1..Len(lock) : lock[i] = b
      BY <2>2 DEF InLine
    <3>2. i - 1 \in 1..Len(Tail(lock)) /\ Tail(lock)[i - 1] = b
      BY <1>0, <1>1, <1>3, <2>2, <3>1
    <3> QED
      BY <3>2
  <2> QED
    BY <2>1, <2>2
<1>4. ASSUME lock # <<>>, NEW i \in 1..Len(Tail(lock)),
             NEW j \in 1..Len(Tail(lock)), Tail(lock)[i] = Tail(lock)[j]
      PROVE  i = j
  <2>1. i + 1 \in 1..Len(lock) /\ j + 1 \in 1..Len(lock)
    BY <1>0, <1>1, <1>4
  <2>2. i + 1 = j + 1
    BY <1>1, <1>4, <2>1 DEF LineOK
  <2> QED
    BY <2>2
<1>5. ASSUME NEW b \in Actions
      PROVE  (\E i \in 1..Len(Append(lock, a)) : Append(lock, a)[i] = b)
                    <=> InLine(b) \/ b = a
  BY <1>0, <1>2 DEF InLine
<1>6. ASSUME ~InLine(a), NEW i \in 1..Len(Append(lock, a)),
             NEW j \in 1..Len(Append(lock, a)),
             Append(lock, a)[i] = Append(lock, a)[j]
      PROVE  i = j
  BY <1>0, <1>2, <1>6 DEF InLine, LineOK
<1> QED
  BY <1>3, <1>4, <1>5, <1>6

\* A step that leaves the line alone.
LEMMA LineKept ==
    ASSUME PowerInvariant, lock' = lock,
           \A a \in Actions :
              /\ Locking(a)' <=> Locking(a)
              /\ action'[a].pc \in {"sent", "answered"}
                    => action[a].pc \in {"sent", "answered"} \/ Holds(a)
    PROVE  LineOK' /\ OneStopAtATime'
<1>1. LineOK'
  BY DEF PowerInvariant, LineOK, InLine
<1>2. OneStopAtATime'
  BY DEF PowerInvariant, OneStopAtATime, Holds
<1> QED
  BY <1>1, <1>2

\* A step that releases the lock: the next one in the line gets it.
LEMMA LineLeft ==
    ASSUME PowerInvariant, NEW a \in Actions, Holds(a), Locking(a),
           lock' = Tail(lock), action'[a].pc = "returns",
           \A b \in Actions : b # a => action'[b] = action[b]
    PROVE  LineOK' /\ OneStopAtATime'
<1> USE DEF PowerInvariant
<1>1. lock # <<>> /\ Head(lock) = a
  BY DEF Holds
<1>2. \A b \in Actions : InLine(b)' <=> InLine(b) /\ b # a
  BY <1>1, LineFacts DEF InLine
<1>3. \A b \in Actions : Locking(b)' <=> Locking(b) /\ b # a
  BY DEF Locking
<1>4. LineOK'
  <2>1. \A i, j \in 1..Len(lock') : lock'[i] = lock'[j] => i = j
    BY <1>1, LineFacts
  <2> QED
    BY <1>2, <1>3, <2>1 DEF LineOK
<1>5. OneStopAtATime'
  BY <1>1 DEF OneStopAtATime, Holds
<1> QED
  BY <1>4, <1>5

\* The steps of an action keep the line in order.
LEMMA ActionLine ==
    ASSUME PowerInvariant, NEW a \in Actions, act(a) \/ ActionNext(a)
    PROVE  LineOK' /\ OneStopAtATime'
<1> USE DEF PowerInvariant
<1>0. action \in [Actions -> Action] /\ lock \in Seq(Actions)
  BY DEF PowerTypeOK
<1>1. CASE act(a)
  <2>1. ~Locking(a) /\ ~InLine(a)
    BY <1>1 DEF act, Idle, Locking, LineOK
  <2>2. /\ lock' = Append(lock, a)
        /\ action'[a].pc \in {"start", "stop"}
        /\ \A b \in Actions : b # a => action'[b] = action[b]
    BY <1>0, <1>1 DEF act
  <2>3. \A b \in Actions : InLine(b)' <=> InLine(b) \/ b = a
    BY <2>2, LineFacts DEF InLine
  <2>4. \A b \in Actions : Locking(b)' <=> Locking(b) \/ b = a
    BY <2>2 DEF Locking
  <2>5. \A i, j \in 1..Len(lock') : lock'[i] = lock'[j] => i = j
    BY <2>1, <2>2, LineFacts
  <2>6. \A b \in Actions : Holds(b) => Holds(b)'
    BY <1>0, <2>2 DEF Holds
  <2>7. OneStopAtATime'
    BY <2>2, <2>6 DEF OneStopAtATime
  <2> QED
    BY <2>3, <2>4, <2>5, <2>7 DEF LineOK
<1>2. CASE \/ start(a) \/ start_failed(a) \/ stop_unpaired(a) \/ stopped(a)
           \/ stop_failed(a)
  <2>1. Holds(a) /\ Locking(a) /\ lock' = Tail(lock)
    BY <1>2 DEF start, start_failed, stop_unpaired, stopped, stop_failed,
                OneStopAtATime, Locking
  <2>2. \E result : Returns(a, result)
    BY <1>2 DEF start, start_failed, stop_unpaired, stopped, stop_failed
  <2>3. /\ action'[a].pc = "returns"
        /\ \A b \in Actions : b # a => action'[b] = action[b]
    BY <1>0, <2>2 DEF Returns
  <2> QED
    BY <2>1, <2>3, LineLeft
<1>3. CASE stop(a) \/ shutdown_accepted(a) \/ shutdown_refused(a) \/ acted(a)
  <2>1. lock' = lock /\ \A b \in Actions : b # a => action'[b] = action[b]
    BY <1>0, <1>3 DEF stop, shutdown_accepted, shutdown_refused, acted, Answered
  <2>2. CASE stop(a) \/ shutdown_accepted(a) \/ shutdown_refused(a)
    <3>1. Holds(a) /\ Locking(a) /\ action'[a].pc \in {"sent", "answered"}
      BY <1>0, <2>2 DEF stop, shutdown_accepted, shutdown_refused, Answered,
                        OneStopAtATime, Locking
    <3> QED
      BY <2>1, <3>1, LineKept DEF Locking
  <2>3. CASE acted(a)
    <3>1. action[a].pc = "returns" /\ action'[a].pc = "idle"
      BY <1>0, <2>3 DEF acted, Idle
    <3> QED
      BY <2>1, <3>1, LineKept DEF Locking
  <2> QED
    BY <1>3, <2>2, <2>3
<1> QED
  BY <1>1, <1>2, <1>3 DEF ActionNext

\* A poll or an action that belongs to the mounted view was asked for by it.
LEMMA AskedStep ==
    ASSUME PowerInvariant, Next
    PROVE  AskedOK'
<1> USE DEF PowerInvariant
<1>0. /\ poll \in [Polls -> Poll] /\ action \in [Actions -> Action]
      /\ \A p \in Polls, a \in Actions : p # a
  BY PowerAssumption DEF PowerTypeOK
<1>1. ASSUME NEW p \in Polls, PollNext(p) PROVE AskedOK'
  <2>1. \A q \in Polls : q # p => poll'[q] = poll[q]
    BY <1>0, <1>1
    DEF PollNext, refresh, refresh_failed, status_answered, status_raised,
        status_result, refreshed
  <2>2. action' = action /\ \A x : x # p => (x \in asked' <=> x \in asked)
    BY <1>1
    DEF PollNext, refresh, refresh_failed, status_answered, status_raised,
        status_result, refreshed
  <2>3. poll'[p].current => p \in asked'
    <3>1. poll[p] \in Poll /\ (poll[p].current => p \in asked)
      BY <1>0 DEF AskedOK
    <3>2. CASE refresh(p)
      BY <3>2 DEF refresh
    <3>3. CASE refresh_failed(p)
      <4>1. /\ [poll[p] EXCEPT !.current = FALSE].current = FALSE
            /\ Idle.current = FALSE
        BY <3>1 DEF Poll, Idle
      <4>2. \/ poll'[p] = Idle
            \/ poll'[p] = [poll[p] EXCEPT !.current = FALSE]
        BY <1>0, <3>3, Zenon DEF refresh_failed
      <4>3. poll'[p].current = FALSE
        BY <4>1, <4>2, Zenon
      <4> QED
        BY <4>3
    <3>4. CASE status_answered(p) \/ status_raised(p) \/ status_result(p)
      BY <1>0, <3>1, <3>4 DEF status_answered, status_raised, status_result
    <3>5. CASE refreshed(p)
      BY <1>0, <3>5 DEF refreshed, Idle
    <3> QED
      BY <1>1, <3>2, <3>3, <3>4, <3>5 DEF PollNext
  <2> QED
    BY <1>0, <2>1, <2>2, <2>3 DEF AskedOK
<1>2. ASSUME NEW a \in Actions, act(a) \/ ActionNext(a) PROVE AskedOK'
  <2> USE DEF ActionNext, act, start, start_failed, stop, stop_unpaired,
              shutdown_accepted, shutdown_refused, stopped, stop_failed, acted,
              Returns, Answered
  <2>1. \A b \in Actions : b # a => action'[b] = action[b]
    BY <1>0, <1>2
  <2>2. poll' = poll /\ \A x : x # a => (x \in asked' <=> x \in asked)
    BY <1>2
  <2>3. action'[a].current => a \in asked'
    <3>1. action[a].current => a \in asked
      BY DEF AskedOK
    <3>2. CASE act(a)
      BY <3>2
    <3>3. CASE acted(a)
      BY <1>0, <3>3 DEF Idle
    <3>4. CASE ~act(a) /\ ~acted(a)
      <4>1. asked' = asked
        BY <1>2, <3>4
      <4>2. action'[a].current = action[a].current
        <5>1. CASE start(a) \/ start_failed(a) \/ stop_unpaired(a)
          BY <1>0, <5>1
        <5>2. CASE stop(a)
          BY <1>0, <5>2
        <5>3. CASE shutdown_accepted(a) \/ shutdown_refused(a)
          <6>1. PICK kind : Answered(a, kind)
            BY <5>3
          <6> QED
            BY <1>0, <6>1
        <5>4. CASE stopped(a) \/ stop_failed(a)
          BY <1>0, <5>4
        <5> QED
          BY <1>2, <3>4, <5>1, <5>2, <5>3, <5>4
      <4> QED
        BY <3>1, <4>1, <4>2
    <3> QED
      BY <3>2, <3>3, <3>4
  <2> QED
    BY <1>0, <2>1, <2>2, <2>3 DEF AskedOK
<1>3. CASE unmount
  <2>1. ASSUME NEW p \in Polls PROVE ~[poll[p] EXCEPT !.current = FALSE].current
    <3>1. poll[p] \in Poll
      BY <1>0
    <3> QED
      BY <3>1 DEF Poll
  <2>2. ASSUME NEW a \in Actions
        PROVE  ~[action[a] EXCEPT !.current = FALSE].current
    <3>1. action[a] \in Action
      BY <1>0
    <3> QED
      BY <3>1 DEF Action
  <2> QED
    BY <1>0, <1>3, <2>1, <2>2 DEF unmount, Orphaned, AskedOK
<1>4. ASSUME \/ \E k \in Credentials : pair_device(k) \/ mark_paired(k)
                                       \/ paired_elsewhere(k)
             \/ mount \/ switched_on \/ switched_off \/ second
      PROVE  AskedOK'
  BY <1>4 DEF pair_device, mark_paired, paired_elsewhere, mount, switched_on,
              switched_off, second, AskedOK
<1> QED
  BY <1>1, <1>2, <1>3, <1>4 DEF Next

\* Every step keeps the invariant.
LEMMA PowerStep ==
    ASSUME PowerInvariant, [Next]_powerVars
    PROVE  PowerInvariant'
<1> USE DEF PowerInvariant
<1>1. CASE UNCHANGED powerVars
  BY <1>1 DEF powerVars, PowerTypeOK, LineOK, InLine, Locking, OneStopAtATime,
              Holds, AskedOK
<1>2. CASE Next
  <2>1. AskedOK'
    BY <1>2, AskedStep
  <2>2. ASSUME NEW p \in Polls, PollNext(p)
        PROVE  PowerTypeOK' /\ lock' = lock /\ action' = action
    BY <2>2, PollTypes
    DEF PollNext, refresh, refresh_failed, status_answered, status_raised,
        status_result, refreshed
  <2>3. ASSUME NEW a \in Actions, act(a) \/ ActionNext(a)
        PROVE  PowerTypeOK' /\ LineOK' /\ OneStopAtATime'
    BY <2>3, ActionTypes, ActionLine
  <2>4. ASSUME \/ \E k \in Credentials : pair_device(k) \/ mark_paired(k)
                                         \/ paired_elsewhere(k)
               \/ mount \/ switched_on \/ switched_off \/ second
        PROVE  PowerTypeOK' /\ lock' = lock /\ action' = action
    BY <2>4, OtherTypes, Zenon
    DEF pair_device, mark_paired, paired_elsewhere, mount, switched_on,
        switched_off, second
  <2>5. ASSUME unmount
        PROVE  /\ PowerTypeOK' /\ lock' = lock
               /\ \A a \in Actions : action'[a].pc = action[a].pc
    <3>1. ASSUME NEW a \in Actions
          PROVE  [action[a] EXCEPT !.current = FALSE].pc = action[a].pc
      <4>1. action[a] \in Action
        BY DEF PowerTypeOK
      <4> QED
        BY <4>1 DEF Action
    <3> QED
      BY <2>5, <3>1, OtherTypes, Zenon DEF unmount, Orphaned, PowerTypeOK
  <2>6. ASSUME lock' = lock, \A a \in Actions : action'[a].pc = action[a].pc
        PROVE  LineOK' /\ OneStopAtATime'
    BY <2>6, LineKept DEF Locking
  <2> QED
    BY <1>2, <2>1, <2>2, <2>3, <2>4, <2>5, <2>6 DEF Next
<1> QED
  BY <1>1, <1>2

\* The invariant holds in every reachable state.
LEMMA PowerInvariance == Spec => []PowerInvariant
  BY PowerInit, PowerStep, PTL DEF Spec
-----------------------------------------------------------------------------
(* The theorems *)

\* The types of the controller, the view and their requests.
THEOREM PowerTypes == Spec => []PowerTypeOK
<1>1. PowerInvariant => PowerTypeOK
  BY DEF PowerInvariant
<1> QED
  BY <1>1, PowerInvariance, PTL

\* Whoever waits for a shutdown to be answered has the lock of the device
\* (stop of controller.py), however many actions are in flight.
THEOREM OneStopAlways == Spec => []OneStopAtATime
<1>1. PowerInvariant => OneStopAtATime
  BY DEF PowerInvariant
<1> QED
  BY <1>1, PowerInvariance, PTL

\* An action is in the line of the lock exactly as long as it has not come to
\* its outcome, and it is there once: the safety half of ActionsEnd (start and
\* stop of controller.py).
THEOREM LockFollowsActions == Spec => []LineOK
<1>1. PowerInvariant => LineOK
  BY DEF PowerInvariant
<1> QED
  BY <1>1, PowerInvariance, PTL

\* Whatever a view shows it has asked for itself: a result of an earlier view
\* changes nothing, whether a view is mounted or not (useDevices).
THEOREM AlwaysShowsItsOwn == Spec => ShownIsOwn
<1> DEFINE Own == shown' # shown => \/ mounted /\ ~mounted'
                                    \/ \E a \in Actions : act(a)
                                    \/ \E x \in asked : x \notin asked'
<1>1. PowerInvariant /\ [Next]_powerVars => [Own]_powerVars
  <2> SUFFICES ASSUME PowerInvariant, Next, shown' # shown
               PROVE  \/ mounted /\ ~mounted'
                      \/ \E a \in Actions : act(a)
                      \/ \E x \in asked : x \notin asked'
    BY DEF powerVars
  <2>1. ASSUME NEW p \in Polls, PollNext(p)
        PROVE  \E x \in asked : x \notin asked'
    <3>1. refreshed(p) /\ poll[p].current
      BY <2>1
      DEF PollNext, refresh, refresh_failed, status_answered, status_raised,
          status_result, refreshed
    <3>2. p \in asked /\ p \notin asked'
      BY <3>1 DEF PowerInvariant, AskedOK, refreshed
    <3> QED
      BY <3>2
  <2>2. ASSUME NEW a \in Actions, ActionNext(a)
        PROVE  \E x \in asked : x \notin asked'
    <3>1. acted(a) /\ action[a].current
      BY <2>2
      DEF ActionNext, start, start_failed, stop, stop_unpaired,
          shutdown_accepted, shutdown_refused, stopped, stop_failed, acted
    <3>2. a \in asked /\ a \notin asked'
      BY <3>1 DEF PowerInvariant, AskedOK, acted
    <3> QED
      BY <3>2
  <2>3. CASE unmount
    BY <2>3 DEF unmount
  <2> QED
    BY <2>1, <2>2, <2>3
    DEF Next, pair_device, mark_paired, paired_elsewhere, mount, switched_on,
        switched_off, second
<1> QED
  BY <1>1, PowerInvariance, PTL DEF Spec, ShownIsOwn

\* Until its deadline a wake is ended by an answer of the machine alone,
\* whichever refreshes were in flight (start and _status of controller.py).
THEOREM WakeNeverCutShort == Spec => WakeNotCutShort
<1>1. PowerInvariant /\ [Next]_powerVars
        => [(state = "starting" /\ timeLeft > 0)
                => state' # "offline"]_powerVars
  <2> SUFFICES ASSUME PowerInvariant, Next, state = "starting", timeLeft > 0
               PROVE  state' # "offline"
    BY DEF powerVars
  <2>1. ASSUME NEW p \in Polls, PollNext(p) PROVE state' # "offline"
    BY <2>1
    DEF PollNext, refresh, refresh_failed, status_answered, status_raised,
        status_result, refreshed, _status, Probed, Checked, Pending, Transient
  <2>2. ASSUME NEW a \in Actions, act(a) \/ ActionNext(a)
        PROVE  state' # "offline"
    BY <2>2 DEF ActionNext, act, start, start_failed, stop, stop_unpaired,
                shutdown_accepted, shutdown_refused, stopped, stop_failed, acted
  <2> QED
    BY <2>1, <2>2
    DEF Next, pair_device, mark_paired, paired_elsewhere, mount, unmount,
        switched_on, switched_off, second
<1> QED
  BY <1>1, PowerInvariance, PTL DEF Spec, WakeNotCutShort
=============================================================================
