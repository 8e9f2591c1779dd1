------------------------ MODULE SbeDumpRequestProofs ------------------------
(***************************************************************************)
(* What monitorDump and requestSBEDump guarantee for every timeout.  One    *)
(* inductive invariant, LoopInv, says how the place of the requester ties   *)
(* the loop's flag, its counter, the waited seconds and the queue together. *)
(***************************************************************************)
EXTENDS SbeDumpRequest, TLAPS

\* The counter is behind the timeout as long as the loop turns, and a second
\* is waited for at most once per turn.
CountInv ==
  /\ rpc = "wait" => secondsCount < Timeout /\ elapsed <= secondsCount /\ ~timedOut
  /\ rpc = "process" => secondsCount < Timeout /\ elapsed <= secondsCount + 1 /\ ~timedOut
  /\ rpc \notin Monitoring \cup Ended => secondsCount = 0 /\ elapsed = 0 /\ ~timedOut
  /\ elapsed <= Timeout
  /\ timedOut => secondsCount = Timeout

\* The loop's flag is cleared by the end of the dump only, and the end is in
\* the queue until then.
FlagInv ==
  /\ rpc \notin Monitoring \cup Ended => queue = <<>> /\ inProgress
  /\ rpc \notin {"lookup", "call", "reply"} \cup Ended => reply = "path"
  /\ rpc \in {"lookup", "call"} => reply = "unasked"
  /\ reply \in {"unasked", "pending"} => dump = "none"
  /\ ~inProgress => dump = "Over"
  /\ \A i \in 1 .. Len(queue) : queue[i] = "Over" => dump = "Over"

LoopInv == CountInv /\ ReturnIsJustified /\ FlagInv /\ EndIsQueued

LEMMA StartState == Init => TypeOK /\ LoopInv
<1>. SUFFICES ASSUME Init PROVE TypeOK /\ LoopInv
  OBVIOUS
<1>. USE TimeoutAssumption, MaxOtherAssumption DEF Init, Monitoring, Ended, MaxElapsed
<1>1. queue \in Seq(Messages)
  OBVIOUS
<1>2. TypeOK
  <2>1. others \in 0 .. MaxOther /\ secondsCount \in 0 .. Timeout /\ elapsed \in 0 .. MaxElapsed
    OBVIOUS
  <2>. QED
    BY <1>1, <2>1, Zenon DEF TypeOK
<1>3. LoopInv
  BY DEF LoopInv, CountInv, FlagInv, ReturnIsJustified, EndIsQueued
<1>. QED
  BY <1>2, <1>3

\* Every step keeps the types, given that the counter is behind the timeout.
LEMMA TypeStep == TypeOK /\ CountInv /\ [Next]_vars => TypeOK'
<1>. SUFFICES ASSUME TypeOK, CountInv, [Next]_vars PROVE TypeOK'
  OBVIOUS
<1>. USE TimeoutAssumption, MaxOtherAssumption DEF TypeOK, MaxElapsed, Monitoring, Ended
<1>1. CASE GetService \/ CallCreateDump \/ TakeReply \/ Subscribe \/ MonitorThrows
  BY <1>1 DEF GetService, CallCreateDump, TakeReply, Subscribe, MonitorThrows, Move
<1>2. CASE Wait
  BY <1>2 DEF Wait
<1>3. CASE Process
  <2>1. queue' \in Seq(Messages)
    BY <1>3 DEF Process, AfterOne
  <2>2. secondsCount' \in 0 .. Timeout
    BY <1>3 DEF Process, CountInv
  <2>. QED
    BY <1>3, <2>1, <2>2 DEF Process, LastTurn
<1>4. CASE HandleCreate
  BY <1>4 DEF HandleCreate, requesterVars
<1>5. CASE FinishDump
  BY <1>5 DEF FinishDump, Deliver, requesterVars, Messages
<1>6. CASE \E m \in Messages : SendOther(m)
  BY <1>6 DEF SendOther, Deliver, requesterVars
<1>7. CASE UNCHANGED vars
  BY <1>7 DEF vars
<1>. QED
  BY <1>1, <1>2, <1>3, <1>4, <1>5, <1>6, <1>7 DEF Next, Request, Finished

\* The counter: it is compared right after it is incremented, so the loop
\* never turns again once it has reached the timeout.
LEMMA CountStep == TypeOK /\ CountInv /\ [Next]_vars => CountInv'
<1>. SUFFICES ASSUME TypeOK, CountInv, [Next]_vars PROVE CountInv'
  OBVIOUS
<1>. USE TimeoutAssumption DEF TypeOK, CountInv, Monitoring, Ended, MaxElapsed
<1>1. CASE GetService \/ CallCreateDump \/ TakeReply \/ Subscribe \/ MonitorThrows
  BY <1>1 DEF GetService, CallCreateDump, TakeReply, Subscribe, MonitorThrows, Move
<1>2. CASE Wait
  BY <1>2 DEF Wait
<1>3. CASE Process
  <2>1. secondsCount' = secondsCount + 1 /\ timedOut' = (secondsCount + 1 = Timeout)
    BY <1>3 DEF Process, LastTurn
  <2>. QED
    BY <1>3, <2>1 DEF Process
<1>4. CASE HandleCreate \/ FinishDump \/ \E m \in Messages : SendOther(m)
  BY <1>4 DEF HandleCreate, FinishDump, SendOther, requesterVars
<1>5. CASE UNCHANGED vars
  BY <1>5 DEF vars
<1>. QED
  BY <1>1, <1>2, <1>3, <1>4, <1>5 DEF Next, Request, Finished

\* The flag and the queue: "Over" enters the queue with the end of the dump,
\* and only its removal clears the flag.
LEMMA FlagStep == TypeOK /\ CountInv /\ FlagInv /\ EndIsQueued /\ [Next]_vars => FlagInv' /\ EndIsQueued'
<1>. SUFFICES ASSUME TypeOK, CountInv, FlagInv, EndIsQueued, [Next]_vars
              PROVE  FlagInv' /\ EndIsQueued'
  OBVIOUS
<1>. USE DEF TypeOK, FlagInv, EndIsQueued, Monitoring, Ended
<1>1. CASE GetService \/ CallCreateDump \/ TakeReply \/ Subscribe \/ MonitorThrows
  BY <1>1 DEF GetService, CallCreateDump, TakeReply, Subscribe, MonitorThrows, Move
<1>2. CASE Wait
  BY <1>2 DEF Wait
<1>3. CASE Process
  <2>1. CASE queue = <<>>
    BY <1>3, <2>1 DEF Process
  <2>2. CASE queue # <<>>
    <3>1. /\ queue' = Tail(queue) /\ Len(queue') = Len(queue) - 1
          /\ \A i \in 1 .. Len(queue') : queue'[i] = queue[i + 1]
          /\ Head(queue) = queue[1] /\ Len(queue) \in Nat \ {0}
      BY <1>3, <2>2 DEF Process, AfterOne
    <3>2. inProgress' = (inProgress /\ queue[1] # "Over")
      BY <1>3, <2>2, <3>1 DEF Process, Clears
    <3>3. FlagInv'
      BY <1>3, <3>1, <3>2 DEF Process
    <3>4. ASSUME NEW i \in 1 .. Len(queue), queue[i] = "Over", queue[1] # "Over"
          PROVE  \E k \in 1 .. Len(queue') : queue'[k] = "Over"
      <4>1. i - 1 \in 1 .. Len(queue') /\ queue'[i - 1] = "Over"
        BY <3>1, <3>4
      <4>. QED
        BY <4>1
    <3>5. EndIsQueued'
      BY <1>3, <3>2, <3>4 DEF Process
    <3>. QED
      BY <3>3, <3>5
  <2>. QED
    BY <2>1, <2>2
<1>4. CASE HandleCreate
  BY <1>4 DEF HandleCreate, requesterVars
<1>5. CASE FinishDump \/ \E m \in Messages : SendOther(m)
  <2>1. CASE rpc \notin Monitoring
    BY <1>5, <2>1 DEF FinishDump, SendOther, Deliver, requesterVars
  <2>2. CASE rpc \in Monitoring
    <3>1. PICK m \in Messages : /\ queue' = Append(queue, m)
                                /\ m = "Over" => dump' = "Over"
                                /\ dump = "Over" => dump' = "Over"
                                /\ dump' = "Over" => dump = "Over" \/ m = "Over"
      BY <1>5, <2>2 DEF FinishDump, SendOther, Deliver, Messages
    <3>2. /\ Len(queue') = Len(queue) + 1 /\ Len(queue) \in Nat
          /\ queue'[Len(queue) + 1] = m
          /\ \A i \in 1 .. Len(queue) : queue'[i] = queue[i]
      BY <3>1
    <3>3. UNCHANGED requesterVars /\ UNCHANGED reply
      BY <1>5 DEF FinishDump, SendOther
    <3>4. FlagInv'
      BY <2>2, <3>1, <3>2, <3>3 DEF requesterVars
    <3>5. EndIsQueued'
      BY <2>2, <3>1, <3>2, <3>3 DEF requesterVars
    <3>. QED
      BY <3>4, <3>5
  <2>. QED
    BY <2>1, <2>2
<1>6. CASE UNCHANGED vars
  BY <1>6 DEF vars
<1>. QED
  BY <1>1, <1>2, <1>3, <1>4, <1>5, <1>6 DEF Next, Request, Finished

\* The loop is left for one of the two reasons its condition tests.
LEMMA ReturnStep ==
  TypeOK /\ LoopInv /\ [Next]_vars => ReturnIsJustified'
<1>. SUFFICES ASSUME TypeOK, CountInv, FlagInv, EndIsQueued, ReturnIsJustified, [Next]_vars
              PROVE  ReturnIsJustified'
  BY DEF LoopInv
<1>. USE DEF TypeOK, ReturnIsJustified, Monitoring, Ended
<1>1. CASE GetService \/ CallCreateDump \/ Subscribe \/ MonitorThrows \/ Wait
  BY <1>1 DEF GetService, CallCreateDump, Subscribe, MonitorThrows, Move, Wait
<1>2. CASE TakeReply
  BY <1>2 DEF TakeReply, Move, CountInv
<1>3. CASE Process
  <2>1. FlagInv'
    BY <1>3, FlagStep
  <2>. QED
    BY <1>3, <2>1 DEF Process, FlagInv
<1>4. CASE HandleCreate \/ FinishDump \/ \E m \in Messages : SendOther(m)
  BY <1>4 DEF HandleCreate, FinishDump, SendOther, requesterVars
<1>5. CASE UNCHANGED vars
  BY <1>5 DEF vars
<1>. QED
  BY <1>1, <1>2, <1>3, <1>4, <1>5 DEF Next, Request, Finished

\* The invariant of the request.
LEMMA LoopInvariant == Spec => [](TypeOK /\ LoopInv)
<1>1. TypeOK /\ LoopInv /\ [Next]_vars => (TypeOK /\ LoopInv)'
  BY TypeStep, CountStep, FlagStep, ReturnStep DEF LoopInv
<1>. QED
  BY <1>1, StartState, PTL DEF Spec

\* Every variable keeps its type, whatever the timeout.
THEOREM TypeCorrect == Spec => []TypeOK
  BY LoopInvariant, PTL

\* requestSBEDump returns only when dumps are disabled, the dump is over or the
\* timeout is used up.
THEOREM ReturnJustified == Spec => []ReturnIsJustified
  BY LoopInvariant, PTL DEF LoopInv

\* From the registration of the match on, the end of the dump is seen.
THEOREM NoEndIsLost == Spec => []EndIsQueued
  BY LoopInvariant, PTL DEF LoopInv

\* The loop waits at most Timeout seconds and gives up only after that many turns.
THEOREM BoundedWait == Spec => []WaitIsBounded
<1>1. LoopInv => WaitIsBounded
  BY DEF LoopInv, CountInv, WaitIsBounded
<1>. QED
  BY <1>1, LoopInvariant, PTL
=============================================================================
