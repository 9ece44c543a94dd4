--------------------------- MODULE HaMasterProofs ---------------------------
(***************************************************************************)
(* Invariance proofs about HaMaster, for any number of callers, masters and *)
(* retries, any strategy and any width of the counter.                      *)
(***************************************************************************)
EXTENDS HaMaster, TLAPS

\* How far into a sweep that starts at s master m comes.
Position(s, m) == IF m >= s THEN m - s ELSE m + MasterCount - s

\* A running call has made one attempt per finished round at every master, and
\* one more at the masters this round has passed; it has heard nothing final.
Swept(c) ==
  Waiting(c) =>
    /\ call[c].round < Rounds
    /\ \A m \in Masters :
         failures[c][m] =
           call[c].round
             + (IF Position(call[c].start, m) < call[c].offset THEN 1 ELSE 0)
    /\ \A outcome \in heard[c] : ~Terminal(call[c].op, outcome)

\* A finished call returns something it heard; an error after full sweeps only.
Settled(c) ==
  call[c].phase = "done" =>
    /\ call[c].last \in heard[c]
    /\ GaveUp(c) => \A m \in Masters : failures[c][m] = Rounds

\* No attempt at a healthy master fails; a failover sweep starts at the first
\* master; no master is ahead of another by more than one attempt.
Even(c) ==
  /\ \A h \in Healthy : failures[c][h] = 0
  /\ Strategy = "Failover" => call[c].start = 0
  /\ \A m, n \in Masters : failures[c][m] <= failures[c][n] + 1

IndInv == TypeOK /\ \A c \in Callers : Swept(c) /\ Settled(c) /\ Even(c)

-----------------------------------------------------------------------------
(* Arithmetic of one sweep.                                                 *)

LEMMA RoundsPositive == Rounds \in Nat /\ Rounds > 0
  BY MaxRetriesAssumption DEF Rounds

\* An index taken once around the list.
LEMMA WrapOnce ==
  ASSUME NEW s \in Masters, NEW o \in Masters
  PROVE  (s + o) % MasterCount
           = IF s + o < MasterCount THEN s + o ELSE s + o - MasterCount
  BY MasterCountAssumption DEF Masters

\* A sweep meets master m at offset Position(s, m) and at no other.
LEMMA SweepMeetsOnce ==
  ASSUME NEW s \in Masters, NEW o \in Masters, NEW m \in Masters
  PROVE  /\ Position(s, m) \in Masters
         /\ (s + o) % MasterCount \in Masters
         /\ (s + o) % MasterCount = m <=> Position(s, m) = o
<1>1. /\ MasterCount \in Nat /\ MasterCount > 0
      /\ s \in 0 .. MasterCount - 1
      /\ o \in 0 .. MasterCount - 1
      /\ m \in 0 .. MasterCount - 1
  BY MasterCountAssumption DEF Masters
<1>2. (s + o) % MasterCount
        = IF s + o < MasterCount THEN s + o ELSE s + o - MasterCount
  BY WrapOnce
<1>3. Position(s, m) \in Masters
  BY <1>1 DEF Masters, Position
<1>4. (s + o) % MasterCount \in Masters
  BY <1>1, <1>2 DEF Masters
<1>5. (s + o) % MasterCount = m <=> Position(s, m) = o
  BY <1>1, <1>2 DEF Position
<1> QED
  BY <1>3, <1>4, <1>5

-----------------------------------------------------------------------------
(* The invariant is inductive.                                              *)

LEMMA FrameFields ==
  ASSUME NEW k \in Frame
  PROVE  /\ k = [phase |-> k.phase, op |-> k.op, start |-> k.start,
                 round |-> k.round, offset |-> k.offset, last |-> k.last]
         /\ k.phase \in {"idle", "waiting", "done"}
         /\ k.op \in Ops /\ k.start \in Masters
         /\ k.round \in 0 .. Rounds /\ k.offset \in Masters
         /\ k.last \in Outcomes \cup {"AllMastersUnavailable"}
  BY DEF Frame

LEMMA OutcomeType ==
  ASSUME NEW op \in Ops, NEW reply
  PROVE  Outcome(op, reply) \in Outcomes
  BY DEF Outcome, Outcomes, Ops

LEMMA InitInv == Init => IndInv
<1> SUFFICES ASSUME Init PROVE IndInv
  OBVIOUS
<1>1. 0 \in Masters
  BY MasterCountAssumption DEF Masters
<1>2. NewFrame("idle", "assign", 0) \in Frame
  BY <1>1, RoundsPositive DEF NewFrame, Frame, Ops
<1>3. TypeOK
  BY <1>1, <1>2, RoundsPositive, CounterModAssumption, MaxCallsAssumption
  DEF Init, TypeOK
<1>4. \A c \in Callers : Swept(c) /\ Settled(c) /\ Even(c)
  <2> SUFFICES ASSUME NEW c \in Callers
               PROVE  Swept(c) /\ Settled(c) /\ Even(c)
    OBVIOUS
  <2>1. /\ call[c] = NewFrame("idle", "assign", 0)
        /\ failures[c] = [m \in Masters |-> 0]
    BY DEF Init
  <2>2. Swept(c) /\ Settled(c)
    BY <2>1 DEF Swept, Settled, Waiting, NewFrame
  <2>3. Even(c)
    BY <2>1, HealthyAssumption DEF Even, NewFrame
  <2> QED
    BY <2>2, <2>3
<1> QED
  BY <1>3, <1>4 DEF IndInv

LEMMA BeginInv ==
  ASSUME IndInv, NEW c \in Callers, NEW op \in Ops, Begin(c, op)
  PROVE  IndInv'
<1>1. PICK s \in StartIndexes :
        /\ call' = [call EXCEPT ![c] = RoundHead(NewFrame("waiting", op, s))]
        /\ starts' = [starts EXCEPT ![s] = @ + 1]
  BY DEF Begin
<1>2. s \in Masters
  BY MasterCountAssumption, StrategyAssumption, CounterModAssumption
  DEF StartIndexes, Masters, Strategies, IndInv, TypeOK
<1>3. RoundHead(NewFrame("waiting", op, s)) = NewFrame("waiting", op, s)
  BY RoundsPositive DEF RoundHead, NewFrame
<1>4. NewFrame("waiting", op, s) \in Frame
  BY <1>2, RoundsPositive, MasterCountAssumption DEF NewFrame, Frame, Masters
<1>5. TypeOK'
  <2>1. current' \in 0 .. CounterMod - 1
    BY CounterModAssumption DEF Begin, NextCurrent, IndInv, TypeOK
  <2>2. call' \in [Callers -> Frame]
    BY <1>1, <1>3, <1>4 DEF IndInv, TypeOK
  <2>3. calls' \in 0 .. MaxCalls /\ starts' \in [Masters -> Nat]
    BY <1>1, <1>2, MaxCallsAssumption DEF Begin, IndInv, TypeOK
  <2>4. failures' \in [Callers -> [Masters -> 0 .. Rounds]]
    BY RoundsPositive DEF Begin, IndInv, TypeOK
  <2>5. heard' \in [Callers -> SUBSET Outcomes]
    BY DEF Begin, IndInv, TypeOK
  <2> QED
    BY <2>1, <2>2, <2>3, <2>4, <2>5 DEF TypeOK
<1>6. ASSUME NEW d \in Callers PROVE Swept(d)' /\ Settled(d)' /\ Even(d)'
  <2>1. CASE d = c
    <3>1. /\ call'[d] = NewFrame("waiting", op, s)
          /\ failures'[d] = [m \in Masters |-> 0]
          /\ heard'[d] = {}
      BY <1>1, <1>3, <2>1 DEF Begin, IndInv, TypeOK
    <3>2. \A m \in Masters : Position(s, m) \in Masters
      BY <1>2, SweepMeetsOnce
    <3>3. Swept(d)'
      BY <3>1, <3>2, RoundsPositive, MasterCountAssumption
      DEF Swept, Waiting, NewFrame, Masters
    <3>4. Settled(d)'
      BY <3>1 DEF Settled, NewFrame
    <3>5. Even(d)'
      <4>1. Strategy = "Failover" => s = 0
        BY DEF StartIndexes
      <4> QED
        BY <3>1, <4>1, HealthyAssumption DEF Even, NewFrame
    <3> QED
      BY <3>3, <3>4, <3>5
  <2>2. CASE d # c
    <3>1. call'[d] = call[d] /\ failures'[d] = failures[d] /\ heard'[d] = heard[d]
      BY <1>1, <2>2 DEF Begin, IndInv, TypeOK
    <3> QED
      BY <3>1 DEF IndInv, Swept, Settled, Even, Waiting, GaveUp
  <2> QED
    BY <2>1, <2>2
<1> QED
  BY <1>5, <1>6 DEF IndInv

LEMMA ConcludeInv ==
  ASSUME IndInv, NEW c \in Callers, NEW reply, Conclude(c, reply)
  PROVE  IndInv'
<1> DEFINE outcome == Outcome(call[c].op, reply)
           k == [call[c] EXCEPT !.phase = "done", !.last = outcome]
<1>1. /\ call[c] \in Frame
      /\ call' = [call EXCEPT ![c] = k]
      /\ heard' = [heard EXCEPT ![c] = @ \cup {outcome}]
      /\ Terminal(call[c].op, outcome)
      /\ UNCHANGED <<current, calls, starts, failures>>
  BY DEF Conclude, IndInv, TypeOK
<1>2. outcome \in Outcomes
  BY <1>1, OutcomeType, FrameFields
<1>3. /\ k \in Frame /\ k.op = call[c].op
      /\ k.phase = "done" /\ k.last = outcome
      /\ k.start = call[c].start
  BY <1>1, <1>2, FrameFields DEF Frame
<1> HIDE DEF outcome, k
<1>4. TypeOK'
  BY <1>1, <1>2, <1>3 DEF IndInv, TypeOK
<1>5. ASSUME NEW d \in Callers PROVE Swept(d)' /\ Settled(d)' /\ Even(d)'
  <2>1. CASE d = c
    <3>1. call'[d] = k /\ outcome \in heard'[d]
      BY <1>1, <2>1 DEF IndInv, TypeOK
    <3>2. Swept(d)' /\ Settled(d)'
      BY <3>1, <1>1, <1>3 DEF Swept, Settled, Waiting, GaveUp
    <3>3. call'[d].start = call[d].start
      BY <3>1, <1>1, <1>3, <2>1
    <3>4. Even(d)'
      BY <3>3, <1>1 DEF IndInv, Even
    <3> QED
      BY <3>2, <3>4
  <2>2. CASE d # c
    <3>1. call'[d] = call[d] /\ failures'[d] = failures[d] /\ heard'[d] = heard[d]
      BY <1>1, <2>2 DEF IndInv, TypeOK
    <3> QED
      BY <3>1 DEF IndInv, Swept, Settled, Even, Waiting, GaveUp
  <2> QED
    BY <2>1, <2>2
<1> QED
  BY <1>4, <1>5 DEF IndInv

\* Where a failed attempt leaves the frame: at the next master of the round, at
\* the start of the next round, or finished.
LEMMA NextAttemptCases ==
  ASSUME NEW k \in Frame, k.phase = "waiting", k.round < Rounds
  PROVE  LET n == NextAttempt(k) IN
         /\ n \in Frame
         /\ n.op = k.op /\ n.start = k.start /\ n.last = k.last
         /\ \/ /\ k.offset + 1 < MasterCount
               /\ n.phase = "waiting"
               /\ n.round = k.round /\ n.offset = k.offset + 1
            \/ /\ k.offset + 1 = MasterCount
               /\ k.round + 1 < Rounds
               /\ n.phase = "waiting"
               /\ n.round = k.round + 1 /\ n.offset = 0
            \/ /\ k.offset + 1 = MasterCount
               /\ k.round + 1 = Rounds
               /\ n.phase = "done"
<1>1. /\ k.offset \in 0 .. MasterCount - 1
      /\ k.round \in 0 .. Rounds - 1
      /\ MasterCount \in Nat /\ MasterCount > 0
      /\ Rounds \in Nat
  BY FrameFields, RoundsPositive, MasterCountAssumption DEF Masters
<1>2. CASE k.offset + 1 < MasterCount
  BY <1>1, <1>2, FrameFields DEF NextAttempt, Frame, Masters
<1>3. CASE k.offset + 1 = MasterCount
  <2> DEFINE n == [k EXCEPT !.offset = 0, !.round = @ + 1]
  <2>1. /\ n.op = k.op /\ n.start = k.start /\ n.last = k.last
        /\ n.phase = "waiting" /\ n.round = k.round + 1 /\ n.offset = 0
        /\ n \in Frame
    <3>1. 0 \in Masters /\ k.round + 1 \in 0 .. Rounds
      BY <1>1 DEF Masters
    <3>2. n.round = k.round + 1 /\ n.offset = 0
          /\ n.phase = k.phase /\ n.op = k.op /\ n.start = k.start
          /\ n.last = k.last
      BY FrameFields
    <3>3. n \in [phase : {"idle", "waiting", "done"}, op : Ops, start : Masters,
                 round : 0 .. Rounds, offset : Masters,
                 last : Outcomes \cup {"AllMastersUnavailable"}]
      BY <3>1, FrameFields DEF Frame
    <3> HIDE DEF n
    <3> QED
      BY <3>2, <3>3 DEF Frame
  <2>2. NextAttempt(k) = IF n.round < Rounds THEN n
                         ELSE [n EXCEPT !.phase = "done"]
    BY <1>1, <1>3 DEF NextAttempt, RoundHead
  <2> HIDE DEF n
  <2>3. CASE k.round + 1 < Rounds
    BY <2>1, <2>2, <2>3, <1>3
  <2>4. CASE k.round + 1 = Rounds
    <3>1. NextAttempt(k) = [n EXCEPT !.phase = "done"]
      BY <1>1, <2>1, <2>2, <2>4
    <3> QED
      BY <1>3, <2>1, <2>4, <3>1, FrameFields DEF Frame
  <2> QED
    BY <1>1, <2>3, <2>4
<1> QED
  BY <1>1, <1>2, <1>3

LEMMA FailOverInv ==
  ASSUME IndInv, NEW c \in Callers,
         NEW reply \in RepliesFrom(Index(call[c]), call[c].op),
         FailOver(c, reply)
  PROVE  IndInv'
<1> DEFINE outcome == Outcome(call[c].op, reply)
           k == [call[c] EXCEPT !.last = outcome]
           i == Index(call[c])
<1>1. /\ call[c] \in Frame
      /\ call[c].phase = "waiting"
      /\ call' = [call EXCEPT ![c] = NextAttempt(k)]
      /\ failures' = [failures EXCEPT ![c][i] = @ + 1]
      /\ heard' = [heard EXCEPT ![c] = @ \cup {outcome}]
      /\ ~Terminal(call[c].op, outcome)
      /\ UNCHANGED <<current, calls, starts>>
  BY DEF FailOver, IndInv, TypeOK
<1>2. outcome \in Outcomes
  BY <1>1, OutcomeType, FrameFields
<1>3. /\ k \in Frame /\ k.phase = "waiting" /\ k.last = outcome
      /\ k.op = call[c].op /\ k.start = call[c].start
      /\ k.round = call[c].round /\ k.offset = call[c].offset
  BY <1>1, <1>2, FrameFields DEF Frame
<1>4. i \in Masters
      /\ \A m \in Masters : m = i <=> Position(k.start, m) = k.offset
  <2>1. i = (k.start + k.offset) % MasterCount
    BY <1>3 DEF Index
  <2>2. k.start \in Masters /\ k.offset \in Masters
    BY <1>3, FrameFields
  <2> HIDE DEF i, k
  <2> QED
    BY <2>1, <2>2, SweepMeetsOnce
<1>5. \A m \in Masters : Position(k.start, m) \in Masters
  BY <1>3, SweepMeetsOnce, FrameFields
<1>6. i \notin Healthy
  <2>1. call[c].op \in Ops
    BY <1>1, FrameFields
  <2> QED
    BY <1>1, <2>1 DEF RepliesFrom, Terminal, Outcome, Ops
<1>7. /\ k.round < Rounds
      /\ \A m \in Masters :
           failures[c][m] =
             k.round + (IF Position(k.start, m) < k.offset THEN 1 ELSE 0)
      /\ \A x \in heard[c] : ~Terminal(k.op, x)
  BY <1>1, <1>3 DEF IndInv, Swept, Waiting
<1> DEFINE n == NextAttempt(k)
<1>8. /\ n \in Frame
      /\ n.op = k.op /\ n.start = k.start /\ n.last = k.last
      /\ \/ /\ k.offset + 1 < MasterCount
            /\ n.phase = "waiting"
            /\ n.round = k.round /\ n.offset = k.offset + 1
         \/ /\ k.offset + 1 = MasterCount
            /\ k.round + 1 < Rounds
            /\ n.phase = "waiting"
            /\ n.round = k.round + 1 /\ n.offset = 0
         \/ /\ k.offset + 1 = MasterCount
            /\ k.round + 1 = Rounds
            /\ n.phase = "done"
  BY <1>3, <1>7, NextAttemptCases
<1> HIDE DEF n, k, i, outcome
<1>9. /\ k.round \in Nat /\ k.offset \in 0 .. MasterCount - 1
      /\ Masters = 0 .. MasterCount - 1
      /\ MasterCount \in Nat /\ MasterCount > 0 /\ Rounds \in Nat
      /\ \A m \in Masters : failures[c][m] \in 0 .. Rounds
  BY <1>3, FrameFields, MasterCountAssumption, RoundsPositive
  DEF Masters, IndInv, TypeOK
<1>10. \A m \in Masters :
         failures'[c][m] =
           k.round + (IF Position(k.start, m) < k.offset + 1 THEN 1 ELSE 0)
  <2> SUFFICES ASSUME NEW m \in Masters
               PROVE  failures'[c][m] =
                        k.round + (IF Position(k.start, m) < k.offset + 1
                                   THEN 1 ELSE 0)
    OBVIOUS
  <2>1. failures'[c][m] = IF m = i THEN failures[c][m] + 1 ELSE failures[c][m]
    BY <1>1, <1>4 DEF IndInv, TypeOK
  <2>2. Position(k.start, m) \in 0 .. MasterCount - 1
    BY <1>5, <1>9
  <2>3. m = i <=> Position(k.start, m) = k.offset
    BY <1>4
  <2>4. failures[c][m] =
          k.round + (IF Position(k.start, m) < k.offset THEN 1 ELSE 0)
    BY <1>7
  <2> QED
    BY <1>9, <2>1, <2>2, <2>3, <2>4
<1>11. TypeOK'
  <2>1. call' \in [Callers -> Frame]
    BY <1>1, <1>8 DEF IndInv, TypeOK, n
  <2>2. k.round + 1 \in 0 .. Rounds
    BY <1>7, <1>9
  <2>3. failures'[c][i] \in 0 .. Rounds
    BY <1>4, <1>9, <1>10, <2>2
  <2>4. failures' \in [Callers -> [Masters -> 0 .. Rounds]]
    <3>1. failures[c][i] + 1 \in 0 .. Rounds
      BY <1>1, <1>4, <2>3 DEF IndInv, TypeOK
    <3> QED
      BY <1>1, <1>4, <3>1 DEF IndInv, TypeOK
  <2>5. heard' \in [Callers -> SUBSET Outcomes]
    BY <1>1, <1>2 DEF IndInv, TypeOK
  <2> QED
    BY <1>1, <2>1, <2>4, <2>5 DEF IndInv, TypeOK
<1>12. ASSUME NEW d \in Callers PROVE Swept(d)' /\ Settled(d)' /\ Even(d)'
  <2>1. CASE d = c
    <3>1. call'[d] = n /\ heard'[d] = heard[c] \cup {outcome}
      BY <1>1, <2>1 DEF IndInv, TypeOK, n
    <3>2. \A x \in heard'[d] : ~Terminal(n.op, x)
      BY <1>1, <1>3, <1>7, <1>8, <3>1
    <3>3. \A m \in Masters : Position(k.start, m) \in 0 .. MasterCount - 1
      BY <1>5, <1>9
    <3>4. Swept(d)'
      <4> SUFFICES ASSUME n.phase = "waiting" PROVE Swept(d)'
        BY <3>1 DEF Swept, Waiting
      <4>1. n.round < Rounds
        BY <1>7, <1>8, <1>9
      <4>2. ASSUME NEW m \in Masters
            PROVE  failures'[d][m] =
                     n.round + (IF Position(n.start, m) < n.offset
                                THEN 1 ELSE 0)
        <5>1. /\ Position(k.start, m) \in 0 .. MasterCount - 1
              /\ failures'[d][m] =
                   k.round + (IF Position(k.start, m) < k.offset + 1
                              THEN 1 ELSE 0)
          BY <1>10, <2>1, <3>3
        <5> QED
          BY <5>1, <1>8, <1>9
      <4> QED
        BY <3>1, <3>2, <4>1, <4>2 DEF Swept, Waiting
    <3>5. Settled(d)'
      <4> SUFFICES ASSUME n.phase = "done"
                   PROVE  /\ n.last \in heard'[d]
                          /\ \A m \in Masters : failures'[d][m] = Rounds
        BY <3>1 DEF Settled
      <4>1. n.last \in heard'[d]
        BY <1>3, <1>8, <3>1
      <4>2. k.offset + 1 = MasterCount /\ k.round + 1 = Rounds
        BY <1>8
      <4>3. ASSUME NEW m \in Masters PROVE failures'[d][m] = Rounds
        <5>1. failures'[d][m] =
                k.round + (IF Position(k.start, m) < k.offset + 1 THEN 1 ELSE 0)
          BY <1>10, <2>1
        <5>2. Position(k.start, m) \in 0 .. MasterCount - 1
          BY <3>3
        <5> QED
          BY <1>9, <4>2, <5>1, <5>2
      <4> QED
        BY <4>1, <4>3
    <3>6. Even(d)'
      <4>1. \A h \in Healthy : failures'[d][h] = 0
        BY <1>1, <1>4, <1>6, <2>1, HealthyAssumption DEF IndInv, TypeOK, Even
      <4>2. Strategy = "Failover" => call'[d].start = 0
        BY <1>3, <1>8, <2>1, <3>1 DEF IndInv, Even
      <4>3. \A m, l \in Masters : failures'[d][m] <= failures'[d][l] + 1
        <5> SUFFICES ASSUME NEW m \in Masters, NEW l \in Masters
                     PROVE  failures'[d][m] <= failures'[d][l] + 1
          OBVIOUS
        <5>1. /\ failures'[d][m] \in {k.round, k.round + 1}
              /\ failures'[d][l] \in {k.round, k.round + 1}
          BY <1>9, <1>10, <2>1
        <5> QED
          BY <1>9, <5>1
      <4> QED
        BY <4>1, <4>2, <4>3 DEF Even
    <3> QED
      BY <3>4, <3>5, <3>6
  <2>2. CASE d # c
    <3>1. call'[d] = call[d] /\ failures'[d] = failures[d] /\ heard'[d] = heard[d]
      BY <1>1, <2>2 DEF IndInv, TypeOK
    <3> QED
      BY <3>1 DEF IndInv, Swept, Settled, Even, Waiting, GaveUp
  <2> QED
    BY <2>1, <2>2
<1> QED
  BY <1>11, <1>12 DEF IndInv

-----------------------------------------------------------------------------
(* Theorems.                                                                *)

LEMMA StepInv == IndInv /\ [Next]_vars => IndInv'
<1> SUFFICES ASSUME IndInv, [Next]_vars PROVE IndInv'
  OBVIOUS
<1>1. CASE \E c \in Callers, op \in Ops : Begin(c, op)
  BY <1>1, BeginInv
<1>2. CASE \E c \in Callers :
             \E reply \in RepliesFrom(Index(call[c]), call[c].op) :
               Conclude(c, reply)
  BY <1>2, ConcludeInv
<1>3. CASE \E c \in Callers :
             \E reply \in RepliesFrom(Index(call[c]), call[c].op) :
               FailOver(c, reply)
  BY <1>3, FailOverInv
<1>4. CASE UNCHANGED vars
  BY <1>4 DEF vars, IndInv, TypeOK, Swept, Settled, Even, Waiting, GaveUp
<1> QED
  BY <1>1, <1>2, <1>3, <1>4 DEF Next, Settle

THEOREM Invariance == Spec => []IndInv
<1> QED
  BY InitInv, StepInv, PTL DEF Spec

\* Every variable keeps its type; in particular the index into the list of
\* masters is in range at every attempt (ha.rs:117-118, 136-137).
THEOREM TypeCorrect == Spec => []TypeOK
<1>1. IndInv => TypeOK
  BY DEF IndInv
<1> QED
  BY Invariance, <1>1, PTL

\* A call gives up only after max_retries.max(1) failed attempts at each and
\* every master.
THEOREM FullSweeps == Spec => []FailsOnlyAfterFullSweeps
<1>1. IndInv => FailsOnlyAfterFullSweeps
  BY DEF IndInv, Settled, GaveUp, FailsOnlyAfterFullSweeps
<1> QED
  BY Invariance, <1>1, PTL

\* What a call returns is something a master told this very call.
THEOREM Evidence == Spec => []ErrorIsEvidence
<1>1. IndInv => ErrorIsEvidence
  BY DEF IndInv, Settled, ErrorIsEvidence
<1> QED
  BY Invariance, <1>1, PTL

\* No request is sent after a final answer.
THEOREM FinalAnswer == Spec => []FinalAnswerEndsTheSweep
<1>1. IndInv => FinalAnswerEndsTheSweep
  BY DEF IndInv, Swept, Terminal, FinalAnswerEndsTheSweep
<1> QED
  BY Invariance, <1>1, PTL

\* A call that gave up would have failed at the healthy master.
LEMMA HealthyMasterSuffices == IndInv => OneHealthyMasterIsEnough
<1> SUFFICES ASSUME IndInv, NEW h \in Healthy, NEW c \in Callers, GaveUp(c)
             PROVE  FALSE
  BY DEF OneHealthyMasterIsEnough
<1>1. failures[c][h] = 0
  BY DEF IndInv, Even
<1>2. failures[c][h] = Rounds
  BY HealthyAssumption DEF IndInv, Settled, GaveUp
<1> QED
  BY <1>1, <1>2, RoundsPositive

\* One healthy master is enough for every call to succeed.
THEOREM OneHealthy == Spec => []OneHealthyMasterIsEnough
  BY Invariance, HealthyMasterSuffices, PTL

\* A sweep that starts at the head of the list is at its offset.
LEMMA ListOrderKept == IndInv => FailoverKeepsListOrder
<1> SUFFICES ASSUME IndInv, Strategy = "Failover",
                    NEW c \in Callers, Waiting(c), NEW m \in Masters
             PROVE  failures[c][m] =
                      call[c].round + (IF m < Index(call[c]) THEN 1 ELSE 0)
  BY DEF FailoverKeepsListOrder
<1>1. /\ call[c] \in Frame
      /\ call[c].start = 0
      /\ failures[c][m] =
           call[c].round
             + (IF Position(call[c].start, m) < call[c].offset THEN 1 ELSE 0)
  BY DEF IndInv, TypeOK, Even, Swept
<1>2. /\ MasterCount \in Nat /\ MasterCount > 0
      /\ m \in 0 .. MasterCount - 1
      /\ call[c].offset \in 0 .. MasterCount - 1
  BY <1>1, FrameFields, MasterCountAssumption DEF Masters
<1>3. Position(0, m) = m
  BY <1>2 DEF Position
<1>4. Index(call[c]) = call[c].offset
  <2>1. 0 \in Masters /\ call[c].offset \in Masters
    BY <1>2 DEF Masters
  <2>2. (0 + call[c].offset) % MasterCount = call[c].offset
    BY <2>1, <1>2, WrapOnce
  <2> QED
    BY <1>1, <2>2 DEF Index
<1> QED
  BY <1>1, <1>3, <1>4

\* Under Failover every attempt goes to the first master of the list that has
\* not failed in this round.
THEOREM ListOrder == Spec => []FailoverKeepsListOrder
  BY Invariance, ListOrderKept, PTL

\* Within a call no master is asked again before every other was asked as often.
THEOREM EvenSweeps == Spec => []SweepsAreEven
<1>1. IndInv => SweepsAreEven
  <2> SUFFICES ASSUME IndInv, NEW c \in Callers,
                      NEW m \in Masters, NEW n \in Masters
               PROVE  Abs(failures[c][m] - failures[c][n]) <= 1
    BY DEF SweepsAreEven
  <2>1. /\ failures[c][m] \in 0 .. Rounds /\ failures[c][n] \in 0 .. Rounds
        /\ failures[c][m] <= failures[c][n] + 1
        /\ failures[c][n] <= failures[c][m] + 1
    BY DEF IndInv, TypeOK, Even
  <2> QED
    BY <2>1, RoundsPositive DEF Abs
<1> QED
  BY Invariance, <1>1, PTL

-----------------------------------------------------------------------------
(* The steps of a sweep are steps of the abstract call, MasterCall.         *)

AbsStatuses == [c \in Callers |-> AbsStatus(c)]
AbsBudgets == [c \in Callers |-> [m \in Masters |-> Rounds - failures[c][m]]]

\* A running call has an attempt left: the one at hand.
AttemptsLeft ==
  \A c \in Callers : Waiting(c) => \E m \in Masters : failures[c][m] < Rounds

LEMMA AttemptLeft == IndInv => AttemptsLeft
<1> SUFFICES ASSUME IndInv, NEW c \in Callers, Waiting(c)
             PROVE  \E m \in Masters : failures[c][m] < Rounds
  BY DEF AttemptsLeft
<1> DEFINE k == call[c]
           i == (k.start + k.offset) % MasterCount
<1>1. /\ k.start \in Masters /\ k.offset \in Masters /\ k.round \in 0 .. Rounds
      /\ k.round < Rounds
      /\ \A m \in Masters :
           failures[c][m] =
             k.round + (IF Position(k.start, m) < k.offset THEN 1 ELSE 0)
  BY FrameFields DEF IndInv, TypeOK, Swept
<1> HIDE DEF k
<1>2. i \in Masters /\ Position(k.start, i) = k.offset
  BY <1>1, SweepMeetsOnce
<1> HIDE DEF i
<1>3. k.offset \in Nat
  BY <1>1, MasterCountAssumption DEF Masters
<1>4. failures[c][i] = k.round
  BY <1>1, <1>2, <1>3, RoundsPositive
<1> QED
  BY <1>1, <1>2, <1>4

LEMMA AttemptLeftNext == IndInv' => AttemptsLeft'
  BY AttemptLeft, PTL

\* The status of a caller whose call is not touched.
LEMMA OtherStatus ==
  ASSUME NEW d \in Callers, call'[d] = call[d]
  PROVE  AbsStatus(d)' = AbsStatus(d)
  BY DEF AbsStatus

LEMMA InitMaps == Init => Promise!Init
<1> SUFFICES ASSUME Init PROVE Promise!Init
  OBVIOUS
<1>1. \A c \in Callers : AbsStatus(c) = "idle"
  BY DEF Init, AbsStatus, NewFrame
<1>2. \A c \in Callers : \A m \in Masters : Rounds - failures[c][m] = Rounds
  BY RoundsPositive DEF Init
<1> QED
  BY <1>1, <1>2, RoundsPositive DEF Promise!Init

LEMMA BeginMaps ==
  ASSUME IndInv, NEW c \in Callers, NEW op \in Ops, Begin(c, op)
  PROVE  Promise!Next
<1>1. PICK s \in StartIndexes :
        call' = [call EXCEPT ![c] = RoundHead(NewFrame("waiting", op, s))]
  BY DEF Begin
<1>2. RoundHead(NewFrame("waiting", op, s)) = NewFrame("waiting", op, s)
  BY RoundsPositive DEF RoundHead, NewFrame
<1>3. /\ call'[c].phase = "waiting" /\ call[c].phase # "waiting"
      /\ \A d \in Callers \ {c} : call'[d] = call[d]
  BY <1>1, <1>2 DEF Begin, NewFrame, IndInv, TypeOK
<1>4. AbsStatus(c)' = "calling" /\ AbsStatus(c) # "calling"
  BY <1>3 DEF AbsStatus
<1>5. AbsStatuses' = [AbsStatuses EXCEPT ![c] = "calling"]
  BY <1>3, <1>4, OtherStatus DEF AbsStatuses
<1>6. AbsBudgets' = [AbsBudgets EXCEPT ![c] = [m \in Masters |-> Rounds]]
  <2>1. \A m \in Masters : Rounds - failures'[c][m] = Rounds
    BY RoundsPositive DEF Begin, IndInv, TypeOK
  <2>2. \A d \in Callers \ {c} : failures'[d] = failures[d]
    BY DEF Begin, IndInv, TypeOK
  <2> QED
    BY <2>1, <2>2 DEF AbsBudgets
<1> QED
  BY <1>4, <1>5, <1>6 DEF AbsStatuses, AbsBudgets, Promise!Next, Promise!Invoke

LEMMA ConcludeMaps ==
  ASSUME IndInv, NEW c \in Callers, NEW reply, Conclude(c, reply)
  PROVE  Promise!Next
<1> DEFINE k == call[c]
           outcome == Outcome(k.op, reply)
           n == [k EXCEPT !.phase = "done", !.last = outcome]
<1>1. /\ k \in Frame /\ k.phase = "waiting" /\ call' = [call EXCEPT ![c] = n]
      /\ Terminal(k.op, outcome) /\ failures' = failures
  BY DEF Conclude, IndInv, TypeOK
<1>2. n.phase = "done" /\ n.last = outcome
  BY <1>1 DEF Frame
<1>3. call'[c] = n /\ \A d \in Callers \ {c} : call'[d] = call[d]
  BY <1>1 DEF IndInv, TypeOK
<1>4. outcome \in {"Ok", "VolumeNotFound"}
  BY <1>1 DEF Terminal
<1> HIDE DEF n, outcome
<1> DEFINE result == IF outcome = "Ok" THEN "ok" ELSE "not_found"
<1>5. AbsStatus(c) = "calling" /\ AbsStatus(c)' = result
  BY <1>1, <1>2, <1>3, <1>4 DEF AbsStatus
<1>6. result \in {"ok", "not_found"}
  OBVIOUS
<1> HIDE DEF result
<1>7. AbsStatuses' = [AbsStatuses EXCEPT ![c] = result]
  BY <1>3, <1>5, OtherStatus DEF AbsStatuses
<1>8. AbsBudgets' = AbsBudgets
  BY <1>1 DEF AbsBudgets
<1>9. \E m \in Masters : AbsBudgets[c][m] > 0
  <2>1. PICK m \in Masters : failures[c][m] < Rounds
    BY <1>1, AttemptLeft DEF AttemptsLeft, Waiting
  <2>2. failures[c][m] \in 0 .. Rounds
    BY DEF IndInv, TypeOK
  <2> QED
    BY <2>1, <2>2, RoundsPositive DEF AbsBudgets
<1> QED
  BY <1>5, <1>6, <1>7, <1>8, <1>9
  DEF AbsStatuses, AbsBudgets, Promise!Next, Promise!Answered

LEMMA FailOverMaps ==
  ASSUME IndInv, IndInv', NEW c \in Callers,
         NEW reply \in RepliesFrom(Index(call[c]), call[c].op),
         FailOver(c, reply)
  PROVE  Promise!Next
<1> DEFINE k == call[c]
           outcome == Outcome(k.op, reply)
           e == [k EXCEPT !.last = outcome]
           n == NextAttempt(e)
<1>1. /\ k \in Frame /\ k.phase = "waiting" /\ k.round < Rounds
      /\ call' = [call EXCEPT ![c] = n]
      /\ failures' = [failures EXCEPT ![c][Index(k)] = @ + 1]
      /\ ~Terminal(k.op, outcome)
  BY DEF FailOver, IndInv, TypeOK, Swept, Waiting
<1>2. outcome \in Outcomes /\ k.op \in Ops /\ k.round \in 0 .. Rounds
  BY <1>1, OutcomeType, FrameFields
<1>3. outcome \notin {"Ok", "VolumeNotFound"}
  BY <1>1, <1>2 DEF Terminal, Outcome, Ops
<1>4. e \in Frame /\ e.phase = "waiting" /\ e.last = outcome /\ e.round = k.round
  BY <1>1, <1>2, FrameFields DEF Frame
<1>5. PICK i \in Masters : i = Index(k)
  BY <1>1, SweepMeetsOnce, FrameFields DEF Index
<1> HIDE DEF e, outcome
<1>6. n.phase \in {"waiting", "done"} /\ n.last = outcome
  BY <1>1, <1>4, NextAttemptCases
<1> HIDE DEF n
<1>7. call'[c] = n /\ \A d \in Callers \ {c} : call'[d] = call[d]
  BY <1>1 DEF IndInv, TypeOK
<1>8. /\ failures \in [Callers -> [Masters -> 0 .. Rounds]]
      /\ failures' \in [Callers -> [Masters -> 0 .. Rounds]]
  BY DEF IndInv, TypeOK
<1>9. /\ failures'[c][i] = failures[c][i] + 1
      /\ \A m \in Masters : m # i => failures'[c][m] = failures[c][m]
      /\ \A d \in Callers \ {c} : failures'[d] = failures[d]
  BY <1>1, <1>5, <1>8
<1>10. AbsBudgets' = [AbsBudgets EXCEPT ![c][i] = @ - 1] /\ AbsBudgets[c][i] > 0
  <2> DEFINE x == failures[c][i]
             y == failures'[c][i]
  <2>1. x \in 0 .. Rounds /\ y \in 0 .. Rounds /\ y = x + 1
    BY <1>5, <1>8, <1>9
  <2>2. AbsBudgets[c][i] = Rounds - x /\ AbsBudgets'[c][i] = Rounds - y
    BY <1>5 DEF AbsBudgets
  <2> HIDE DEF x, y
  <2>3. AbsBudgets'[c][i] = AbsBudgets[c][i] - 1 /\ AbsBudgets[c][i] > 0
    BY <2>1, <2>2, RoundsPositive
  <2>4. \A d \in Callers, m \in Masters :
          (d # c \/ m # i) => AbsBudgets'[d][m] = AbsBudgets[d][m]
    BY <1>9 DEF AbsBudgets
  <2>5. /\ AbsBudgets = [d \in Callers |-> [m \in Masters |-> AbsBudgets[d][m]]]
        /\ AbsBudgets' = [d \in Callers |-> [m \in Masters |-> AbsBudgets'[d][m]]]
    BY DEF AbsBudgets
  <2> QED
    BY <1>5, <2>3, <2>4, <2>5
<1>11. AbsStatus(c) = "calling"
  BY <1>1 DEF AbsStatus
<1>12. (\A m \in Masters : AbsBudgets'[c][m] = 0) <=> n.phase = "done"
  <2>1. \A m \in Masters : /\ AbsBudgets'[c][m] = Rounds - failures'[c][m]
                           /\ failures'[c][m] \in 0 .. Rounds
    BY <1>8 DEF AbsBudgets
  <2>2. CASE n.phase = "waiting"
    <3>1. PICK m \in Masters : failures'[c][m] < Rounds
      BY <1>7, <2>2, AttemptLeftNext DEF AttemptsLeft, Waiting
    <3> QED
      BY <2>1, <2>2, <3>1, RoundsPositive
  <2>3. CASE n.phase = "done"
    <3>1. GaveUp(c)'
      BY <1>3, <1>6, <1>7, <2>3 DEF GaveUp, Terminal
    <3>2. \A m \in Masters : failures'[c][m] = Rounds
      BY <1>7, <2>3, <3>1 DEF IndInv, Settled
    <3> QED
      BY <2>1, <2>3, <3>2, RoundsPositive
  <2> QED
    BY <1>6, <2>2, <2>3
<1>13. AbsStatus(c)' = IF \A m \in Masters : AbsBudgets'[c][m] = 0
                       THEN "failed" ELSE "calling"
  <2>1. CASE n.phase = "waiting"
    BY <1>7, <1>12, <2>1 DEF AbsStatus
  <2>2. CASE n.phase = "done"
    BY <1>3, <1>6, <1>7, <1>12, <2>2 DEF AbsStatus
  <2> QED
    BY <1>6, <2>1, <2>2
<1>14. AbsStatuses' = [AbsStatuses EXCEPT ![c] =
                         IF \A m \in Masters : AbsBudgets'[c][m] = 0
                         THEN "failed" ELSE "calling"]
  BY <1>7, <1>13, OtherStatus DEF AbsStatuses
<1>15. Promise!Refused(c, i)
  BY <1>10, <1>11, <1>14 DEF AbsStatuses, AbsBudgets, Promise!Refused
<1> QED
  BY <1>15 DEF Promise!Next

LEMMA StepMaps == IndInv /\ IndInv' /\ [Next]_vars => [Promise!Next]_(Promise!vars)
<1> SUFFICES ASSUME IndInv, IndInv', [Next]_vars PROVE [Promise!Next]_(Promise!vars)
  OBVIOUS
<1>1. CASE UNCHANGED vars
  BY <1>1 DEF vars, Promise!vars, AbsStatus
<1> QED
  BY <1>1, BeginMaps, ConcludeMaps, FailOverMaps DEF Next, Settle

\* A call ends with an answer, or fails when every master has failed as often as
\* the configuration allows: in every step the client keeps what MasterCall
\* promises.
THEOREM SweepKeepsPromise == Spec => Promise!Safety
<1>1. Init => Promise!Init
  BY InitMaps
<1>2. IndInv /\ IndInv' /\ [Next]_vars => [Promise!Next]_(Promise!vars)
  BY StepMaps
<1> QED
  BY Invariance, <1>1, <1>2, PTL DEF Spec, Promise!Safety

-----------------------------------------------------------------------------
(* Round robin.                                                             *)

LEMMA DivMod ==
  ASSUME NEW x \in Nat, NEW n \in Nat \ {0}
  PROVE  /\ x % n \in 0 .. n - 1 /\ x \div n \in Nat
         /\ x = (n * (x \div n)) + (x % n)
  OBVIOUS

LEMMA DivModUnique ==
  ASSUME NEW x \in Nat, NEW n \in Nat \ {0}, NEW q \in Nat, NEW r \in 0 .. n - 1,
         x = (n * q) + r
  PROVE  x \div n = q /\ x % n = r
  OBVIOUS

LEMMA ModSmall ==
  ASSUME NEW n \in Nat \ {0}, NEW x \in 0 .. n - 1
  PROVE  x % n = x
  OBVIOUS

\* Counting up by one: the remainder follows, or wraps and carries.
LEMMA DivModNext ==
  ASSUME NEW x \in Nat, NEW n \in Nat \ {0}
  PROVE  /\ x % n \in 0 .. n - 1
         /\ (x + 1) % n = IF (x % n) + 1 < n THEN (x % n) + 1 ELSE 0
         /\ (x + 1) \div n = IF (x % n) + 1 < n THEN x \div n ELSE (x \div n) + 1
<1> DEFINE q == x \div n
           r == x % n
<1>1. q \in Nat /\ r \in 0 .. n - 1 /\ x = (n * q) + r
  BY DivMod
<1> HIDE DEF q, r
<1>2. CASE r + 1 < n
  <2>1. r + 1 \in 0 .. n - 1 /\ x + 1 = (n * q) + (r + 1) /\ x + 1 \in Nat
    BY <1>1, <1>2
  <2>2. (x + 1) \div n = q /\ (x + 1) % n = r + 1
    BY <1>1, <2>1, DivModUnique
  <2> QED
    BY <1>1, <1>2, <2>2 DEF q, r
<1>3. CASE r + 1 = n
  <2>1. n * (q + 1) = (n * q) + n
    BY <1>1
  <2>2. q + 1 \in Nat /\ 0 \in 0 .. n - 1 /\ x + 1 = (n * (q + 1)) + 0 /\ x + 1 \in Nat
    BY <1>1, <1>3, <2>1
  <2>3. (x + 1) \div n = q + 1 /\ (x + 1) % n = 0
    BY <1>1, <2>2, DivModUnique
  <2> QED
    BY <1>1, <1>3, <2>3 DEF q, r
<1> QED
  BY <1>1, <1>2, <1>3

\* Whether master m has had its turn in the deal under way.
Dealt(m) == IF m < current % MasterCount THEN 1 ELSE 0

\* The counter counts calls, and wraps. No two masters are further apart than
\* the deal under way puts them, and one more for each deal a wrap cut short.
Balanced ==
  Strategy = "RoundRobin" =>
    /\ current = calls % CounterMod
    /\ \A m, l \in Masters :
         starts[m] - starts[l] <= (calls \div CounterMod) + Dealt(m) - Dealt(l)

LEMMA BalancedInit == Init => Balanced
<1> SUFFICES ASSUME Init PROVE Balanced
  OBVIOUS
<1>1. 0 % CounterMod = 0 /\ 0 \div CounterMod = 0 /\ 0 % MasterCount = 0
  BY CounterModAssumption, MasterCountAssumption
<1>2. \A m \in Masters : Dealt(m) = 0 /\ starts[m] = 0
  BY <1>1, MasterCountAssumption DEF Init, Dealt, Masters
<1> QED
  BY <1>1, <1>2 DEF Init, Balanced

\* Dealing one call to s moves the bound between any two masters with it.
LEMMA DealOne ==
  ASSUME NEW n \in Nat \ {0}, NEW s \in 0 .. n - 1, NEW t \in Nat,
         NEW m \in 0 .. n - 1, NEW l \in 0 .. n - 1,
         NEW a \in Nat, NEW b \in Nat, NEW w \in Nat, NEW ww \in Nat,
         a - b <= w + (IF m < s THEN 1 ELSE 0) - (IF l < s THEN 1 ELSE 0),
         \/ ww = w /\ t = IF s + 1 < n THEN s + 1 ELSE 0
         \/ ww = w + 1 /\ t = 0
  PROVE  (IF m = s THEN a + 1 ELSE a) - (IF l = s THEN b + 1 ELSE b)
           <= ww + (IF m < t THEN 1 ELSE 0) - (IF l < t THEN 1 ELSE 0)
<1>1. CASE s + 1 < n
  BY <1>1
<1>2. CASE s + 1 = n
  BY <1>2
<1> QED
  BY <1>1, <1>2

LEMMA BalancedBegin ==
  ASSUME IndInv, Balanced, Strategy = "RoundRobin",
         NEW c \in Callers, NEW op \in Ops, Begin(c, op)
  PROVE  Balanced'
<1> DEFINE n == MasterCount
           w == calls \div CounterMod
           ww == calls' \div CounterMod
           s == current % n
           t == current' % n
<1>1. /\ n \in Nat \ {0} /\ CounterMod \in Nat \ {0} /\ Masters = 0 .. n - 1
      /\ current \in Nat /\ calls \in Nat /\ starts \in [Masters -> Nat]
      /\ current = calls % CounterMod
      /\ calls' = calls + 1 /\ current' = (current + 1) % CounterMod
  BY MasterCountAssumption, CounterModAssumption
  DEF Begin, NextCurrent, IndInv, TypeOK, Balanced, Masters
<1>2. starts' = [starts EXCEPT ![s] = @ + 1]
  BY DEF Begin, StartIndexes
<1>3. /\ current \in 0 .. CounterMod - 1 /\ w \in Nat
      /\ calls' % CounterMod = IF current + 1 < CounterMod THEN current + 1 ELSE 0
      /\ ww = IF current + 1 < CounterMod THEN w ELSE w + 1
  BY <1>1, DivModNext, DivMod
<1>4. current' = calls' % CounterMod
  <2>1. current % CounterMod = current
    BY <1>1, <1>3, ModSmall
  <2>2. (current + 1) % CounterMod
          = IF current + 1 < CounterMod THEN current + 1 ELSE 0
    BY <1>1, <2>1, DivModNext
  <2> QED
    BY <1>1, <1>3, <2>2
<1>5. /\ s \in 0 .. n - 1
      /\ (current + 1) % n = IF s + 1 < n THEN s + 1 ELSE 0
  BY <1>1, DivModNext
<1>6. 0 % n = 0
  BY <1>1
<1>7. \/ /\ current' = current + 1 /\ ww = w
         /\ t = IF s + 1 < n THEN s + 1 ELSE 0
      \/ ww = w + 1 /\ t = 0
  BY <1>1, <1>3, <1>4, <1>5, <1>6
<1>8. ASSUME NEW m \in Masters, NEW l \in Masters
      PROVE  starts'[m] - starts'[l] <= ww + Dealt(m)' - Dealt(l)'
  <2>1. /\ starts'[m] = IF m = s THEN starts[m] + 1 ELSE starts[m]
        /\ starts'[l] = IF l = s THEN starts[l] + 1 ELSE starts[l]
    BY <1>1, <1>2
  <2>2. starts[m] - starts[l] <= w + Dealt(m) - Dealt(l)
    BY DEF Balanced
  <2>3. /\ Dealt(m) = IF m < s THEN 1 ELSE 0
        /\ Dealt(l) = IF l < s THEN 1 ELSE 0
        /\ Dealt(m)' = IF m < t THEN 1 ELSE 0
        /\ Dealt(l)' = IF l < t THEN 1 ELSE 0
    BY DEF Dealt
  <2>4. /\ m \in 0 .. n - 1 /\ l \in 0 .. n - 1
        /\ starts[m] \in Nat /\ starts[l] \in Nat
    BY <1>1
  <2>5. t \in Nat /\ ww \in Nat
    <3> HIDE DEF w, ww, s, t
    <3> QED
      BY <1>1, <1>3, <1>5, <1>7
  <2>6. \/ ww = w /\ t = IF s + 1 < n THEN s + 1 ELSE 0
        \/ ww = w + 1 /\ t = 0
    BY <1>7
  <2>7. starts[m] - starts[l]
          <= w + (IF m < s THEN 1 ELSE 0) - (IF l < s THEN 1 ELSE 0)
    BY <2>2, <2>3
  <2> DEFINE a == starts[m]
             b == starts[l]
  <2> HIDE DEF w, ww, s, t, a, b, n
  <2>8. (IF m = s THEN a + 1 ELSE a) - (IF l = s THEN b + 1 ELSE b)
          <= ww + (IF m < t THEN 1 ELSE 0) - (IF l < t THEN 1 ELSE 0)
    <3>1. a \in Nat /\ b \in Nat
      BY <2>4 DEF a, b
    <3>2. a - b <= w + (IF m < s THEN 1 ELSE 0) - (IF l < s THEN 1 ELSE 0)
      BY <2>7 DEF a, b
    <3>3. n \in Nat \ {0} /\ w \in Nat /\ m \in 0 .. n - 1 /\ l \in 0 .. n - 1
      BY <1>1, <1>3, <2>4
    <3> QED
      BY <1>5, <2>5, <2>6, <3>1, <3>2, <3>3, DealOne
  <2> QED
    BY <2>1, <2>3, <2>8 DEF a, b
<1> QED
  BY <1>4, <1>8 DEF Balanced

LEMMA BalancedStep == IndInv /\ Balanced /\ [Next]_vars => Balanced'
<1> SUFFICES ASSUME IndInv, Balanced, [Next]_vars, Strategy = "RoundRobin"
             PROVE  Balanced'
  BY DEF Balanced
<1>1. CASE UNCHANGED <<current, calls, starts>>
  BY <1>1 DEF Balanced, Dealt
<1>2. CASE \E c \in Callers, op \in Ops : Begin(c, op)
  BY <1>2, BalancedBegin
<1> QED
  BY <1>1, <1>2 DEF Next, Settle, Conclude, FailOver, vars

\* The calls of all callers together are dealt round the list: two masters'
\* shares differ by one at most, and by one more for each time the counter
\* wrapped, whatever its width and whether or not the list divides it.
THEOREM RoundRobin == Spec => []RoundRobinIsBalanced
<1>1. Spec => []Balanced
  BY Invariance, BalancedInit, BalancedStep, PTL DEF Spec
<1>2. IndInv /\ Balanced => RoundRobinIsBalanced
  <2> SUFFICES ASSUME IndInv, Balanced, Strategy = "RoundRobin",
                      NEW m \in Masters, NEW l \in Masters
               PROVE  Abs(starts[m] - starts[l]) <= 1 + (calls \div CounterMod)
    BY DEF RoundRobinIsBalanced
  <2> DEFINE w == calls \div CounterMod
  <2>1. /\ starts[m] - starts[l] <= w + Dealt(m) - Dealt(l)
        /\ starts[l] - starts[m] <= w + Dealt(l) - Dealt(m)
    BY DEF Balanced
  <2>2. Dealt(m) \in {0, 1} /\ Dealt(l) \in {0, 1}
    BY DEF Dealt
  <2>3. w \in Nat /\ starts[m] \in Nat /\ starts[l] \in Nat
    <3>1. calls \in Nat /\ CounterMod \in Nat \ {0} /\ starts \in [Masters -> Nat]
      BY CounterModAssumption DEF IndInv, TypeOK
    <3> QED
      BY <3>1, DivMod
  <2> HIDE DEF w
  <2> QED
    BY <2>1, <2>2, <2>3 DEF Abs, w
<1> QED
  BY Invariance, <1>1, <1>2, PTL
=============================================================================
