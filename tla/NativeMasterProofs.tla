------------------------- MODULE NativeMasterProofs -------------------------
(***************************************************************************)
(* Proofs about NativeMaster, for any number of callers, masters and        *)
(* calls, and any set of configurations. The two ways in which a call may   *)
(* end before its sweep does, a panic in Go and an exception that escapes   *)
(* in Java, are in the invariant with what makes them possible; the         *)
(* theorems that exclude them say so in their hypotheses.                   *)
(***************************************************************************)
EXTENDS NativeMaster, TLAPS

Frames ==
  [phase : {"idle", "waiting", "sleeping", "done"}, op : Ops, start : Int,
   round : 0 .. Rounds, offset : Masters, cancelled : BOOLEAN, result : Results]

\* A Go client of that configuration may make so many calls that its counter,
\* as an int, is negative.
Overflows(g) ==
  g.lang = "go" /\ g.strategy = "RoundRobin" /\ 2 * (MaxCalls - 1) >= g.intMod

\* How far into a sweep that starts at s master m comes.
Position(s, m) == IF m >= s THEN m - s ELSE m + MasterCount - s

Types ==
  /\ config \in Configs
  /\ counter \in 0 .. config.counterMod - 1
  /\ calls \in 0 .. MaxCalls /\ counter <= calls
  /\ call \in [Callers -> Frames]
  /\ failures \in [Callers -> [Masters -> 0 .. Rounds]]

\* Before the first call.
Fresh(c) ==
  call[c].phase = "idle" =>
    call[c].result = "none" /\ failures[c] = [m \in Masters |-> 0]

\* A running call has failed once per finished round at every master, and once
\* more at those this round has passed.
Swept(c) ==
  Busy(c) =>
    /\ call[c].start \in Masters /\ call[c].result = "none"
    /\ call[c].phase = "waiting" => call[c].round < Rounds
    /\ call[c].phase = "sleeping" => call[c].offset = 0 /\ call[c].round > 0
    /\ \A m \in Masters :
         failures[c][m] =
           call[c].round
             + (IF Position(call[c].start, m) < call[c].offset THEN 1 ELSE 0)

\* A call that ended without a reply swept in full, but for a panic, which takes
\* a counter that overflows, and an exception, which takes a malformed location.
Settled(c) ==
  call[c].phase = "done" =>
    /\ call[c].result # "none"
    /\ call[c].result = "AllMastersUnavailable" =>
         \A m \in Masters : failures[c][m] = Rounds
    /\ call[c].result = "panic" => Overflows(config)
    /\ call[c].result = "escaped" =>
         call[c].op = "lookup" /\ config.lang = "java" /\ config.malformed

\* An assignment that is not cancelled does not fail at a healthy master.
Trusted(c) ==
  (call[c].op = "assign" /\ ~call[c].cancelled) =>
    \A h \in config.healthy : failures[c][h] = 0

CallerInv(c) == Fresh(c) /\ Swept(c) /\ Settled(c) /\ Trusted(c)

IndInv == Types /\ \A c \in Callers : CallerInv(c)

-----------------------------------------------------------------------------
(* Arithmetic.                                                              *)

LEMMA ConfigFields ==
  ASSUME config \in Configs
  PROVE  /\ config.lang \in {"go", "java"} /\ config.maxRetries \in Int
         /\ config.strategy \in Strategies /\ config.backoff \in BOOLEAN
         /\ config.counterMod \in Nat \ {0} /\ config.intMod \in Nat \ {0}
         /\ config.malformed \in BOOLEAN /\ config.healthy \subseteq Masters
         /\ Rounds \in Nat /\ Rounds > 0
  BY ConfigsAssumption DEF Configurations, Rounds

LEMMA ModRange ==
  ASSUME NEW x \in Int, NEW n \in Nat \ {0}
  PROVE  x % n \in 0 .. n - 1
  OBVIOUS

LEMMA ModSmall ==
  ASSUME NEW n \in Nat \ {0}, NEW x \in 0 .. n - 1
  PROVE  x % n = x
  OBVIOUS

LEMMA ModBelow ==
  ASSUME NEW x \in Nat, NEW n \in Nat \ {0}
  PROVE  x % n <= x
<1>1. CASE x < n
  BY <1>1, ModSmall
<1>2. CASE x >= n
  BY <1>2, ModRange
<1> QED
  BY <1>1, <1>2

\* Once around the list of masters.
LEMMA SweepMeetsOnce ==
  ASSUME config \in Configs,
         NEW s \in Masters, NEW o \in Masters, NEW m \in Masters
  PROVE  /\ Position(s, m) \in Masters
         /\ Remainder(s + o, MasterCount) \in Masters
         /\ Remainder(s + o, MasterCount) = m <=> Position(s, m) = o
<1>1. /\ MasterCount \in Nat /\ MasterCount > 0
      /\ s \in 0 .. MasterCount - 1 /\ o \in 0 .. MasterCount - 1
      /\ m \in 0 .. MasterCount - 1
  BY MasterCountAssumption DEF Masters
<1>2. Remainder(s + o, MasterCount) = (s + o) % MasterCount
  BY <1>1 DEF Remainder
<1>3. (s + o) % MasterCount
        = IF s + o < MasterCount THEN s + o ELSE s + o - MasterCount
  BY <1>1
<1> QED
  BY <1>1, <1>2, <1>3 DEF Masters, Position

\* Where a call may start. A negative index takes a counter that overflows.
LEMMA StartType ==
  ASSUME Types, calls < MaxCalls, NEW s \in StartIndexes
  PROVE  /\ s \in Int /\ (s >= 0 => s \in Masters)
         /\ Remainder(s + 0, MasterCount) \in Int
         /\ s >= 0 <=> Remainder(s + 0, MasterCount) >= 0
         /\ s < 0 => Overflows(config)
<1>1. /\ MasterCount \in Nat \ {0} /\ config.intMod \in Nat \ {0} /\ counter \in Nat
      /\ counter <= MaxCalls - 1 /\ MaxCalls \in Nat
      /\ config.lang \in {"go", "java"}
      /\ config.strategy \in {"RoundRobin", "Failover", "Random"}
      /\ config.counterMod \in Nat \ {0} /\ Masters = 0 .. MasterCount - 1
  BY ConfigFields, MasterCountAssumption, MaxCallsAssumption
  DEF Types, Strategies, Masters
<1>2. CASE config.strategy # "RoundRobin"
  <2>1. s \in 0 .. MasterCount - 1
    BY <1>1, <1>2 DEF StartIndexes
  <2>2. Remainder(s + 0, MasterCount) = s
    BY <1>1, <2>1, ModSmall DEF Remainder
  <2> QED
    BY <1>1, <2>1, <2>2
<1>3. CASE config.strategy = "RoundRobin"
  <2> DEFINE low == counter % config.intMod
             x == AsInt(counter)
  <2>1. low \in Nat /\ low < config.intMod /\ low <= MaxCalls - 1
    <3>0. counter \in Nat /\ counter \in Int /\ config.intMod \in Nat \ {0}
      BY <1>1
    <3>1. low \in 0 .. config.intMod - 1
      BY Zenon, <3>0, ModRange
    <3>2. low <= counter
      BY Zenon, <3>0, ModBelow
    <3> HIDE DEF low
    <3> QED
      BY <1>1, <3>1, <3>2
  <2>2. x = IF 2 * low >= config.intMod THEN low - config.intMod ELSE low
    BY DEF AsInt
  <2>3. s = Remainder(x, MasterCount)
    BY <1>3 DEF StartIndexes
  <2> HIDE DEF low, x
  <2>4. x \in Int /\ (x < 0 => 2 * (MaxCalls - 1) >= config.intMod)
    BY <1>1, <2>1, <2>2
  <2>5. CASE config.lang = "go" /\ x < 0
    <3> DEFINE r == (-x) % MasterCount
    <3>1. r \in 0 .. MasterCount - 1 /\ s = -r
      BY <1>1, <2>3, <2>4, <2>5, ModRange DEF Remainder
    <3> HIDE DEF r
    <3>2. CASE r = 0
      <4>1. Remainder(s + 0, MasterCount) = 0
        BY <1>1, <3>1, <3>2, ModSmall DEF Remainder
      <4> QED
        BY <1>1, <3>1, <3>2, <4>1
    <3>3. CASE r > 0
      <4>1. s + 0 = -r /\ s + 0 < 0 /\ -(s + 0) = r
        BY <1>1, <3>1, <3>3
      <4>2. Remainder(s + 0, MasterCount) = -(r % MasterCount)
        BY <2>5, <4>1 DEF Remainder
      <4>3. r % MasterCount = r
        BY <1>1, <3>1, ModSmall
      <4> QED
        BY <1>1, <1>3, <2>4, <2>5, <3>1, <3>3, <4>2, <4>3 DEF Overflows
    <3> QED
      BY <1>1, <3>1, <3>2, <3>3
  <2>6. CASE ~(config.lang = "go" /\ x < 0)
    <3>1. s \in 0 .. MasterCount - 1
      BY <1>1, <2>3, <2>4, <2>6, ModRange DEF Remainder
    <3>2. Remainder(s + 0, MasterCount) = s
      BY <1>1, <3>1, ModSmall DEF Remainder
    <3> QED
      BY <1>1, <3>1, <3>2
  <2> QED
    BY <2>5, <2>6
<1> QED
  BY <1>2, <1>3

-----------------------------------------------------------------------------
(* Frames.                                                                  *)

LEMMA FrameFields ==
  ASSUME NEW k \in Frames
  PROVE  /\ k.phase \in {"idle", "waiting", "sleeping", "done"}
         /\ k.op \in Ops /\ k.start \in Int /\ k.round \in 0 .. Rounds
         /\ k.offset \in Masters /\ k.cancelled \in BOOLEAN
         /\ k.result \in Results
  BY DEF Frames

LEMMA NewFrameFields ==
  ASSUME config \in Configs, NEW op \in Ops, NEW s \in Int,
         NEW phase \in {"idle", "waiting"}
  PROVE  LET k == NewFrame(phase, op, s) IN
         /\ k \in Frames
         /\ k.phase = phase /\ k.op = op /\ k.start = s /\ k.round = 0
         /\ k.offset = 0 /\ ~k.cancelled /\ k.result = "none"
<1>1. 0 \in Masters /\ 0 \in 0 .. Rounds
  BY ConfigFields, MasterCountAssumption DEF Masters
<1> QED
  BY <1>1 DEF NewFrame, Frames, Results

\* A call that returns.
LEMMA FinishFields ==
  ASSUME NEW k \in Frames, NEW result \in Results
  PROVE  LET n == Finish(k, result) IN
         /\ n \in Frames
         /\ n.op = k.op /\ n.start = k.start /\ n.round = k.round
         /\ n.offset = k.offset /\ n.cancelled = k.cancelled
         /\ n.phase = "done" /\ n.result = result
  BY DEF Finish, Frames

\* The head of the loop goes on, panics or gives up.
LEMMA HeadCases ==
  ASSUME config \in Configs, NEW k \in Frames, Index(k) \in Int
  PROVE  LET n == Head(k) IN
         /\ n \in Frames
         /\ n.op = k.op /\ n.start = k.start /\ n.round = k.round
         /\ n.offset = k.offset /\ n.cancelled = k.cancelled
         /\ \/ /\ k.round = Rounds
               /\ n.phase = "done" /\ n.result = "AllMastersUnavailable"
            \/ /\ k.round < Rounds /\ Index(k) < 0
               /\ n.phase = "done" /\ n.result = "panic"
            \/ /\ k.round < Rounds /\ Index(k) >= 0
               /\ n.phase = "waiting" /\ n.result = k.result
<1>1. k.round \in 0 .. Rounds /\ Rounds \in Nat
  BY ConfigFields, FrameFields
<1>2. CASE k.round >= Rounds
  <2>1. Head(k) = Finish(k, "AllMastersUnavailable")
    BY <1>2 DEF Head
  <2> QED
    BY <1>1, <1>2, <2>1, FinishFields DEF Results
<1>3. CASE k.round < Rounds /\ Index(k) < 0
  <2>1. Head(k) = Finish(k, "panic")
    BY <1>1, <1>3 DEF Head
  <2> QED
    BY <1>1, <1>3, <2>1, FinishFields DEF Results
<1>4. CASE k.round < Rounds /\ Index(k) >= 0
  <2> DEFINE n == [k EXCEPT !.phase = "waiting"]
  <2>1. Head(k) = n
    BY <1>1, <1>4 DEF Head
  <2>2. /\ n \in Frames
        /\ n.op = k.op /\ n.start = k.start /\ n.round = k.round
        /\ n.offset = k.offset /\ n.cancelled = k.cancelled
        /\ n.phase = "waiting" /\ n.result = k.result
    BY DEF Frames
  <2> HIDE DEF n
  <2> QED
    BY <1>4, <2>1, <2>2
<1> QED
  BY <1>1, <1>2, <1>3, <1>4

\* Where a failed attempt leaves the frame.
LEMMA NextAttemptCases ==
  ASSUME config \in Configs, NEW k \in Frames, k.phase = "waiting",
         k.round < Rounds, k.start \in Masters, k.result = "none"
  PROVE  LET n == NextAttempt(k) IN
         /\ n \in Frames
         /\ n.op = k.op /\ n.start = k.start /\ n.cancelled = k.cancelled
         /\ \/ /\ k.offset + 1 < MasterCount
               /\ n.phase = "waiting" /\ n.result = "none"
               /\ n.round = k.round /\ n.offset = k.offset + 1
            \/ /\ k.offset + 1 = MasterCount /\ k.round + 1 < Rounds
               /\ n.phase \in {"waiting", "sleeping"} /\ n.result = "none"
               /\ n.round = k.round + 1 /\ n.offset = 0
            \/ /\ k.offset + 1 = MasterCount /\ k.round + 1 = Rounds
               /\ n.round = Rounds /\ n.offset = 0
               /\ \/ n.phase = "sleeping" /\ n.result = "none"
                  \/ n.phase = "done" /\ n.result = "AllMastersUnavailable"
<1>1. /\ k.round \in 0 .. Rounds - 1 /\ Rounds \in Nat
      /\ k.offset \in 0 .. MasterCount - 1 /\ MasterCount \in Nat \ {0}
      /\ Masters = 0 .. MasterCount - 1
  BY ConfigFields, FrameFields, MasterCountAssumption DEF Masters
<1>2. ASSUME NEW e \in Frames, e.start = k.start
      PROVE  /\ Head(e) \in Frames
             /\ Head(e).op = e.op /\ Head(e).start = e.start
             /\ Head(e).round = e.round /\ Head(e).offset = e.offset
             /\ Head(e).cancelled = e.cancelled
             /\ \/ /\ e.round = Rounds /\ Head(e).phase = "done"
                   /\ Head(e).result = "AllMastersUnavailable"
                \/ /\ e.round < Rounds /\ Head(e).phase = "waiting"
                   /\ Head(e).result = e.result
  <2>1. e.start \in Masters /\ e.offset \in Masters
    BY <1>2, FrameFields
  <2>2. Index(e) \in Masters
    BY <2>1, SweepMeetsOnce DEF Index
  <2>3. Index(e) \in Int /\ Index(e) >= 0
    BY <1>1, <2>2
  <2> QED
    BY <2>3, HeadCases
<1>3. CASE k.offset + 1 < MasterCount
  <2> DEFINE e == [k EXCEPT !.offset = k.offset + 1]
  <2>1. k.offset + 1 \in Masters
    BY <1>1, <1>3
  <2>2. /\ e \in Frames /\ e.op = k.op /\ e.start = k.start /\ e.round = k.round
        /\ e.offset = k.offset + 1 /\ e.cancelled = k.cancelled /\ e.result = k.result
    BY <2>1 DEF Frames
  <2>3. NextAttempt(k) = Head(e)
    BY <1>3 DEF NextAttempt
  <2> HIDE DEF e
  <2> QED
    BY <1>1, <1>2, <1>3, <2>2, <2>3
<1>4. CASE k.offset + 1 = MasterCount
  <2> DEFINE e == [k EXCEPT !.offset = 0, !.round = k.round + 1]
             z == [k EXCEPT !.phase = "sleeping", !.offset = 0, !.round = k.round + 1]
  <2>1. 0 \in Masters /\ k.round + 1 \in 0 .. Rounds
    BY <1>1
  <2>2. /\ e \in Frames /\ e.op = k.op /\ e.start = k.start
        /\ e.round = k.round + 1
        /\ e.offset = 0 /\ e.cancelled = k.cancelled /\ e.result = k.result
    BY <2>1 DEF Frames
  <2>3. /\ z \in Frames /\ z.op = k.op /\ z.start = k.start
        /\ z.round = k.round + 1 /\ z.phase = "sleeping"
        /\ z.offset = 0 /\ z.cancelled = k.cancelled /\ z.result = k.result
    BY <2>1 DEF Frames
  <2>4. NextAttempt(k) = IF config.backoff THEN z ELSE Head(e)
    BY <1>1, <1>4 DEF NextAttempt, EndRound
  <2> HIDE DEF e, z
  <2>5. CASE config.backoff
    BY <1>1, <1>4, <2>3, <2>4, <2>5
  <2>6. CASE ~config.backoff
    BY <1>1, <1>2, <1>4, <2>2, <2>4, <2>6
  <2> QED
    BY <2>5, <2>6
<1> QED
  BY <1>1, <1>3, <1>4

-----------------------------------------------------------------------------
(* The invariant is inductive: one lemma per action.                        *)

LEMMA InitInv == Init => IndInv
<1> SUFFICES ASSUME Init PROVE IndInv
  OBVIOUS
<1> DEFINE k == NewFrame("idle", "assign", 0)
<1>1. config \in Configs /\ config.counterMod \in Nat \ {0} /\ Rounds \in Nat
  BY ConfigFields DEF Init
<1>2. k \in Frames /\ k.phase = "idle" /\ k.result = "none"
  BY <1>1, NewFrameFields DEF Ops
<1>3. \A c \in Callers : call[c] = k /\ failures[c] = [m \in Masters |-> 0]
  BY DEF Init
<1>4. call = [c \in Callers |-> k]
  BY DEF Init
<1> HIDE DEF k
<1>5. Types
  BY <1>1, <1>2, <1>4, MaxCallsAssumption DEF Init, Types
<1>6. ASSUME NEW c \in Callers PROVE CallerInv(c)
  BY <1>1, <1>2, <1>3, ConfigFields DEF CallerInv, Fresh, Swept, Busy, Settled, Trusted
<1> QED
  BY <1>5, <1>6 DEF IndInv

\* A caller that a step leaves alone keeps its invariant.
LEMMA Undisturbed ==
  ASSUME IndInv, NEW d \in Callers, UNCHANGED config,
         call'[d] = call[d], failures'[d] = failures[d]
  PROVE  CallerInv(d)'
  BY DEF IndInv, CallerInv, Fresh, Swept, Busy, Settled, Trusted, Overflows, Rounds

LEMMA BeginInv ==
  ASSUME IndInv, NEW c \in Callers, NEW op \in Ops, Begin(c, op)
  PROVE  IndInv'
<1>1. PICK s \in StartIndexes :
        call' = [call EXCEPT ![c] = Head(NewFrame("waiting", op, s))]
  BY DEF Begin
<1> DEFINE k == NewFrame("waiting", op, s)
           n == Head(k)
<1>2. /\ config \in Configs /\ config' = config /\ calls < MaxCalls /\ calls' = calls + 1
      /\ counter' = NextCounter
      /\ failures' = [failures EXCEPT ![c] = [m \in Masters |-> 0]]
      /\ Types
  BY DEF Begin, IndInv, Types
<1>3. /\ s \in Int /\ (s >= 0 => s \in Masters)
      /\ Remainder(s + 0, MasterCount) \in Int
      /\ s >= 0 <=> Remainder(s + 0, MasterCount) >= 0
      /\ s < 0 => Overflows(config)
  BY <1>2, StartType
<1>4. /\ k \in Frames /\ k.op = op /\ k.start = s /\ k.round = 0 /\ k.offset = 0
      /\ ~k.cancelled /\ k.result = "none"
  BY <1>2, <1>3, NewFrameFields
<1>5. Index(k) = Remainder(s + 0, MasterCount)
  BY <1>4 DEF Index
<1>6. Rounds \in Nat /\ Rounds > 0
  BY <1>2, ConfigFields
<1>7. call' = [call EXCEPT ![c] = n]
  BY <1>1
<1> HIDE DEF k
<1>8. /\ n \in Frames /\ n.op = op /\ n.start = s /\ n.round = 0 /\ n.offset = 0
      /\ ~n.cancelled
      /\ \/ s < 0 /\ n.phase = "done" /\ n.result = "panic"
         \/ s >= 0 /\ n.phase = "waiting" /\ n.result = "none"
  BY <1>2, <1>3, <1>4, <1>5, <1>6, HeadCases
<1> HIDE DEF n
<1>9. Rounds' = Rounds /\ Frames' = Frames
  BY <1>2 DEF Rounds, Frames
<1>10. counter' \in 0 .. config.counterMod - 1 /\ counter' <= calls'
  <2>1. config.counterMod \in Nat \ {0} /\ counter \in Nat /\ calls \in Nat
        /\ counter <= calls
    BY <1>2, ConfigFields DEF Types
  <2>2. counter + 1 \in Nat /\ counter + 1 \in Int
    BY <2>1
  <2> DEFINE x == (counter + 1) % config.counterMod
  <2>3. x \in 0 .. config.counterMod - 1
    BY Zenon, <2>1, <2>2, ModRange
  <2>4. x <= counter + 1
    BY Zenon, <2>1, <2>2, ModBelow
  <2>5. counter' = x \/ counter' = counter
    BY <1>2 DEF NextCounter
  <2> HIDE DEF x
  <2> QED
    BY <1>2, <2>1, <2>3, <2>4, <2>5 DEF Types
<1>11. Types'
  <2>1. calls' \in 0 .. MaxCalls
    BY <1>2, MaxCallsAssumption DEF Types
  <2>2. failures' \in [Callers -> [Masters -> 0 .. Rounds]]
    BY <1>2, <1>6 DEF Types
  <2>3. call' \in [Callers -> Frames]
    BY <1>2, <1>7, <1>8 DEF Types
  <2> QED
    BY <1>2, <1>9, <1>10, <2>1, <2>2, <2>3 DEF Types
<1>12. CallerInv(c)'
  <2>1. call'[c] = n /\ failures'[c] = [m \in Masters |-> 0]
    BY <1>2, <1>7 DEF Types
  <2>2. ASSUME s \in Masters, NEW m \in Masters PROVE ~(Position(s, m) < 0)
    BY <2>2, MasterCountAssumption DEF Position, Masters
  <2>3. Fresh(c)' /\ Settled(c)'
    BY <1>2, <1>3, <1>8, <2>1 DEF Fresh, Settled, Overflows
  <2>4. Swept(c)'
    BY <1>3, <1>6, <1>8, <1>9, <2>1, <2>2 DEF Swept, Busy
  <2>5. Trusted(c)'
    BY <1>2, <2>1, ConfigFields DEF Trusted
  <2> QED
    BY <2>3, <2>4, <2>5 DEF CallerInv
<1>13. ASSUME NEW d \in Callers, d # c PROVE CallerInv(d)'
  <2>1. call'[d] = call[d] /\ failures'[d] = failures[d]
    BY <1>2, <1>7, <1>13 DEF Types
  <2> QED
    BY <1>2, <2>1, Undisturbed
<1> QED
  BY <1>11, <1>12, <1>13 DEF IndInv

\* A master that may be relied on does not fail an assignment, and only a
\* malformed location makes an exception escape.
LEMMA OutcomeCases ==
  ASSUME config \in Configs, NEW k \in Frames, NEW reply \in RepliesFrom(k)
  PROVE  LET outcome == Outcome(k.op, reply) IN
         /\ (k.op = "assign" /\ ~k.cancelled /\ Index(k) \in config.healthy)
              => outcome = "Ok"
         /\ outcome = "IllegalArgument" =>
              k.op = "lookup" /\ config.lang = "java" /\ config.malformed
<1>1. reply \in Replies(k.op) /\ k.op \in Ops
  <2>1. CASE k.cancelled
    <3>1. reply = "no_reply"
      BY <2>1 DEF RepliesFrom
    <3> QED
      BY <3>1, FrameFields DEF Replies
  <2>2. CASE ~k.cancelled
    BY <2>2, FrameFields DEF RepliesFrom
  <2> QED
    BY <2>1, <2>2
<1>2. Outcome(k.op, reply) = "IllegalArgument" =>
        k.op = "lookup" /\ config.lang = "java" /\ config.malformed
  BY <1>1 DEF Outcome, Replies, Ops
<1>3. ASSUME k.op = "assign", ~k.cancelled, Index(k) \in config.healthy
      PROVE  Outcome(k.op, reply) = "Ok"
  <2>1. Outcome(k.op, reply) \in {"Ok", "VolumeNotFound"}
    BY <1>3 DEF RepliesFrom
  <2>2. Outcome(k.op, reply) # "VolumeNotFound"
    BY <1>1, <1>3 DEF Outcome, Replies
  <2> QED
    BY <2>1, <2>2
<1> QED
  BY <1>2, <1>3

\* What an attempt that failed does to the count of failures.
LEMMA CountFailure ==
  ASSUME IndInv, NEW c \in Callers, call[c].phase = "waiting",
         NEW i, i = Index(call[c]),
         failures' = [failures EXCEPT ![c][i] = @ + 1]
  PROVE  /\ i \in Masters
         /\ \A m \in Masters : m # i => failures'[c][m] = failures[c][m]
         /\ \A m \in Masters :
              failures'[c][m] =
                call[c].round
                  + (IF Position(call[c].start, m) < call[c].offset + 1 THEN 1 ELSE 0)
         /\ failures' \in [Callers -> [Masters -> 0 .. Rounds]]
         /\ \A d \in Callers \ {c} : failures'[d] = failures[d]
<1> DEFINE k == call[c]
<1>1. /\ config \in Configs /\ k \in Frames /\ k.round < Rounds /\ k.start \in Masters
      /\ failures \in [Callers -> [Masters -> 0 .. Rounds]]
      /\ \A m \in Masters :
           failures[c][m] =
             k.round + (IF Position(k.start, m) < k.offset THEN 1 ELSE 0)
  BY DEF IndInv, Types, CallerInv, Swept, Busy
<1>2. /\ k.round \in 0 .. Rounds - 1 /\ Rounds \in Nat
      /\ k.offset \in Masters /\ MasterCount \in Nat
      /\ Masters = 0 .. MasterCount - 1
  BY <1>1, FrameFields, ConfigFields, MasterCountAssumption DEF Masters
<1>3. /\ i \in Masters
      /\ \A m \in Masters : m = i <=> Position(k.start, m) = k.offset
      /\ \A m \in Masters : Position(k.start, m) \in Masters
  <2>1. i = Remainder(k.start + k.offset, MasterCount)
    BY DEF Index
  <2>2. config \in Configs /\ k.start \in Masters /\ k.offset \in Masters
    BY <1>1, <1>2
  <2> HIDE DEF k
  <2> QED
    BY <2>1, <2>2, SweepMeetsOnce
<1> HIDE DEF k
<1>4. ASSUME NEW m \in Masters
      PROVE  failures'[c][m] = IF m = i THEN failures[c][m] + 1 ELSE failures[c][m]
  BY <1>1, <1>3
<1>5. ASSUME NEW m \in Masters
      PROVE  failures'[c][m] =
               k.round + (IF Position(k.start, m) < k.offset + 1 THEN 1 ELSE 0)
  <2>1. /\ Position(k.start, m) \in 0 .. MasterCount - 1
        /\ k.offset \in 0 .. MasterCount - 1
        /\ m = i <=> Position(k.start, m) = k.offset
        /\ failures[c][m] =
             k.round + (IF Position(k.start, m) < k.offset THEN 1 ELSE 0)
    BY <1>1, <1>2, <1>3
  <2> QED
    BY <1>2, <1>4, <2>1
<1>6. failures' \in [Callers -> [Masters -> 0 .. Rounds]]
  <2>1. failures'[c][i] \in 0 .. Rounds
    <3>1. Position(k.start, i) \in 0 .. MasterCount - 1
      BY <1>2, <1>3
    <3>2. failures'[c][i] =
            k.round + (IF Position(k.start, i) < k.offset + 1 THEN 1 ELSE 0)
      BY Zenon, <1>3, <1>5
    <3> QED
      BY <1>2, <3>1, <3>2
  <2>2. failures[c][i] + 1 \in 0 .. Rounds
    BY <1>1, <1>3, <1>4, <2>1
  <2> QED
    BY <1>1, <1>3, <2>2
<1>7. \A d \in Callers \ {c} : failures'[d] = failures[d]
  BY <1>1
<1> QED
  BY <1>3, <1>4, <1>5, <1>6, <1>7 DEF k

LEMMA AttemptInv ==
  ASSUME IndInv, NEW c \in Callers, Attempt(c)
  PROVE  IndInv'
<1> DEFINE k == call[c]
<1>1. PICK reply \in RepliesFrom(k) : Settle(c, reply)
  BY DEF Attempt
<1> DEFINE outcome == Outcome(k.op, reply)
           n == CASE outcome = "Ok" -> Finish(k, "Ok")
                  [] outcome = "IllegalArgument" -> Finish(k, "escaped")
                  [] OTHER -> NextAttempt(k)
           i == Index(k)
<1>2. /\ call' = [call EXCEPT ![c] = n]
      /\ failures' = IF outcome = "Ok" THEN failures
                     ELSE [failures EXCEPT ![c][i] = @ + 1]
      /\ UNCHANGED <<config, counter, calls, starts>>
  BY <1>1 DEF Settle
<1>3. /\ Types /\ config \in Configs /\ k \in Frames /\ k.phase = "waiting"
      /\ k.round < Rounds /\ k.start \in Masters /\ k.result = "none"
  BY DEF Attempt, IndInv, Types, CallerInv, Swept, Busy
<1>4. /\ Rounds' = Rounds /\ Frames' = Frames
      /\ Rounds \in Nat /\ MasterCount \in Nat /\ Masters = 0 .. MasterCount - 1
  BY <1>2, <1>3, ConfigFields, MasterCountAssumption DEF Rounds, Frames, Masters
<1>5. /\ (k.op = "assign" /\ ~k.cancelled /\ i \in config.healthy) => outcome = "Ok"
      /\ outcome = "IllegalArgument" =>
           k.op = "lookup" /\ config.lang = "java" /\ config.malformed
  BY <1>3, OutcomeCases
<1> HIDE DEF outcome
<1>6. CASE outcome = "Ok"
  <2>1. n = Finish(k, "Ok") /\ failures' = failures
    BY <1>2, <1>6
  <2> HIDE DEF n
  <2>2. /\ n \in Frames /\ n.op = k.op /\ n.cancelled = k.cancelled
        /\ n.phase = "done" /\ n.result = "Ok"
    BY <1>3, <2>1, FinishFields DEF Results
  <2>3. Types' /\ call'[c] = n
    BY <1>2, <1>3, <1>4, <2>1, <2>2 DEF Types
  <2>4. CallerInv(c)'
    <3>1. Fresh(c)' /\ Swept(c)' /\ Settled(c)'
      BY <2>2, <2>3 DEF Fresh, Swept, Busy, Settled
    <3>2. Trusted(c)'
      BY <1>2, <2>1, <2>2, <2>3 DEF Trusted, IndInv, CallerInv
    <3> QED
      BY <3>1, <3>2 DEF CallerInv
  <2>5. \A d \in Callers : d # c => CallerInv(d)'
    BY <1>2, <1>3, <2>1, Undisturbed DEF Types
  <2> QED
    BY <2>3, <2>4, <2>5 DEF IndInv
<1>7. CASE outcome # "Ok"
  <2>1. failures' = [failures EXCEPT ![c][i] = @ + 1]
    BY <1>2, <1>7
  <2>2. /\ i \in Masters
        /\ \A m \in Masters : m # i => failures'[c][m] = failures[c][m]
        /\ \A m \in Masters :
             failures'[c][m] =
               k.round + (IF Position(k.start, m) < k.offset + 1 THEN 1 ELSE 0)
        /\ failures' \in [Callers -> [Masters -> 0 .. Rounds]]
        /\ \A d \in Callers \ {c} : failures'[d] = failures[d]
    BY <1>3, <2>1, CountFailure
  <2>3. \/ /\ outcome = "IllegalArgument" /\ n = Finish(k, "escaped")
        \/ n = NextAttempt(k)
    BY <1>7
  <2> HIDE DEF n
  <2>4. /\ n \in Frames /\ n.op = k.op /\ n.cancelled = k.cancelled
        /\ \/ /\ outcome = "IllegalArgument" /\ n.phase = "done" /\ n.result = "escaped"
           \/ /\ n.start = k.start
              /\ \/ /\ k.offset + 1 < MasterCount
                    /\ n.phase = "waiting" /\ n.result = "none"
                    /\ n.round = k.round /\ n.offset = k.offset + 1
                 \/ /\ k.offset + 1 = MasterCount /\ k.round + 1 < Rounds
                    /\ n.phase \in {"waiting", "sleeping"} /\ n.result = "none"
                    /\ n.round = k.round + 1 /\ n.offset = 0
                 \/ /\ k.offset + 1 = MasterCount /\ k.round + 1 = Rounds
                    /\ n.round = Rounds /\ n.offset = 0
                    /\ \/ n.phase = "sleeping" /\ n.result = "none"
                       \/ n.phase = "done" /\ n.result = "AllMastersUnavailable"
    <3>1. CASE outcome = "IllegalArgument" /\ n = Finish(k, "escaped")
      BY <1>3, <3>1, FinishFields DEF Results
    <3>2. CASE n = NextAttempt(k)
      <4> HIDE DEF k
      <4> QED
        BY <1>3, <3>2, NextAttemptCases
    <3> QED
      BY <2>3, <3>1, <3>2
  <2>5. call'[c] = n /\ call' \in [Callers -> Frames]
    BY <1>2, <1>3, <2>4 DEF Types
  <2>6. Types'
    BY <1>2, <1>3, <1>4, <2>2, <2>5 DEF Types
  <2>7. CallerInv(c)'
    <3>1. /\ k.round \in Nat /\ k.offset \in 0 .. MasterCount - 1
          /\ \A m \in Masters : Position(k.start, m) \in 0 .. MasterCount - 1
      <4>1. k.round \in 0 .. Rounds /\ k.offset \in Masters
        BY <1>3, FrameFields
      <4>2. \A m \in Masters : Position(k.start, m) \in Masters
        BY <1>3, <4>1, SweepMeetsOnce
      <4> QED
        BY <1>4, <4>1, <4>2
    <3> HIDE DEF k, i
    <3>2. Fresh(c)'
      BY <2>4, <2>5 DEF Fresh
    <3>3. ASSUME n.result # "escaped", NEW m \in Masters
          PROVE  failures'[c][m] =
                   n.round + (IF Position(n.start, m) < n.offset THEN 1 ELSE 0)
      <4>1. /\ Position(k.start, m) \in 0 .. MasterCount - 1
            /\ failures'[c][m] =
                 k.round + (IF Position(k.start, m) < k.offset + 1 THEN 1 ELSE 0)
        BY <2>2, <3>1
      <4>2. /\ n.start = k.start
            /\ \/ /\ n.round = k.round /\ n.offset = k.offset + 1
               \/ /\ n.round = k.round + 1 /\ n.offset = 0
                  /\ k.offset + 1 = MasterCount
        BY <2>4, <3>1, <3>3
      <4>3. CASE n.round = k.round /\ n.offset = k.offset + 1
        BY Zenon, <4>1, <4>2, <4>3
      <4>4. CASE /\ n.round = k.round + 1 /\ n.offset = 0
                 /\ k.offset + 1 = MasterCount
        <5>1. failures'[c][m] = k.round + 1
          BY <1>4, <4>1, <4>4
        <5>2. ~(Position(n.start, m) < n.offset)
          BY <1>4, <4>1, <4>2, <4>4
        <5> QED
          BY <3>1, <4>4, <5>1, <5>2
      <4> QED
        BY <4>2, <4>3, <4>4
    <3>4. Swept(c)'
      <4> SUFFICES ASSUME Busy(c)' PROVE Swept(c)'
        BY DEF Swept
      <4>1. n.phase \in {"waiting", "sleeping"} /\ n.result = "none"
        BY <2>4, <2>5 DEF Busy
      <4>2. /\ n.start \in Masters /\ (n.phase = "waiting" => n.round < Rounds)
            /\ n.phase = "sleeping" => n.offset = 0 /\ n.round > 0
        BY <1>3, <1>4, <2>4, <3>1, <4>1
      <4> QED
        BY <1>4, <2>5, <3>3, <4>1, <4>2 DEF Swept
    <3>5. Settled(c)'
      <4>1. ASSUME n.result = "AllMastersUnavailable", NEW m \in Masters
            PROVE  failures'[c][m] = Rounds
        <5>1. n.round = Rounds /\ n.offset = 0
          BY <2>4, <4>1
        <5>2. failures'[c][m] =
                n.round + (IF Position(n.start, m) < n.offset THEN 1 ELSE 0)
          BY <3>3, <4>1
        <5>3. n.start = k.start /\ Position(k.start, m) \in 0 .. MasterCount - 1
          BY <2>4, <3>1, <4>1
        <5> QED
          BY <1>4, <5>1, <5>2, <5>3
      <4>2. n.result = "escaped" =>
              n.op = "lookup" /\ config.lang = "java" /\ config.malformed
        BY <1>5, <2>4
      <4>3. n.phase = "done" => n.result \in {"AllMastersUnavailable", "escaped"}
        BY <2>4
      <4> QED
        BY <1>2, <1>4, <2>5, <4>1, <4>2, <4>3 DEF Settled
    <3>6. Trusted(c)'
      <4> SUFFICES ASSUME n.op = "assign", ~n.cancelled, NEW h \in config.healthy
                   PROVE  failures'[c][h] = 0
        BY <1>2, <2>5 DEF Trusted
      <4>1. h \in Masters /\ i \notin config.healthy
        BY <1>3, <1>5, <1>7, <2>4, ConfigFields
      <4>2. failures[c][h] = 0
        BY <2>4 DEF k, Trusted, IndInv, CallerInv
      <4> QED
        BY <2>2, <4>1, <4>2
    <3> QED
      BY <3>2, <3>4, <3>5, <3>6 DEF CallerInv
  <2>8. ASSUME NEW d \in Callers, d # c PROVE CallerInv(d)'
    <3>1. call'[d] = call[d] /\ failures'[d] = failures[d]
      BY <1>2, <1>3, <2>2, <2>8 DEF Types
    <3> QED
      BY <1>2, <3>1, Undisturbed
  <2> QED
    BY <2>6, <2>7, <2>8 DEF IndInv
<1> QED
  BY <1>6, <1>7

LEMMA WakeInv ==
  ASSUME IndInv, NEW c \in Callers, Wake(c)
  PROVE  IndInv'
<1> DEFINE k == call[c]
           n == Head(k)
<1>1. /\ call' = [call EXCEPT ![c] = n]
      /\ UNCHANGED <<config, counter, calls, failures>>
  BY DEF Wake
<1>2. /\ Types /\ config \in Configs /\ k \in Frames /\ k.phase = "sleeping"
      /\ k.start \in Masters /\ k.result = "none" /\ k.offset = 0
      /\ \A m \in Masters :
           failures[c][m] =
             k.round + (IF Position(k.start, m) < k.offset THEN 1 ELSE 0)
  BY DEF Wake, IndInv, Types, CallerInv, Swept, Busy
<1> HIDE DEF k
<1>3. /\ Rounds' = Rounds /\ Frames' = Frames
      /\ Rounds \in Nat /\ MasterCount \in Nat \ {0} /\ Masters = 0 .. MasterCount - 1
      /\ k.round \in 0 .. Rounds
  BY <1>1, <1>2, ConfigFields, FrameFields, MasterCountAssumption DEF Rounds, Frames, Masters
<1>4. Index(k) \in Int /\ Index(k) >= 0
  <2>1. k.offset \in Masters
    BY <1>2, FrameFields
  <2>2. Index(k) \in Masters
    BY <1>2, <2>1, SweepMeetsOnce DEF Index
  <2> QED
    BY <1>3, <2>2
<1>5. /\ n \in Frames /\ n.op = k.op /\ n.start = k.start /\ n.round = k.round
      /\ n.offset = 0 /\ n.cancelled = k.cancelled
      /\ \/ k.round = Rounds /\ n.phase = "done" /\ n.result = "AllMastersUnavailable"
         \/ k.round < Rounds /\ n.phase = "waiting" /\ n.result = "none"
  BY <1>2, <1>4, HeadCases
<1> HIDE DEF n
<1>6. Types' /\ call'[c] = n
  BY <1>1, <1>2, <1>3, <1>5 DEF Types
<1>7. CallerInv(c)'
  <2>1. ASSUME NEW m \in Masters
        PROVE  /\ failures'[c][m] =
                    n.round + (IF Position(n.start, m) < n.offset THEN 1 ELSE 0)
               /\ failures'[c][m] = n.round
    <3>1. ~(Position(k.start, m) < 0)
      BY <1>2, <1>3 DEF Position
    <3>2. failures'[c][m] = k.round
      BY <1>1, <1>2, <1>3, <3>1
    <3> QED
      BY <1>3, <1>5, <3>1, <3>2
  <2>2. Fresh(c)' /\ Swept(c)' /\ Settled(c)'
    BY <1>2, <1>3, <1>5, <1>6, <2>1 DEF Fresh, Swept, Busy, Settled
  <2>3. Trusted(c)'
    BY <1>1, <1>5, <1>6 DEF k, Trusted, IndInv, CallerInv
  <2> QED
    BY <2>2, <2>3 DEF CallerInv
<1>8. \A d \in Callers : d # c => CallerInv(d)'
  BY <1>1, <1>2, Undisturbed DEF Types
<1> QED
  BY <1>6, <1>7, <1>8 DEF IndInv

LEMMA CancelFields ==
  ASSUME NEW k \in Frames
  PROVE  LET n == [k EXCEPT !.cancelled = TRUE] IN
         /\ n \in Frames
         /\ n.op = k.op /\ n.start = k.start /\ n.round = k.round
         /\ n.offset = k.offset /\ n.phase = k.phase /\ n.result = k.result
         /\ n.cancelled
<1> DEFINE n == [k EXCEPT !.cancelled = TRUE]
<1>1. DOMAIN n = {"phase", "op", "start", "round", "offset", "cancelled", "result"}
  BY DEF Frames
<1>2. /\ n.op = k.op /\ n.start = k.start /\ n.round = k.round
      /\ n.offset = k.offset /\ n.phase = k.phase /\ n.result = k.result
      /\ n.cancelled = TRUE
  BY DEF Frames
<1>3. n = [x \in DOMAIN n |-> n[x]]
  OBVIOUS
<1> HIDE DEF n
<1>4. n = [phase |-> k.phase, op |-> k.op, start |-> k.start, round |-> k.round,
           offset |-> k.offset, cancelled |-> TRUE, result |-> k.result]
  BY <1>1, <1>2, <1>3
<1> QED
  BY <1>2, <1>4, FrameFields DEF Frames

LEMMA CancelInv ==
  ASSUME IndInv, NEW c \in Callers, Cancel(c)
  PROVE  IndInv'
<1> DEFINE k == call[c]
           n == [k EXCEPT !.cancelled = TRUE]
<1>1. /\ call' = [call EXCEPT ![c] = n]
      /\ UNCHANGED <<config, counter, calls, failures>>
  BY DEF Cancel
<1>2. /\ Types /\ k \in Frames /\ CallerInv(c) /\ Busy(c)
  BY DEF Cancel, IndInv, Types
<1>3. Rounds' = Rounds /\ Frames' = Frames
  BY <1>1 DEF Rounds, Frames
<1>4. /\ n \in Frames
      /\ n.op = k.op /\ n.start = k.start /\ n.round = k.round
      /\ n.offset = k.offset /\ n.phase = k.phase /\ n.result = k.result
      /\ n.cancelled
  BY <1>2, CancelFields
<1> HIDE DEF n
<1>5. Types' /\ call'[c] = n
  BY <1>1, <1>2, <1>3, <1>4 DEF Types
<1>6. CallerInv(c)'
  <2>1. Fresh(c)' /\ Settled(c)' /\ Trusted(c)'
    BY <1>2, <1>4, <1>5 DEF k, Fresh, Settled, Trusted, Busy
  <2>2. Swept(c)'
    BY <1>1, <1>2, <1>3, <1>4, <1>5 DEF k, CallerInv, Swept, Busy
  <2> QED
    BY <2>1, <2>2 DEF CallerInv
<1>7. \A d \in Callers : d # c => CallerInv(d)'
  BY <1>1, <1>2, Undisturbed DEF Types
<1> QED
  BY <1>5, <1>6, <1>7 DEF IndInv

LEMMA StepInv == IndInv /\ [Next]_vars => IndInv'
<1> SUFFICES ASSUME IndInv, [Next]_vars PROVE IndInv'
  OBVIOUS
<1>1. CASE UNCHANGED vars
  <2>1. Types'
    BY <1>1 DEF vars, IndInv, Types, Frames, Rounds
  <2>2. \A c \in Callers : CallerInv(c)'
    BY <1>1, Undisturbed DEF vars
  <2> QED
    BY <2>1, <2>2 DEF IndInv
<1> QED
  BY <1>1, BeginInv, AttemptInv, WakeInv, CancelInv DEF Next

-----------------------------------------------------------------------------
(* Theorems.                                                                *)

\* Whatever the configuration, a sweep is at its place in the list, a call that
\* gave up swept in full, and a call that ended in another way had a reason.
THEOREM Invariance == Spec => []IndInv
  BY InitInv, StepInv, PTL DEF Spec

\* Every variable keeps its type: the index of a request is in range, in Go too,
\* whatever the sign of the start.
THEOREM TypeCorrect == Spec => []TypeOK
<1>1. IndInv => TypeOK
  <2> SUFFICES ASSUME IndInv PROVE TypeOK
    OBVIOUS
  <2>1. ASSUME NEW c \in Callers
        PROVE  /\ call[c].phase \in {"idle", "waiting", "sleeping", "done"}
               /\ call[c].op \in Ops /\ call[c].result \in Results
               /\ call[c].round \in 0 .. Rounds /\ call[c].offset \in Masters
               /\ call[c].phase = "waiting" => Index(call[c]) \in Masters
    <3>1. call[c] \in Frames /\ config \in Configs
      BY DEF IndInv, Types
    <3>2. call[c].phase = "waiting" => call[c].start \in Masters
      BY DEF IndInv, CallerInv, Swept, Busy
    <3>3. call[c].offset \in Masters
      BY <3>1, FrameFields
    <3> QED
      BY <3>1, <3>2, <3>3, FrameFields, SweepMeetsOnce DEF Index
  <2> QED
    BY <2>1 DEF IndInv, Types, TypeOK
<1> QED
  BY Invariance, <1>1, PTL

\* No client of these configurations makes its counter a negative int: so it is
\* wherever an int has the counter's 64 bits, as long as there are less than 2^63
\* calls, and always in Java.
CountersFit == \A g \in Configs : ~Overflows(g)

\* No master lists a location that the Java client cannot read.
WellFormed == \A g \in Configs : ~(g.lang = "java" /\ g.malformed)

\* A Go client panics only by the overflow of its counter.
THEOREM NoPanic ==
  ASSUME CountersFit
  PROVE  Spec => []NeverPanics
<1>1. IndInv => NeverPanics
  <2> SUFFICES ASSUME IndInv, NEW c \in Callers,
                      call[c].result = "panic"
               PROVE  FALSE
    BY DEF NeverPanics, Panicked
  <2>1. call[c] \in Frames /\ config \in Configs /\ CallerInv(c)
    BY DEF IndInv, Types
  <2>2. call[c].phase = "done"
    BY <2>1, FrameFields DEF CallerInv, Fresh, Swept, Busy
  <2> QED
    BY <2>1, <2>2 DEF CallerInv, Settled, CountersFit
<1> QED
  BY Invariance, <1>1, PTL

\* A call without a result has swept in full, if nothing ends it before: neither
\* an overflow nor a malformed location.
THEOREM FullSweeps ==
  ASSUME CountersFit, WellFormed
  PROVE  Spec => []FailsOnlyAfterFullSweeps
<1>1. IndInv => FailsOnlyAfterFullSweeps
  <2> SUFFICES ASSUME IndInv, NEW c \in Callers,
                      call[c].phase = "done", call[c].result # "Ok", NEW m \in Masters
               PROVE  failures[c][m] = Rounds
    BY DEF FailsOnlyAfterFullSweeps
  <2>1. config \in Configs /\ Settled(c) /\ call[c].result \in Results
    BY FrameFields DEF IndInv, Types, CallerInv
  <2>2. call[c].result = "AllMastersUnavailable"
    BY <2>1 DEF Settled, CountersFit, WellFormed, Results
  <2> QED
    BY <2>1, <2>2 DEF Settled
<1> QED
  BY Invariance, <1>1, PTL

\* One healthy master is enough for an assignment that is not cancelled, unless
\* the client panics.
THEOREM OneHealthyAssigns ==
  ASSUME CountersFit
  PROVE  Spec => []OneHealthyMasterAssigns
<1>1. IndInv => OneHealthyMasterAssigns
  <2> SUFFICES ASSUME IndInv, NEW h \in config.healthy, NEW c \in Callers,
                      call[c].phase = "done", call[c].op = "assign",
                      ~call[c].cancelled, call[c].result # "Ok"
               PROVE  FALSE
    BY DEF OneHealthyMasterAssigns
  <2>1. config \in Configs /\ CallerInv(c) /\ call[c].result \in Results
    BY FrameFields DEF IndInv, Types
  <2>2. h \in Masters /\ Rounds > 0 /\ Rounds \in Nat
    BY <2>1, ConfigFields
  <2>3. call[c].result = "AllMastersUnavailable"
    BY <2>1 DEF CallerInv, Settled, CountersFit, Results
  <2>4. failures[c][h] = Rounds
    BY <2>1, <2>2, <2>3 DEF CallerInv, Settled
  <2>5. failures[c][h] = 0
    BY <2>1 DEF CallerInv, Trusted
  <2> QED
    BY <2>2, <2>4, <2>5
<1> QED
  BY Invariance, <1>1, PTL

-----------------------------------------------------------------------------
(* The steps of a sweep are steps of the abstract call, MasterCall, unless   *)
(* something ends it before its masters are exhausted.                      *)

AbsStatuses == [c \in Callers |-> AbsStatus(c)]
AbsBudgets == [c \in Callers |-> [m \in Masters |-> Rounds - failures[c][m]]]

\* What the caller of the abstract call sees of a frame.
StatusTable(c) ==
  LET k == call[c] IN
  /\ k.phase = "idle" => AbsStatus(c) = "idle"
  /\ k.phase = "waiting" => AbsStatus(c) = "calling"
  /\ k.phase = "sleeping" =>
       AbsStatus(c) = IF k.round = Rounds THEN "failed" ELSE "calling"
  /\ k.phase = "done" => AbsStatus(c) = IF k.result = "Ok" THEN "ok" ELSE "failed"

\* A call still running has an attempt left, and one that failed has none.
BudgetsAgree(c) ==
  /\ AbsStatus(c) = "calling" => \E m \in Masters : failures[c][m] < Rounds
  /\ AbsStatus(c) = "failed" => \A m \in Masters : failures[c][m] = Rounds

Mapped == \A c \in Callers : StatusTable(c) /\ BudgetsAgree(c)

LEMMA StatusTables ==
  ASSUME IndInv, NEW c \in Callers
  PROVE  StatusTable(c)
<1>1. call[c] \in Frames /\ Fresh(c) /\ Swept(c) /\ Settled(c)
  BY DEF IndInv, Types, CallerInv
<1>2. /\ call[c].phase = "idle" => call[c].result = "none"
      /\ call[c].phase \in {"waiting", "sleeping"} => call[c].result = "none"
      /\ call[c].phase = "done" => call[c].result # "none"
  BY <1>1 DEF Fresh, Swept, Settled, Busy
<1> QED
  BY <1>2 DEF StatusTable, AbsStatus

LEMMA MappedInv ==
  ASSUME CountersFit, WellFormed
  PROVE  IndInv => Mapped
<1> SUFFICES ASSUME IndInv, NEW c \in Callers
             PROVE  StatusTable(c) /\ BudgetsAgree(c)
  BY DEF Mapped
<1> DEFINE k == call[c]
<1>1. /\ k \in Frames /\ config \in Configs /\ Swept(c) /\ Settled(c)
      /\ failures \in [Callers -> [Masters -> 0 .. Rounds]]
  BY DEF IndInv, Types, CallerInv
<1>2. StatusTable(c)
  BY StatusTables
<1>3. /\ k.phase \in {"idle", "waiting", "sleeping", "done"} /\ k.round \in 0 .. Rounds
      /\ k.offset \in Masters /\ k.result \in Results
  BY <1>1, FrameFields
<1>4. /\ Rounds \in Nat /\ Rounds > 0 /\ MasterCount \in Nat \ {0}
      /\ Masters = 0 .. MasterCount - 1
  BY <1>1, ConfigFields, MasterCountAssumption DEF Masters
<1>5. CASE k.phase = "waiting"
  <2>1. /\ k.start \in Masters /\ k.round < Rounds
        /\ \A m \in Masters :
             failures[c][m] =
               k.round + (IF Position(k.start, m) < k.offset THEN 1 ELSE 0)
    BY <1>1, <1>5 DEF Swept, Busy
  <2>2. PICK i \in Masters : i = Remainder(k.start + k.offset, MasterCount)
    BY <1>1, <1>3, <2>1, SweepMeetsOnce
  <2>3. Position(k.start, i) = k.offset
    BY <1>1, <1>3, <2>1, <2>2, SweepMeetsOnce
  <2>4. failures[c][i] = k.round
    BY <1>3, <1>4, <2>1, <2>3
  <2>5. AbsStatus(c) = "calling"
    BY <1>2, <1>5 DEF StatusTable
  <2> QED
    BY <1>2, <2>1, <2>4, <2>5 DEF BudgetsAgree
<1>6. CASE k.phase = "sleeping"
  <2>1. /\ k.start \in Masters /\ k.offset = 0
        /\ \A m \in Masters :
             failures[c][m] =
               k.round + (IF Position(k.start, m) < k.offset THEN 1 ELSE 0)
    BY <1>1, <1>6 DEF Swept, Busy
  <2>2. \A m \in Masters : ~(Position(k.start, m) < 0)
    BY <1>4, <2>1 DEF Position
  <2>3. \A m \in Masters : failures[c][m] = k.round
    BY <1>3, <1>4, <2>1, <2>2
  <2>4. AbsStatus(c) = IF k.round = Rounds THEN "failed" ELSE "calling"
    BY <1>2, <1>6 DEF StatusTable
  <2>5. 0 \in Masters
    BY <1>4
  <2> QED
    BY <1>2, <1>3, <1>4, <2>3, <2>4, <2>5 DEF BudgetsAgree
<1>7. CASE k.phase = "done"
  <2>1. AbsStatus(c) = IF k.result = "Ok" THEN "ok" ELSE "failed"
    BY <1>2, <1>7 DEF StatusTable
  <2>2. k.result # "Ok" => k.result = "AllMastersUnavailable"
    BY <1>1, <1>3, <1>7 DEF Settled, CountersFit, WellFormed, Results
  <2> QED
    BY <1>1, <1>2, <1>7, <2>1, <2>2 DEF BudgetsAgree, Settled
<1>8. CASE k.phase = "idle"
  BY <1>2, <1>8 DEF StatusTable, BudgetsAgree
<1> QED
  BY <1>3, <1>5, <1>6, <1>7, <1>8

LEMMA MappedNext ==
  ASSUME CountersFit, WellFormed
  PROVE  IndInv' => Mapped'
  BY MappedInv, PTL

\* A step that changes neither a status nor a budget is a stutter of the call.
LEMMA Stutters ==
  ASSUME UNCHANGED config, failures' = failures,
         \A c \in Callers : AbsStatus(c)' = AbsStatus(c)
  PROVE  UNCHANGED Promise!vars
<1>1. Rounds' = Rounds
  BY DEF Rounds
<1>2. AbsStatuses' = AbsStatuses /\ AbsBudgets' = AbsBudgets
  BY <1>1 DEF AbsStatuses, AbsBudgets
<1> QED
  BY <1>1, <1>2 DEF AbsStatuses, AbsBudgets, Promise!vars

\* The status of a caller whose call is not touched.
LEMMA OtherStatus ==
  ASSUME UNCHANGED config, NEW d \in Callers, call'[d] = call[d]
  PROVE  AbsStatus(d)' = AbsStatus(d)
<1>1. Rounds' = Rounds
  BY DEF Rounds
<1> QED
  BY <1>1 DEF AbsStatus

LEMMA InitMaps == Init => Promise!Init
<1> SUFFICES ASSUME Init PROVE Promise!Init
  OBVIOUS
<1>1. Rounds \in Nat /\ Rounds > 0
  BY ConfigFields DEF Init
<1>2. \A c \in Callers : AbsStatus(c) = "idle"
  <2>1. ASSUME NEW c \in Callers PROVE AbsStatus(c) = "idle"
    <3>1. call[c].phase = "idle" /\ IndInv
      BY InitInv DEF Init, NewFrame
    <3> QED
      BY <3>1, StatusTables DEF StatusTable
  <2> QED
    BY <2>1
<1>3. \A c \in Callers : \A m \in Masters : Rounds - failures[c][m] = Rounds
  BY <1>1 DEF Init
<1> QED
  BY <1>1, <1>2, <1>3 DEF Promise!Init

LEMMA BeginMaps ==
  ASSUME CountersFit, IndInv, IndInv', Mapped', NEW c \in Callers, NEW op \in Ops,
         Begin(c, op)
  PROVE  Promise!Next
<1>1. PICK s \in StartIndexes :
        call' = [call EXCEPT ![c] = Head(NewFrame("waiting", op, s))]
  BY DEF Begin
<1>2. /\ config \in Configs /\ config' = config /\ calls < MaxCalls /\ Types
      /\ failures' = [failures EXCEPT ![c] = [m \in Masters |-> 0]]
      /\ Rounds' = Rounds /\ Rounds \in Nat /\ Rounds > 0
  BY ConfigFields DEF Begin, IndInv, Types, Rounds
<1>3. call'[c].phase = "waiting"
  <2> DEFINE k == NewFrame("waiting", op, s)
  <2>1. /\ s \in Int /\ Remainder(s + 0, MasterCount) \in Int
        /\ Remainder(s + 0, MasterCount) >= 0
    <3>1. ~Overflows(config)
      BY <1>2 DEF CountersFit
    <3> QED
      BY <1>2, <3>1, StartType
  <2>2. k \in Frames /\ k.start = s /\ k.round = 0 /\ k.offset = 0
    BY <1>2, <2>1, NewFrameFields
  <2>3. call'[c] = Head(k)
    BY <1>1, <1>2 DEF Types
  <2> HIDE DEF k
  <2>4. Index(k) \in Int /\ ~(Index(k) < 0)
    BY <2>1, <2>2 DEF Index
  <2> QED
    BY <1>2, <2>2, <2>3, <2>4, HeadCases
<1>4. AbsStatus(c)' = "calling"
  BY <1>3 DEF Mapped, StatusTable
<1>5. AbsStatus(c) # "calling"
  <2>1. call[c].phase \in {"idle", "done"}
    BY FrameFields DEF Begin, Busy, IndInv, Types
  <2> QED
    BY <2>1, StatusTables DEF StatusTable
<1>6. \A d \in Callers \ {c} : call'[d] = call[d] /\ failures'[d] = failures[d]
  BY <1>1, <1>2 DEF Types
<1>7. AbsStatuses' = [AbsStatuses EXCEPT ![c] = "calling"]
  BY <1>2, <1>4, <1>6, OtherStatus DEF AbsStatuses
<1>8. AbsBudgets' = [AbsBudgets EXCEPT ![c] = [m \in Masters |-> Rounds]]
  <2>1. \A m \in Masters : Rounds - failures'[c][m] = Rounds
    BY <1>2 DEF Types
  <2>2. AbsBudgets'[c] = [m \in Masters |-> Rounds]
    BY <1>2, <2>1 DEF AbsBudgets
  <2>3. \A d \in Callers \ {c} : AbsBudgets'[d] = AbsBudgets[d]
    BY <1>2, <1>6 DEF AbsBudgets
  <2>4. /\ AbsBudgets = [d \in Callers |-> AbsBudgets[d]]
        /\ AbsBudgets' = [d \in Callers |-> AbsBudgets'[d]]
    BY DEF AbsBudgets
  <2> QED
    BY <2>2, <2>3, <2>4
<1> QED
  BY <1>2, <1>5, <1>7, <1>8 DEF AbsStatuses, AbsBudgets, Promise!Next, Promise!Invoke

LEMMA AttemptMaps ==
  ASSUME WellFormed, IndInv, IndInv', Mapped, Mapped', NEW c \in Callers, Attempt(c)
  PROVE  Promise!Next
<1> DEFINE k == call[c]
<1>1. PICK reply \in RepliesFrom(k) : Settle(c, reply)
  BY DEF Attempt
<1> DEFINE outcome == Outcome(k.op, reply)
           n == CASE outcome = "Ok" -> Finish(k, "Ok")
                  [] outcome = "IllegalArgument" -> Finish(k, "escaped")
                  [] OTHER -> NextAttempt(k)
<1>2. /\ call' = [call EXCEPT ![c] = n] /\ config' = config
      /\ failures' = IF outcome = "Ok" THEN failures
                     ELSE [failures EXCEPT ![c][Index(k)] = @ + 1]
  BY <1>1 DEF Settle
<1>3. /\ Types /\ config \in Configs /\ k \in Frames /\ k.phase = "waiting"
      /\ k.round < Rounds /\ k.start \in Masters /\ k.result = "none"
  BY DEF Attempt, IndInv, Types, CallerInv, Swept, Busy
<1>4. Rounds' = Rounds /\ Rounds \in Nat
  BY <1>2, <1>3, ConfigFields DEF Rounds
<1>5. outcome # "IllegalArgument"
  BY <1>3, OutcomeCases DEF WellFormed
<1>6. AbsStatus(c) = "calling" /\ \E m \in Masters : failures[c][m] < Rounds
  BY <1>3 DEF Mapped, StatusTable, BudgetsAgree
<1>7. call'[c] = n /\ \A d \in Callers \ {c} : call'[d] = call[d]
  BY <1>2, <1>3 DEF Types
<1> HIDE DEF outcome
<1>8. CASE outcome = "Ok"
  <2>1. n = Finish(k, "Ok") /\ failures' = failures
    BY <1>2, <1>8
  <2>2. n.phase = "done" /\ n.result = "Ok"
    BY <1>3, <2>1, FinishFields DEF Results
  <2> HIDE DEF n
  <2>3. AbsStatus(c)' = "ok"
    BY <1>7, <2>2 DEF Mapped, StatusTable
  <2>4. AbsStatuses' = [AbsStatuses EXCEPT ![c] = "ok"]
    BY <1>2, <1>7, <2>3, OtherStatus DEF AbsStatuses
  <2>5. AbsBudgets' = AbsBudgets
    BY <1>4, <2>1 DEF AbsBudgets
  <2>6. \E m \in Masters : AbsBudgets[c][m] > 0
    <3>1. PICK m \in Masters : failures[c][m] < Rounds
      BY <1>6
    <3>2. failures[c][m] \in 0 .. Rounds
      BY <1>3 DEF Types
    <3> QED
      BY <1>4, <3>1, <3>2 DEF AbsBudgets
  <2>7. Promise!Answered(c, "ok")
    BY <1>4, <1>6, <2>4, <2>5, <2>6 DEF AbsStatuses, AbsBudgets, Promise!Answered
  <2> QED
    BY <2>7 DEF Promise!Next
<1>9. CASE outcome # "Ok"
  <2>1. n = NextAttempt(k)
    BY <1>5, <1>9
  <2>2. n.phase \in {"waiting", "sleeping", "done"} /\ n.result # "Ok"
    <3>1. k.offset \in Masters
      BY <1>3, FrameFields
    <3> HIDE DEF k, n
    <3> QED
      BY <1>3, <2>1, <3>1, NextAttemptCases
  <2> HIDE DEF n
  <2>3. AbsStatus(c)' \in {"calling", "failed"}
    BY <1>7, <2>2 DEF Mapped, StatusTable
  <2>4. PICK i \in Masters : i = Index(k)
    BY <1>3, SweepMeetsOnce, FrameFields DEF Index
  <2>5. failures' = [failures EXCEPT ![c][i] = @ + 1]
    BY <1>2, <1>9, <2>4
  <2>6. /\ failures \in [Callers -> [Masters -> 0 .. Rounds]]
        /\ failures' \in [Callers -> [Masters -> 0 .. Rounds]]
    BY <1>3, <1>4 DEF IndInv, Types
  <2>7. /\ failures'[c][i] = failures[c][i] + 1
        /\ \A m \in Masters : m # i => failures'[c][m] = failures[c][m]
        /\ \A d \in Callers \ {c} : failures'[d] = failures[d]
    BY <2>5, <2>6
  <2>8. AbsBudgets' = [AbsBudgets EXCEPT ![c][i] = @ - 1] /\ AbsBudgets[c][i] > 0
    <3> DEFINE x == failures[c][i]
               y == failures'[c][i]
    <3>1. x \in 0 .. Rounds /\ y \in 0 .. Rounds /\ y = x + 1
      BY <2>6, <2>7
    <3>2. AbsBudgets[c][i] = Rounds - x /\ AbsBudgets'[c][i] = Rounds - y
      BY <1>4 DEF AbsBudgets
    <3> HIDE DEF x, y
    <3>3. AbsBudgets'[c][i] = AbsBudgets[c][i] - 1 /\ AbsBudgets[c][i] > 0
      BY <1>4, <3>1, <3>2
    <3>4. \A d \in Callers, m \in Masters :
            (d # c \/ m # i) => AbsBudgets'[d][m] = AbsBudgets[d][m]
      BY <1>4, <2>7 DEF AbsBudgets
    <3>5. /\ AbsBudgets = [d \in Callers |-> [m \in Masters |-> AbsBudgets[d][m]]]
          /\ AbsBudgets' = [d \in Callers |-> [m \in Masters |-> AbsBudgets'[d][m]]]
      BY DEF AbsBudgets
    <3> QED
      BY <3>3, <3>4, <3>5
  <2>9. AbsStatus(c)' = IF \A m \in Masters : AbsBudgets'[c][m] = 0
                        THEN "failed" ELSE "calling"
    <3>1. \A m \in Masters : /\ AbsBudgets'[c][m] = Rounds - failures'[c][m]
                             /\ failures'[c][m] \in 0 .. Rounds
      BY <1>4, <2>6 DEF AbsBudgets
    <3>2. /\ AbsStatus(c)' = "calling" => \E m \in Masters : failures'[c][m] < Rounds
          /\ AbsStatus(c)' = "failed" => \A m \in Masters : failures'[c][m] = Rounds
      BY <1>4 DEF Mapped, BudgetsAgree
    <3> QED
      BY <1>4, <2>3, <3>1, <3>2
  <2>10. AbsStatuses' = [AbsStatuses EXCEPT ![c] =
                           IF \A m \in Masters : AbsBudgets'[c][m] = 0
                           THEN "failed" ELSE "calling"]
    BY <1>2, <1>7, <2>9, OtherStatus DEF AbsStatuses
  <2>11. Promise!Refused(c, i)
    BY <1>4, <1>6, <2>8, <2>10 DEF AbsStatuses, AbsBudgets, Promise!Refused
  <2> QED
    BY <2>11 DEF Promise!Next
<1> QED
  BY <1>8, <1>9

\* The call that wakes after its last round has failed already.
LEMMA WakeMaps ==
  ASSUME IndInv, IndInv', Mapped, Mapped', NEW c \in Callers, Wake(c)
  PROVE  UNCHANGED Promise!vars
<1> DEFINE k == call[c]
           n == Head(k)
<1>1. /\ call' = [call EXCEPT ![c] = n] /\ failures' = failures /\ config' = config
      /\ Rounds' = Rounds
  BY DEF Wake, Rounds
<1>2. /\ Types /\ config \in Configs /\ k \in Frames /\ k.phase = "sleeping"
      /\ k.start \in Masters /\ k.result = "none" /\ k.offset \in Masters
  BY FrameFields DEF Wake, IndInv, Types, CallerInv, Swept, Busy
<1>3. Index(k) \in Int /\ ~(Index(k) < 0)
  <2>1. Index(k) \in Masters
    BY <1>2, SweepMeetsOnce DEF Index
  <2> QED
    BY <2>1 DEF Masters
<1>4. call'[c] = n /\ \A d \in Callers \ {c} : call'[d] = call[d]
  BY <1>1, <1>2 DEF Types
<1>5. AbsStatus(c) = IF k.round = Rounds THEN "failed" ELSE "calling"
  BY <1>2 DEF Mapped, StatusTable
<1> HIDE DEF k
<1>6. \/ k.round = Rounds /\ n.phase = "done" /\ n.result = "AllMastersUnavailable"
      \/ k.round < Rounds /\ n.phase = "waiting"
  BY <1>2, <1>3, HeadCases
<1> HIDE DEF n
<1>7. k.round \in Nat /\ Rounds \in Nat
  BY <1>2, FrameFields, ConfigFields
<1>8. AbsStatus(c)' = AbsStatus(c)
  BY <1>4, <1>5, <1>6, <1>7 DEF Mapped, StatusTable
<1> QED
  BY <1>1, <1>4, <1>8, OtherStatus, Stutters

\* A caller that cancels its context does not end its call.
LEMMA CancelMaps ==
  ASSUME IndInv, Mapped, Mapped', NEW c \in Callers, Cancel(c)
  PROVE  UNCHANGED Promise!vars
<1> DEFINE k == call[c]
           n == [k EXCEPT !.cancelled = TRUE]
<1>1. /\ call' = [call EXCEPT ![c] = n] /\ failures' = failures /\ config' = config
      /\ Rounds' = Rounds /\ k \in Frames /\ Types
  BY DEF Cancel, Rounds, IndInv, Types
<1>2. n.phase = k.phase /\ n.round = k.round /\ n.result = k.result
  BY <1>1, CancelFields
<1> HIDE DEF n
<1>3. call'[c] = n /\ \A d \in Callers \ {c} : call'[d] = call[d]
  BY <1>1 DEF Types
<1>4. AbsStatus(c)' = AbsStatus(c)
  BY <1>1, <1>2, <1>3, FrameFields DEF Mapped, StatusTable
<1> QED
  BY <1>1, <1>3, <1>4, OtherStatus, Stutters

LEMMA StepMaps ==
  ASSUME CountersFit, WellFormed
  PROVE  IndInv /\ IndInv' /\ [Next]_vars => [Promise!Next]_(Promise!vars)
<1> SUFFICES ASSUME IndInv, IndInv', [Next]_vars
             PROVE  [Promise!Next]_(Promise!vars)
  OBVIOUS
<1>1. Mapped /\ Mapped'
  BY MappedInv, MappedNext
<1>2. CASE UNCHANGED vars
  <2>1. UNCHANGED <<config, call, failures>>
    BY <1>2 DEF vars
  <2>2. \A c \in Callers : AbsStatus(c)' = AbsStatus(c)
    BY <2>1, OtherStatus
  <2> QED
    BY <2>1, <2>2, Stutters
<1>3. CASE Next
  <2>1. PICK c \in Callers :
          \/ \E op \in Ops : Begin(c, op)
          \/ Attempt(c) \/ Wake(c) \/ Cancel(c)
    BY <1>3 DEF Next
  <2> QED
    BY <1>1, <2>1, BeginMaps, AttemptMaps, WakeMaps, CancelMaps
<1> QED
  BY <1>2, <1>3

\* Wherever counters fit and locations are well formed, the Go and the Java
\* client keep in every step what MasterCall promises: backoff, retried lookups
\* of absent volumes and cancelled contexts included.
THEOREM SweepKeepsPromise ==
  ASSUME CountersFit, WellFormed
  PROVE  Spec => Promise!Safety
<1>1. Init => Promise!Init
  BY InitMaps
<1>2. IndInv /\ IndInv' /\ [Next]_vars => [Promise!Next]_(Promise!vars)
  BY StepMaps
<1> QED
  BY Invariance, <1>1, <1>2, PTL DEF Spec, Promise!Safety

-----------------------------------------------------------------------------
(* Round robin.                                                             *)

LEMMA DivMod ==
  ASSUME NEW x \in Int, NEW n \in Nat \ {0}
  PROVE  /\ x % n \in 0 .. n - 1 /\ x \div n \in Int
         /\ x = (n * (x \div n)) + (x % n)
         /\ x >= 0 => x \div n \in Nat
  OBVIOUS

LEMMA DivModUnique ==
  ASSUME NEW x \in Int, NEW n \in Nat \ {0}, NEW q \in Int, NEW r \in 0 .. n - 1,
         x = (n * q) + r
  PROVE  x \div n = q /\ x % n = r
  OBVIOUS

\* Counting up by one: the remainder follows, or wraps and carries.
LEMMA DivModNext ==
  ASSUME NEW x \in Int, NEW n \in Nat \ {0}
  PROVE  /\ (x + 1) % n = IF (x % n) + 1 < n THEN (x % n) + 1 ELSE 0
         /\ (x + 1) \div n = IF (x % n) + 1 < n THEN x \div n ELSE (x \div n) + 1
<1> DEFINE q == x \div n
           r == x % n
<1>1. q \in Int /\ r \in 0 .. n - 1 /\ x = (n * q) + r
  BY DivMod
<1> HIDE DEF q, r
<1>2. CASE r + 1 < n
  <2>1. r + 1 \in 0 .. n - 1 /\ x + 1 = (n * q) + (r + 1) /\ x + 1 \in Int
    BY <1>1, <1>2
  <2>2. (x + 1) \div n = q /\ (x + 1) % n = r + 1
    BY <1>1, <2>1, DivModUnique
  <2> QED
    BY <1>1, <1>2, <2>2 DEF q, r
<1>3. CASE r + 1 = n
  <2>1. n * (q + 1) = (n * q) + n
    BY <1>1
  <2>2. q + 1 \in Int /\ 0 \in 0 .. n - 1 /\ x + 1 = (n * (q + 1)) + 0 /\ x + 1 \in Int
    BY <1>1, <1>3, <2>1
  <2>3. (x + 1) \div n = q + 1 /\ (x + 1) % n = 0
    BY <1>1, <2>2, DivModUnique
  <2> QED
    BY <1>1, <1>3, <2>3 DEF q, r
<1> QED
  BY <1>1, <1>2, <1>3

\* A counter of a width that another divides, read in that other width.
LEMMA ModMod ==
  ASSUME NEW x \in Nat, NEW m \in Nat \ {0}, NEW n \in Nat \ {0}, m % n = 0
  PROVE  (x % m) % n = x % n
<1> DEFINE k == m \div n
           q == x \div m
           r == x % m
           u == r \div n
           v == r % n
<1>1. k \in Int /\ m = (n * k) + 0
  BY DivMod
<1>2. q \in Int /\ r \in Int /\ x = (m * q) + r
  BY DivMod
<1> HIDE DEF k, q, r
<1>3. u \in Int /\ v \in 0 .. n - 1 /\ r = (n * u) + v
  BY <1>2, DivMod
<1> HIDE DEF u, v
<1>4. k * q \in Int /\ m * q = n * (k * q)
  BY <1>1, <1>2
<1> DEFINE p == k * q
<1>5. p \in Int /\ m * q = n * p
  BY <1>4
<1> HIDE DEF p
<1>6. n * (p + u) = (n * p) + (n * u)
  BY <1>3, <1>5
<1>7. p + u \in Int /\ x = (n * (p + u)) + v
  BY <1>2, <1>3, <1>5, <1>6
<1>8. x % n = v
  BY <1>3, <1>7, DivModUnique
<1> QED
  BY <1>8 DEF v, r

LEMMA Half ==
  ASSUME NEW n \in Nat
  PROVE  n \div 2 \in Nat /\ (n = 2 * (n \div 2) \/ n = 2 * (n \div 2) + 1)
  OBVIOUS

LEMMA NegativeMultiple ==
  ASSUME NEW x \in Int, NEW n \in Nat \ {0}, (-x) % n = 0
  PROVE  x % n = 0
<1> DEFINE y == -x
           q == y \div n
<1>1. y \in Int
  OBVIOUS
<1>2. y % n = 0
  OBVIOUS
<1> HIDE DEF y
<1>3. q \in Int /\ y = (n * q) + 0
  BY <1>1, <1>2, DivMod
<1> HIDE DEF q
<1>4. n * (-q) = -(n * q)
  BY <1>3
<1>5. -q \in Int /\ 0 \in 0 .. n - 1 /\ x = (n * (-q)) + 0
  BY <1>3, <1>4 DEF y
<1> QED
  BY <1>5, DivModUnique

\* How often the counter has overflowed as an int when call number x starts.
Overflowed(x) == (x + (config.intMod \div 2)) \div config.intMod

\* Read as an int, the counter is short of the calls by the overflows so far.
LEMMA AsIntCounts ==
  ASSUME config \in Configs, NEW x \in Nat
  PROVE  /\ Overflowed(x) \in Nat
         /\ AsInt(x) = x - config.intMod * Overflowed(x)
<1> DEFINE n == config.intMod
           h == n \div 2
           q == x \div n
           r == x % n
           w == (x + h) \div n
<1>1. n \in Nat \ {0}
  BY ConfigFields
<1>2. h \in Nat /\ (n = 2 * h \/ n = 2 * h + 1)
  <2> HIDE DEF n
  <2>1. n \in Nat
    BY <1>1
  <2> QED
    BY Zenon, <2>1, Half
<1>3. q \in Nat /\ r \in 0 .. n - 1 /\ x = (n * q) + r
  <2> HIDE DEF n
  <2>1. x \in Int /\ x >= 0
    OBVIOUS
  <2> QED
    BY Zenon, <1>1, <2>1, DivMod
<1>4. AsInt(x) = IF 2 * r >= n THEN r - n ELSE r
  BY DEF AsInt
<1>5. Overflowed(x) = w
  BY DEF Overflowed
<1> HIDE DEF n, h, q, r
<1>6. CASE r + h < n
  <2>1. x + h \in Int /\ r + h \in 0 .. n - 1 /\ x + h = (n * q) + (r + h)
    BY <1>1, <1>2, <1>3, <1>6
  <2>2. w = q
    BY <1>1, <1>3, <2>1, DivModUnique
  <2>3. ~(2 * r >= n)
    BY <1>1, <1>2, <1>3, <1>6
  <2> HIDE DEF w
  <2>4. AsInt(x) = x - (n * w) /\ w \in Nat
    BY <1>1, <1>3, <1>4, <2>2, <2>3
  <2> QED
    BY <1>5, <2>4 DEF n
<1>7. CASE r + h >= n
  <2>1. n * (q + 1) = (n * q) + n
    BY <1>1, <1>3
  <2>2. /\ x + h \in Int /\ r + h - n \in 0 .. n - 1 /\ q + 1 \in Int
        /\ x + h = (n * (q + 1)) + (r + h - n)
    BY <1>1, <1>2, <1>3, <1>7, <2>1
  <2>3. w = q + 1
    BY <1>1, <2>2, DivModUnique
  <2>4. 2 * r >= n
    BY <1>1, <1>2, <1>3, <1>7
  <2> HIDE DEF w
  <2>5. AsInt(x) = x - (n * w) /\ w \in Nat
    BY <1>1, <1>3, <1>4, <2>1, <2>3, <2>4
  <2> QED
    BY <1>5, <2>5 DEF n
<1> QED
  BY <1>1, <1>2, <1>3, <1>6, <1>7

\* The next value is one more, unless an overflow lies between.
LEMMA AsIntNext ==
  ASSUME config \in Configs, NEW x \in Nat
  PROVE  \/ Overflowed(x + 1) = Overflowed(x) /\ AsInt(x + 1) = AsInt(x) + 1
         \/ Overflowed(x + 1) = Overflowed(x) + 1
<1> DEFINE n == config.intMod
           y == x + (n \div 2)
           a == Overflowed(x)
           b == Overflowed(x + 1)
<1>1. n \in Nat \ {0} /\ n \div 2 \in Nat
  BY ConfigFields
<1>2. a = y \div n /\ b = (y + 1) \div n
  BY <1>1 DEF Overflowed
<1>3. y \in Int
  BY <1>1
<1>4. a \in Nat /\ b \in Nat /\ AsInt(x) = x - (n * a) /\ AsInt(x + 1) = (x + 1) - (n * b)
  BY AsIntCounts
<1> HIDE DEF n, y, a, b
<1>5. b = a \/ b = a + 1
  BY <1>1, <1>2, <1>3, DivModNext
<1>6. b = a => AsInt(x + 1) = AsInt(x) + 1
  BY <1>1, <1>4
<1> QED
  BY <1>5, <1>6 DEF a, b

\* Where call number x starts, overflows or not.
Turn(x) == AsInt(x) % MasterCount

\* Whether master m has had its turn in the deal of the latest call.
Dealt(m) == IF m <= Turn(calls - 1) THEN 1 ELSE 0

\* The counter counts calls, and wraps. No two masters are further apart than
\* the deal under way puts them, and one more for each deal an overflow cut
\* short. After a panic no call starts.
Balanced ==
  /\ starts \in [Masters -> Nat]
  /\ config.strategy = "RoundRobin" =>
       /\ counter = calls % config.counterMod
       /\ calls = 0 => \A m \in Masters : starts[m] = 0
       /\ calls > 0 =>
            \A m, l \in Masters :
              starts[m] - starts[l] <=
                IF Panicked THEN Overflowed(calls - 1) + 1
                ELSE Overflowed(calls - 1) + Dealt(m) - Dealt(l)

\* Where round robin starts: at the turn of the call, or at no master.
LEMMA StartsAtTurn ==
  ASSUME Types, config.strategy = "RoundRobin", counter = calls % config.counterMod,
         NEW s \in StartIndexes
  PROVE  /\ Turn(calls) \in Masters
         /\ s < 0 \/ s = Turn(calls)
<1> DEFINE x == AsInt(calls)
           r == (-x) % MasterCount
<1>1. /\ MasterCount \in Nat \ {0} /\ Masters = 0 .. MasterCount - 1
      /\ config.counterMod \in Nat \ {0} /\ config.intMod \in Nat \ {0}
      /\ config.counterMod % config.intMod = 0 /\ calls \in Nat
  BY ConfigFields, ConfigsAssumption, MasterCountAssumption, MaxCallsAssumption
  DEF Types, Masters
<1>2. counter % config.intMod = calls % config.intMod
  BY <1>1, ModMod
<1>3. s = Remainder(x, MasterCount)
  BY <1>2 DEF StartIndexes, AsInt
<1>4. x \in Int
  <2> DEFINE y == calls % config.intMod
  <2>1. y \in Int
    BY <1>1, DivMod
  <2>2. x = IF 2 * y >= config.intMod THEN y - config.intMod ELSE y
    BY DEF AsInt
  <2> HIDE DEF x, y
  <2> QED
    BY <1>1, <2>1, <2>2
<1>5. Turn(calls) = x % MasterCount
  BY DEF Turn
<1> HIDE DEF x
<1>6. Turn(calls) \in Masters
  BY <1>1, <1>4, <1>5, ModRange
<1>7. CASE config.lang = "go" /\ x < 0
  <2>1. r \in 0 .. MasterCount - 1 /\ s = -r
    BY <1>1, <1>3, <1>4, <1>7, ModRange DEF Remainder
  <2>2. ASSUME r = 0 PROVE x % MasterCount = 0
    BY Zenon, <1>1, <1>4, <2>2, NegativeMultiple
  <2> HIDE DEF r
  <2> QED
    BY <1>1, <1>5, <1>6, <2>1, <2>2
<1>8. CASE ~(config.lang = "go" /\ x < 0)
  BY <1>3, <1>5, <1>6, <1>8 DEF Remainder
<1> QED
  BY <1>7, <1>8

\* Dealing one call to t moves the bound between any two masters with it.
LEMMA DealOne ==
  ASSUME NEW n \in Nat \ {0}, NEW s \in 0 .. n - 1, NEW t \in 0 .. n - 1,
         NEW m \in 0 .. n - 1, NEW l \in 0 .. n - 1,
         NEW a \in Nat, NEW b \in Nat, NEW w \in Nat, NEW ww \in Nat,
         a - b <= w + (IF m <= s THEN 1 ELSE 0) - (IF l <= s THEN 1 ELSE 0),
         \/ ww = w /\ t = IF s + 1 < n THEN s + 1 ELSE 0
         \/ ww = w + 1
  PROVE  (IF m = t THEN a + 1 ELSE a) - (IF l = t THEN b + 1 ELSE b)
           <= ww + (IF m <= t THEN 1 ELSE 0) - (IF l <= t THEN 1 ELSE 0)
<1>1. CASE ww = w /\ s + 1 < n
  BY <1>1
<1>2. CASE ww = w /\ s + 1 = n
  BY <1>2
<1>3. CASE ww = w + 1
  BY <1>3
<1> QED
  BY <1>1, <1>2, <1>3

\* From one turn to the next: around the list, or across an overflow.
LEMMA TurnNext ==
  ASSUME config \in Configs, NEW x \in Nat
  PROVE  /\ Overflowed(x) \in Nat /\ Overflowed(x + 1) \in Nat
         /\ Turn(x) \in Masters /\ Turn(x + 1) \in Masters
         /\ \/ /\ Overflowed(x + 1) = Overflowed(x)
               /\ Turn(x + 1) = IF Turn(x) + 1 < MasterCount THEN Turn(x) + 1 ELSE 0
            \/ Overflowed(x + 1) = Overflowed(x) + 1
<1> DEFINE y == AsInt(x)
           z == AsInt(x + 1)
           v == Overflowed(x)
           w == Overflowed(x + 1)
<1>1. x + 1 \in Nat /\ config.intMod \in Nat /\ MasterCount \in Nat \ {0}
      /\ Masters = 0 .. MasterCount - 1
  BY ConfigFields, MasterCountAssumption DEF Masters
<1>2. v \in Nat /\ w \in Nat /\ y = x - config.intMod * v
      /\ z = (x + 1) - config.intMod * w
  BY <1>1, AsIntCounts
<1>3. (w = v /\ z = y + 1) \/ w = v + 1
  BY AsIntNext
<1>4. Turn(x) = y % MasterCount /\ Turn(x + 1) = z % MasterCount
  BY DEF Turn
<1> HIDE DEF y, z, v, w
<1>5. y \in Int /\ z \in Int
  BY <1>1, <1>2
<1>6. Turn(x) \in Masters /\ Turn(x + 1) \in Masters
  BY <1>1, <1>4, <1>5, ModRange
<1>7. z = y + 1 => Turn(x + 1) = IF Turn(x) + 1 < MasterCount THEN Turn(x) + 1 ELSE 0
  BY <1>1, <1>4, <1>5, DivModNext
<1> QED
  BY <1>2, <1>3, <1>6, <1>7 DEF v, w

LEMMA BalancedInit == Init => Balanced
<1> SUFFICES ASSUME Init PROVE Balanced
  OBVIOUS
<1>1. config.counterMod \in Nat \ {0}
  BY ConfigFields DEF Init
<1>2. 0 % config.counterMod = 0
  BY <1>1
<1> QED
  BY <1>2 DEF Init, Balanced

\* Where a call starts, and that a panic is all that keeps it off the list.
LEMMA Started ==
  ASSUME IndInv, NEW c \in Callers, NEW op \in Ops, Begin(c, op)
  PROVE  \E s \in StartIndexes :
           /\ s \in Int /\ (s >= 0 => s \in Masters) /\ (s < 0 => Panicked')
           /\ starts' = IF s \in Masters THEN [starts EXCEPT ![s] = @ + 1] ELSE starts
<1>1. PICK s \in StartIndexes :
        /\ call' = [call EXCEPT ![c] = Head(NewFrame("waiting", op, s))]
        /\ starts' = IF s \in Masters THEN [starts EXCEPT ![s] = @ + 1] ELSE starts
  BY DEF Begin
<1> DEFINE k == NewFrame("waiting", op, s)
<1>2. config \in Configs /\ Types /\ calls < MaxCalls
  BY DEF Begin, IndInv, Types
<1>3. /\ s \in Int /\ (s >= 0 => s \in Masters)
      /\ Remainder(s + 0, MasterCount) \in Int
      /\ s >= 0 <=> Remainder(s + 0, MasterCount) >= 0
  BY <1>2, StartType
<1>4. k \in Frames /\ k.start = s /\ k.round = 0 /\ k.offset = 0
  BY <1>2, <1>3, NewFrameFields
<1>5. call'[c] = Head(k)
  BY <1>1, <1>2 DEF Types
<1>6. Index(k) = Remainder(s + 0, MasterCount) /\ Rounds \in Nat /\ Rounds > 0
  BY <1>2, <1>4, ConfigFields DEF Index
<1> HIDE DEF k
<1>7. ASSUME s < 0 PROVE Panicked'
  <2>1. Index(k) \in Int /\ ~(Index(k) >= 0)
    BY <1>3, <1>6, <1>7
  <2>2. call'[c].result = "panic"
    BY <1>2, <1>4, <1>5, <1>6, <2>1, HeadCases
  <2> QED
    BY <2>2 DEF Panicked
<1> QED
  BY <1>1, <1>3, <1>7

LEMMA BalancedBegin ==
  ASSUME IndInv, Balanced, NEW c \in Callers, NEW op \in Ops, Begin(c, op)
  PROVE  Balanced'
<1>1. PICK s \in StartIndexes :
        /\ s \in Int /\ (s >= 0 => s \in Masters) /\ (s < 0 => Panicked')
        /\ starts' = IF s \in Masters THEN [starts EXCEPT ![s] = @ + 1] ELSE starts
  BY Started
<1>2. /\ config \in Configs /\ config' = config /\ Types /\ ~Panicked
      /\ calls \in Nat /\ calls' = calls + 1 /\ counter' = NextCounter
      /\ MasterCount \in Nat \ {0} /\ Masters = 0 .. MasterCount - 1
      /\ config.counterMod \in Nat \ {0} /\ starts \in [Masters -> Nat]
  <2>1. config \in Configs /\ config' = config /\ Types /\ ~Panicked
        /\ calls' = calls + 1 /\ counter' = NextCounter
    BY DEF Begin, IndInv, Types
  <2>2. calls \in Nat
    BY <2>1, MaxCallsAssumption DEF Types
  <2>3. config.counterMod \in Nat \ {0} /\ starts \in [Masters -> Nat]
    BY <2>1, ConfigFields DEF Balanced
  <2>4. MasterCount \in Nat \ {0} /\ Masters = 0 .. MasterCount - 1
    BY MasterCountAssumption DEF Masters
  <2> QED
    BY <2>1, <2>2, <2>3, <2>4
<1>3. starts' \in [Masters -> Nat]
  BY <1>1, <1>2
<1>4. calls' - 1 = calls
  BY <1>2
<1>5. Overflowed(calls - 1)' = Overflowed(calls)
  BY <1>2, <1>4 DEF Overflowed
<1>6. \A m \in Masters : Dealt(m)' = IF m <= Turn(calls) THEN 1 ELSE 0
  BY <1>2, <1>4 DEF Dealt, Turn, AsInt
<1>7. ASSUME config.strategy = "RoundRobin" PROVE counter' = calls' % config.counterMod
  <2> DEFINE n == config.counterMod
  <2>1. n \in Nat \ {0} /\ calls \in Int
    BY <1>2
  <2>2. counter = calls % n /\ counter' = (counter + 1) % n
    BY <1>2, <1>7 DEF Balanced, NextCounter
  <2>3. /\ (calls + 1) % n = IF counter + 1 < n THEN counter + 1 ELSE 0
        /\ counter \in 0 .. n - 1
    BY <2>1, <2>2, DivModNext, ModRange
  <2> HIDE DEF n
  <2>4. counter % n = counter
    BY <2>1, <2>3, ModSmall
  <2>5. counter \in Int
    BY <2>1, <2>3
  <2>6. (counter + 1) % n = IF counter + 1 < n THEN counter + 1 ELSE 0
    BY <2>1, <2>4, <2>5, DivModNext
  <2> QED
    BY <1>2, <2>2, <2>3, <2>6 DEF n
<1>8. ASSUME config.strategy = "RoundRobin", NEW m \in Masters, NEW l \in Masters
      PROVE  starts'[m] - starts'[l] <=
               IF Panicked' THEN Overflowed(calls) + 1
               ELSE Overflowed(calls) + Dealt(m)' - Dealt(l)'
  <2> DEFINE a == starts[m]
             b == starts[l]
             t == Turn(calls)
             ww == Overflowed(calls)
             d == (IF m <= t THEN 1 ELSE 0) - (IF l <= t THEN 1 ELSE 0)
  <2>1. t \in Masters /\ (s < 0 \/ s = t)
    BY <1>2, <1>8, StartsAtTurn DEF Balanced
  <2>2. a \in Nat /\ b \in Nat /\ ww \in Nat
    BY <1>2, AsIntCounts
  <2>3. Dealt(m)' - Dealt(l)' = d /\ d \in {-1, 0, 1}
    BY <1>6
  <2>4. a - b <= ww + 1
        /\ (IF m = t THEN a + 1 ELSE a) - (IF l = t THEN b + 1 ELSE b) <= ww + d
    <3>1. CASE calls = 0
      <4>1. a = 0 /\ b = 0
        BY <1>8, <3>1 DEF Balanced
      <4>2. t = 0
        <5>1. AsInt(0) = 0
          BY <1>2, ConfigFields DEF AsInt
        <5> QED
          BY <1>2, <3>1, <5>1 DEF Turn
      <4> HIDE DEF a, b, t, ww
      <4> QED
        BY <1>2, <2>2, <4>1, <4>2
    <3>2. CASE calls > 0
      <4> DEFINE x == calls - 1
                 u == Turn(x)
                 w == Overflowed(x)
      <4>1. x \in Nat /\ calls = x + 1
        BY <1>2, <3>2
      <4>2. a - b <= w + (IF m <= u THEN 1 ELSE 0) - (IF l <= u THEN 1 ELSE 0)
        BY <1>2, <1>8, <3>2 DEF Balanced, Dealt
      <4> HIDE DEF x
      <4>3. /\ w \in Nat /\ u \in Masters
            /\ \/ ww = w /\ t = IF u + 1 < MasterCount THEN u + 1 ELSE 0
               \/ ww = w + 1
        BY <1>2, <4>1, TurnNext
      <4> HIDE DEF a, b, t, u, w, ww
      <4>4. (IF m = t THEN a + 1 ELSE a) - (IF l = t THEN b + 1 ELSE b)
              <= ww + (IF m <= t THEN 1 ELSE 0) - (IF l <= t THEN 1 ELSE 0)
        BY <1>2, <2>1, <2>2, <4>2, <4>3, DealOne
      <4>5. a - b <= ww + 1
        BY <2>2, <4>2, <4>3
      <4> QED
        BY <2>2, <4>4, <4>5
    <3> QED
      BY <1>2, <3>1, <3>2
  <2>5. CASE s < 0
    <3>1. Panicked' /\ starts' = starts
      BY <1>1, <1>2, <2>5
    <3> QED
      BY <2>4, <3>1
  <2>6. CASE s = t
    <3>1. /\ starts'[m] = IF m = t THEN a + 1 ELSE a
          /\ starts'[l] = IF l = t THEN b + 1 ELSE b
      BY <1>1, <1>2, <2>1, <2>6
    <3> HIDE DEF a, b, t, ww
    <3> QED
      BY <2>2, <2>3, <2>4, <3>1 DEF ww
  <2> QED
    BY <2>1, <2>5, <2>6
<1> QED
  BY <1>2, <1>3, <1>4, <1>5, <1>7, <1>8 DEF Balanced

\* No step but the start of a call counts one, and none undoes a panic.
LEMMA BalancedElsewhere ==
  ASSUME IndInv, Balanced, UNCHANGED <<config, counter, calls, starts>>,
         Panicked => Panicked'
  PROVE  Balanced'
<1>1. /\ Overflowed(calls - 1)' = Overflowed(calls - 1)
      /\ \A m \in Masters : Dealt(m)' = Dealt(m)
  BY DEF Overflowed, Dealt, Turn, AsInt
<1>2. \A m \in Masters : Dealt(m) \in {0, 1}
  BY DEF Dealt
<1>3. calls > 0 => Overflowed(calls - 1) \in Nat
  <2> SUFFICES ASSUME calls > 0 PROVE Overflowed(calls - 1) \in Nat
    OBVIOUS
  <2>1. config \in Configs /\ calls - 1 \in Nat
    BY MaxCallsAssumption DEF IndInv, Types
  <2> QED
    BY <2>1, AsIntCounts
<1>4. ASSUME config.strategy = "RoundRobin", calls > 0, NEW m \in Masters, NEW l \in Masters
      PROVE  starts[m] - starts[l] <=
               IF Panicked' THEN Overflowed(calls - 1) + 1
               ELSE Overflowed(calls - 1) + Dealt(m) - Dealt(l)
  <2> DEFINE w == Overflowed(calls - 1)
  <2>1. starts[m] - starts[l] <=
          IF Panicked THEN w + 1 ELSE w + Dealt(m) - Dealt(l)
    BY <1>4 DEF Balanced
  <2>2. starts[m] \in Nat /\ starts[l] \in Nat /\ w \in Nat
    BY <1>3, <1>4 DEF Balanced
  <2> HIDE DEF w
  <2> QED
    BY <1>2, <2>1, <2>2 DEF w
<1> QED
  BY <1>1, <1>4 DEF Balanced

LEMMA BalancedStep == IndInv /\ Balanced /\ [Next]_vars => Balanced'
<1> SUFFICES ASSUME IndInv, Balanced, [Next]_vars PROVE Balanced'
  OBVIOUS
<1>1. CASE UNCHANGED vars
  BY <1>1, BalancedElsewhere DEF vars, Panicked
<1>2. CASE \E c \in Callers, op \in Ops : Begin(c, op)
  BY <1>2, BalancedBegin
<1>3. ASSUME NEW c \in Callers, Attempt(c) \/ Wake(c) \/ Cancel(c) PROVE Balanced'
  <2>1. /\ Busy(c) /\ UNCHANGED <<config, counter, calls, starts>>
        /\ \A d \in Callers \ {c} : call'[d] = call[d]
    BY <1>3 DEF Attempt, Settle, Wake, Cancel, Busy, IndInv, Types
  <2>2. call[c].result = "none"
    BY <2>1 DEF IndInv, CallerInv, Swept
  <2>3. Panicked => Panicked'
    BY <2>1, <2>2 DEF Panicked
  <2> QED
    BY <2>1, <2>3, BalancedElsewhere
<1> QED
  BY <1>1, <1>2, <1>3 DEF Next

\* The calls of all callers together are dealt round the list: two masters'
\* shares differ by one at most, and by one more for each time the counter, as
\* an int, became negative. Passing from -1 to 0 skips no master.
THEOREM RoundRobin == Spec => []RoundRobinIsBalanced
<1>1. Spec => []Balanced
  BY Invariance, BalancedInit, BalancedStep, PTL DEF Spec
<1>2. IndInv /\ Balanced => RoundRobinIsBalanced
  <2> SUFFICES ASSUME IndInv, Balanced, config.strategy = "RoundRobin",
                      NEW m \in Masters, NEW l \in Masters
               PROVE  Abs(starts[m] - starts[l]) <=
                        1 + (calls + config.intMod \div 2 - 1) \div config.intMod
    BY DEF RoundRobinIsBalanced
  <2> DEFINE n == config.intMod
             h == n \div 2
             w == (calls + h - 1) \div n
  <2>1. /\ config \in Configs /\ calls \in Nat /\ n \in Nat \ {0} /\ h \in Nat
        /\ starts[m] \in Nat /\ starts[l] \in Nat
    BY MaxCallsAssumption, ConfigFields DEF IndInv, Types, Balanced
  <2>2. CASE calls = 0
    <3>1. starts[m] = 0 /\ starts[l] = 0
      BY <2>2 DEF Balanced
    <3>2. w \in Int /\ w >= -1
      <4>1. calls + h - 1 >= -1 /\ calls + h - 1 \in Int
        BY <2>1
      <4> HIDE DEF h, n
      <4> QED
        BY <2>1, <4>1
    <3> QED
      BY <3>1, <3>2 DEF Abs
  <2>3. CASE calls > 0
    <3>1. calls - 1 \in Nat /\ (calls - 1) + h = calls + h - 1
      BY <2>1, <2>3
    <3>2. Overflowed(calls - 1) = w /\ w \in Nat
      BY <2>1, <3>1, AsIntCounts DEF Overflowed
    <3>3. Dealt(m) \in {0, 1} /\ Dealt(l) \in {0, 1}
      BY DEF Dealt
    <3>4. starts[m] - starts[l] <= w + 1 /\ starts[l] - starts[m] <= w + 1
      <4>1. /\ starts[m] - starts[l] <=
                 IF Panicked THEN w + 1 ELSE w + Dealt(m) - Dealt(l)
            /\ starts[l] - starts[m] <=
                 IF Panicked THEN w + 1 ELSE w + Dealt(l) - Dealt(m)
        BY <2>3, <3>2 DEF Balanced
      <4> HIDE DEF w
      <4> QED
        BY <2>1, <3>2, <3>3, <4>1
    <3> HIDE DEF w
    <3>5. Abs(starts[m] - starts[l]) <= 1 + w
      BY <2>1, <3>2, <3>4 DEF Abs
    <3> QED
      BY <3>5 DEF w
  <2> QED
    BY <2>1, <2>2, <2>3
<1> QED
  BY Invariance, <1>1, <1>2, PTL
=============================================================================
