-------------------------- MODULE ReplyBodyProofs ---------------------------
(***************************************************************************)
(* What ReplyBody promises, for every cap, body and advertised length.      *)
(***************************************************************************)
EXTENDS ReplyBody, TLAPS

\* The variables that a request keeps have their types.
Typed ==
  /\ lang \in {"rust", "go", "java"}
  /\ limit \in Int /\ limit >= None /\ limit <= MaxInt
  /\ body \in Nat /\ body <= MaxBody
  /\ held \in 0 .. body

\* The cap as the clients apply it, at every moment.
Bounded ==
  Capped => held <= IF lang = "go" THEN limit + 1 ELSE limit

Inv == Typed /\ Bounded

LEMMA InitInv == Init => Inv
<1> SUFFICES ASSUME Init PROVE Inv
  OBVIOUS
<1> USE LangsAssumption, SizesAssumption, LimitsAssumption DEF Init, None
<1>1. Typed
  BY DEF Typed
<1>2. Bounded
  BY <1>1 DEF Bounded, Capped, Typed
<1> QED
  BY <1>1, <1>2 DEF Inv

\* Only Chunk adds to the buffer.
LEMMA ChunkInv ==
  ASSUME Inv, NEW n \in 1 .. MaxBody, Chunk(n)
  PROVE  Inv'
<1> USE SizesAssumption DEF message
<1>1. n \in Nat
  BY DEF Inv, Typed
<1>2. UNCHANGED <<lang, limit, body>>
  BY DEF Chunk
<1>3. Typed'
  <2>1. CASE held' = held
    BY <1>2, <2>1 DEF Inv, Typed
  <2>2. CASE held' = held + n
    BY <1>1, <1>2, <2>2 DEF Inv, Typed, Chunk
  <2> QED
    BY <2>1, <2>2 DEF Chunk
<1>4. Bounded'
  <2>1. CASE held' = held
    BY <1>2, <2>1 DEF Inv, Bounded, Capped
  <2>2. CASE ~OverLimit(n) /\ held' = held + n /\ lang = "go"
    <3> SUFFICES ASSUME Capped PROVE held + n <= limit + 1
      BY <1>2, <2>2 DEF Bounded, Capped
    <3>1. held + n <= Wrap(limit + 1)
      BY <2>2 DEF Chunk, Readable
    <3>2. Wrap(limit + 1) <= limit + 1
      BY DEF Wrap, Inv, Typed
    <3> QED
      BY <1>1, <3>1, <3>2 DEF Inv, Typed, Wrap
  <2>3. CASE ~OverLimit(n) /\ held' = held + n /\ lang # "go"
    <3> SUFFICES ASSUME Capped PROVE held + n <= limit
      BY <1>2, <2>3 DEF Bounded, Capped
    <3> QED
      BY <1>1, <2>3 DEF OverLimit, Inv, Typed
  <2> QED
    BY <2>1, <2>2, <2>3 DEF Chunk
<1> QED
  BY <1>3, <1>4 DEF Inv

LEMMA StepInv == Inv /\ [Next]_vars => Inv'
<1> SUFFICES ASSUME Inv, [Next]_vars PROVE Inv'
  OBVIOUS
<1> USE DEF message
<1>1. CASE UNCHANGED <<lang, limit, body, held>>
  BY <1>1 DEF Inv, Typed, Bounded, Capped
<1>2. CASE Reply
  BY <1>1, <1>2 DEF Reply
<1>3. ASSUME NEW n \in 1 .. MaxBody, Chunk(n) PROVE Inv'
  BY <1>3, ChunkInv
<1>4. CASE End
  BY <1>1, <1>4 DEF End
<1>5. CASE Break
  BY <1>1, <1>5 DEF Break
<1>6. CASE UNCHANGED vars
  BY <1>1, <1>6 DEF vars
<1> QED
  BY <1>2, <1>3, <1>4, <1>5, <1>6 DEF Next

\* The buffer stays within the cap (volume.rs:130-134 and 155-164, volume.go:106,
\* HttpUrlConnectionTransport.java:87), whatever the server advertises and sends.
THEOREM CapHolds == Spec => []BufferStaysWithinCap
<1>1. Inv => BufferStaysWithinCap
  BY DEF Inv, Typed, Bounded, Capped, BufferStaysWithinCap, CapWanted, None
<1> QED
  BY <1>1, InitInv, StepInv, PTL DEF Spec

\* The Go clients are not configured with the largest integer.
NoOverflow == lang = "go" => limit # MaxInt

\* A request has a result when it is done, not before.
Phased == phase = "done" <=> result # "none"

LEMMA StepPhased == Phased /\ [Next]_vars => Phased'
<1> SUFFICES ASSUME Phased, [Next]_vars PROVE Phased'
  OBVIOUS
<1> USE DEF Phased, Finish
<1>1. CASE Reply
  BY <1>1 DEF Reply, ByStatus
<1>2. ASSUME NEW n \in 1 .. MaxBody, Chunk(n) PROVE Phased'
  BY <1>2 DEF Chunk
<1>3. CASE End
  BY <1>3 DEF End, AtEnd, ByStatus
<1>4. CASE Break
  BY <1>4 DEF Break
<1>5. CASE UNCHANGED vars
  BY <1>5 DEF vars
<1> QED
  BY <1>1, <1>2, <1>3, <1>4, <1>5 DEF Next

\* A finished download has everything, unless nobody noticed that it broke off.
Whole == Inv /\ Phased /\ (NoOverflow => CutBodyIsNoSuccess)

LEMMA StepWhole == Whole /\ [Next]_vars => Whole'
<1> SUFFICES ASSUME Whole, [Next]_vars PROVE Whole'
  OBVIOUS
<1> USE DEF message
<1>1. Inv' /\ Phased'
  BY StepInv, StepPhased DEF Whole
<1> SUFFICES ASSUME NoOverflow', Downloaded', ~EndsUnnoticed' PROVE held' = body'
  BY <1>1 DEF Whole, CutBodyIsNoSuccess, EndsUnnoticed
<1>2. UNCHANGED <<lang, kind, limit, status, body, advertised>>
  BY DEF Next, Reply, Chunk, End, Break, vars
<1>3. NoOverflow /\ ~EndsUnnoticed
  BY <1>2 DEF NoOverflow, EndsUnnoticed
<1>4. CASE UNCHANGED <<held, result>>
  BY <1>2, <1>3, <1>4 DEF Whole, Downloaded, CutBodyIsNoSuccess, EndsUnnoticed
<1>5. CASE Reply
  <2>1. CASE ReadsBody
    BY <1>4, <1>5, <2>1 DEF Reply, Finish, Downloaded
  <2>2. CASE ~ReadsBody
    BY <1>2, <1>5, <2>2 DEF Reply, Finish, Downloaded, ByStatus, ReadsBody
  <2> QED
    BY <2>1, <2>2
<1>6. ASSUME NEW n \in 1 .. MaxBody, Chunk(n) PROVE held' = body'
  <2>1. phase = "reading" /\ (result' = "TooLarge" \/ result' = result)
    BY <1>6 DEF Chunk, Finish
  <2>2. result' \in {"none", "TooLarge"}
    BY <2>1 DEF Whole, Phased
  <2> QED
    BY <2>2 DEF Downloaded
<1>7. CASE End
  <2>1. CASE Complete
    BY <1>2, <1>7, <2>1 DEF End, Complete
  <2>2. CASE held >= Readable
    BY <1>2, <1>3, <1>7, <2>2, SizesAssumption
       DEF End, AtEnd, Finish, Downloaded, ByStatus, Readable, Wrap, Capped,
           NoOverflow, Whole, Inv, Typed, None
  <2> QED
    BY <1>3, <1>7, <2>1, <2>2 DEF End
<1>8. CASE Break
  BY <1>8 DEF Break, Finish, Downloaded
<1>9. CASE UNCHANGED vars
  BY <1>4, <1>9 DEF vars
<1> QED
  BY <1>5, <1>6, <1>7, <1>8, <1>9 DEF Next

\* A download that succeeds has the whole body, if no Go client is configured with
\* the largest int64 (volume.go:106) and the others with any cap, except in Java
\* under an advertised length, where a body that breaks off passes for whole.
THEOREM WholeBody ==
  ASSUME "go" \notin Langs \/ MaxInt \notin Limits
  PROVE  Spec => []CutBodyIsNoSuccess
<1>1. Init => Whole /\ NoOverflow
  BY InitInv DEF Init, Whole, Phased, NoOverflow, CutBodyIsNoSuccess, Downloaded
<1>2. Whole /\ [Next]_vars => Whole'
  BY StepWhole
<1>3. NoOverflow /\ [Next]_vars => NoOverflow'
  BY DEF NoOverflow, Next, Reply, Chunk, End, Break, vars, message
<1>4. Whole /\ NoOverflow => CutBodyIsNoSuccess
  BY DEF Whole
<1> QED
  BY <1>1, <1>2, <1>3, <1>4, PTL DEF Spec

-----------------------------------------------------------------------------
(* Types and refusals.                                                      *)

ResultTyped == phase \in {"sent", "reading", "done"} /\ result \in Results

LEMMA StepTyped == ResultTyped /\ [Next]_vars => ResultTyped'
<1> SUFFICES ASSUME ResultTyped, [Next]_vars PROVE ResultTyped'
  OBVIOUS
<1> USE DEF ResultTyped, Finish, Results, Failures
<1>1. CASE Reply
  BY <1>1 DEF Reply, ByStatus
<1>2. ASSUME NEW n \in 1 .. MaxBody, Chunk(n) PROVE ResultTyped'
  BY <1>2 DEF Chunk
<1>3. CASE End
  BY <1>3 DEF End, AtEnd, ByStatus
<1>4. CASE Break
  BY <1>4 DEF Break
<1>5. CASE UNCHANGED vars
  BY <1>5 DEF vars
<1> QED
  BY <1>1, <1>2, <1>3, <1>4, <1>5 DEF Next

\* The buffer never holds more than the body has, however it is cut up, and a
\* request has a result exactly when it is done.
THEOREM TypeCorrect == Spec => []TypeOK
<1>1. Init => Inv /\ Phased /\ ResultTyped
  BY InitInv DEF Init, Phased, ResultTyped, Results
<1>2. Inv /\ Phased /\ ResultTyped => TypeOK
  BY DEF Inv, Typed, Phased, ResultTyped, TypeOK
<1> QED
  BY <1>1, <1>2, StepInv, StepPhased, StepTyped, PTL DEF Spec

\* A cap that a client applies is one the application asked for.
LEMMA CappedIsWanted == Inv /\ Capped => CapWanted
  BY DEF Inv, Typed, Capped, CapWanted, None

LEMMA StepFitting ==
  Inv /\ FittingBodyIsNotRefused /\ [Next]_vars => FittingBodyIsNotRefused'
<1> SUFFICES ASSUME Inv, FittingBodyIsNotRefused, [Next]_vars,
                    result' = "TooLarge", kind' = "download", status' = "ok"
             PROVE  CapWanted' /\ (body' > limit' \/ advertised' > limit')
  BY DEF FittingBodyIsNotRefused
<1>1. UNCHANGED message
  BY DEF Next, Reply, Chunk, End, Break, vars
<1>2. UNCHANGED <<lang, kind, limit, status, body, advertised>>
  BY <1>1 DEF message
<1>3. SUFFICES CapWanted /\ (body > limit \/ advertised > limit)
  BY <1>2 DEF CapWanted
<1>4. CASE result' = result
  BY <1>2, <1>4 DEF FittingBodyIsNotRefused
<1>5. CASE Reply
  <2>1. CASE result' # result
    <3>1. Capped /\ advertised > limit
      BY <1>2, <1>5, <2>1 DEF Reply, Finish, ByStatus
    <3> QED
      BY <3>1, CappedIsWanted
  <2> QED
    BY <1>4, <2>1
<1>6. ASSUME NEW n \in 1 .. MaxBody, Chunk(n)
      PROVE  CapWanted /\ (body > limit \/ advertised > limit)
  <2>1. CASE OverLimit(n)
    <3>1. Capped /\ held + n > limit /\ held + n <= body
      BY <1>6, <2>1 DEF Chunk, OverLimit
    <3>2. n \in Nat /\ held \in Nat /\ body \in Nat /\ limit \in Int
      BY <1>6, SizesAssumption DEF Inv, Typed
    <3> QED
      BY <3>1, <3>2, CappedIsWanted
  <2>2. CASE ~OverLimit(n)
    BY <1>4, <1>6, <2>2 DEF Chunk
  <2> QED
    BY <2>1, <2>2
<1>7. CASE End
  <2>1. Capped /\ held > limit
    BY <1>2, <1>7 DEF End, AtEnd, Finish, ByStatus
  <2>2. held <= body /\ held \in Nat /\ body \in Nat /\ limit \in Int
    BY DEF Inv, Typed
  <2> QED
    BY <2>1, <2>2, CappedIsWanted
<1>8. CASE Break
  BY <1>8 DEF Break, Finish
<1>9. CASE UNCHANGED vars
  BY <1>4, <1>9 DEF vars
<1> QED
  BY <1>5, <1>6, <1>7, <1>8, <1>9 DEF Next

\* A download is refused for its size only under a cap that was asked for, and
\* by a body, or a false length, beyond it: never at the cap exactly.
THEOREM FittingPasses == Spec => []FittingBodyIsNotRefused
<1>1. Init => Inv /\ FittingBodyIsNotRefused
  BY InitInv DEF Init, FittingBodyIsNotRefused
<1> QED
  BY <1>1, StepInv, StepFitting, PTL DEF Spec
=============================================================================
