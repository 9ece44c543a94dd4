---------------------------- MODULE NativeMaster ----------------------------
(***************************************************************************)
(* The master clients of the native Go client (clients/go/master.go) and of *)
(* the native Java client (clients/java/.../MasterClient.java). They sweep  *)
(* the masters as the Rust core does (HaMaster), and differ from it in that *)
(*   - they back off after each round;                                      *)
(*   - a master that reports a volume absent does not end the sweep, and    *)
(*     the call ends in AllMastersUnavailable around the last error;        *)
(*   - Go turns its 64-bit counter into an int of the platform's width and  *)
(*     honours a context that is cancelled;                                 *)
(*   - Java lets an exception that is no WeedException leave the loop;      *)
(*   - Go bounds a request as a whole, as the core does, Java each read of  *)
(*     its reply only.                                                      *)
(***************************************************************************)
EXTENDS Integers

CONSTANTS Callers,      \* goroutines or threads sharing the client
          MasterCount,  \* number of base URLs
          Configs,      \* the configurations of interest
          MaxCalls      \* bound of the model: calls made in a behaviour

Masters == 0 .. MasterCount - 1
Ops == {"assign", "lookup"}

\* MasterSelectionStrategy.
Strategies == {"RoundRobin", "Failover", "Random"}

\* How a call ends: with a reply, with AllMastersUnavailable around the last
\* error, by a panic (Go), or by an exception of another kind (Java).
Results == {"none", "Ok", "AllMastersUnavailable", "panic", "escaped"}

\* A built client on one platform, and what its masters are like.
Configurations ==
  [lang : {"go", "java"},
   maxRetries : Int,          \* may be zero or negative
   strategy : Strategies,
   backoff : BOOLEAN,         \* whether the backoff is positive
   counterMod : Nat \ {0},    \* 2^64: the counter wraps there
   intMod : Nat \ {0},        \* 2^(bits of int) in Go, 2^64 in Java
   malformed : BOOLEAN,       \* a master may list a location that is no object
   dribbling : BOOLEAN,       \* a master may send a reply that never ends
   healthy : SUBSET Masters]  \* masters assumed up and answering usefully

ASSUME MasterCountAssumption == MasterCount \in Nat \ {0}
ASSUME ConfigsAssumption ==
  /\ Configs \subseteq Configurations
  /\ \A g \in Configs : g.counterMod % g.intMod = 0   \* both powers of two
ASSUME MaxCallsAssumption == MaxCalls \in Nat

VARIABLES
  config,    \* the configuration of this client; fixed
  counter,   \* the shared round-robin counter
  call,      \* the frame of each caller's latest call
  \* History:
  calls,     \* calls made so far
  starts,    \* how many calls began at each master
  failures   \* failed attempts of the latest call at each master

vars == <<config, counter, call, calls, starts, failures>>

\* Mistake: the configured retries taken as they are.
RoundsUnclamped == config.maxRetries

\* rounds() and Math.max(1, maxRetries)
Rounds == IF config.maxRetries < 1 THEN 1 ELSE config.maxRetries

\* phase: "idle", "waiting" (for a master), "sleeping" (backing off), "done".
\* result: "Ok", "AllMastersUnavailable", "panic" (Go), "escaped" (Java).
NewFrame(phase, op, start) ==
  [phase |-> phase, op |-> op, start |-> start, round |-> 0, offset |-> 0,
   cancelled |-> FALSE, result |-> "none"]

-----------------------------------------------------------------------------
(* Where a call starts.                                                     *)

\* Conversion to a signed int of config.intMod values.
AsInt(x) ==
  LET low == x % config.intMod
  IN  IF 2 * low >= config.intMod THEN low - config.intMod ELSE low

\* Mistake: the plain % of the language where the index must not be negative.
RemainderTruncated(x, n) == IF x < 0 THEN -((-x) % n) ELSE x % n

\* Go's %, which takes the sign of the dividend; Math.floorMod in Java.
Remainder(x, n) ==
  IF config.lang = "go" /\ x < 0 THEN -((-x) % n) ELSE x % n

StartIndexes ==
  CASE config.strategy = "Failover" -> {0}
    [] config.strategy = "Random" -> Masters
    [] OTHER -> {Remainder(AsInt(counter), MasterCount)}

\* Mistake: a counter that is read but not advanced.
NextCounterStuck == counter

NextCounter ==
  IF config.strategy = "RoundRobin" THEN (counter + 1) % config.counterMod ELSE counter

\* baseURLs[(start+offset)%n]; in Go the index may be negative.
Index(k) == Remainder(k.start + k.offset, MasterCount)

-----------------------------------------------------------------------------
(* One attempt: assignOne and lookupOne.                                    *)

Replies(op) ==
  {"no_reply", "bad_status", "not_json", "error_field", "ok"}
    \cup (IF op = "assign" THEN {"bad_fid"} ELSE {})
    \cup (IF op = "lookup" /\ config.malformed THEN {"bad_location"} ELSE {})

\* A result, or the kind of error thrown or returned.
Outcome(op, reply) ==
  CASE reply = "ok" -> "Ok"
    [] reply = "bad_fid" -> "InvalidFileId"
    [] reply = "bad_location" /\ config.lang = "java" -> "IllegalArgument"
    [] op = "lookup" /\ reply = "error_field" -> "VolumeNotFound"
    [] op = "assign" /\ reply \notin {"ok", "bad_fid"} -> "AssignmentFailed"
    [] OTHER -> "DownloadFailed"

\* A cancelled context fails every request before it is sent.
RepliesFrom(k) ==
  IF k.cancelled THEN {"no_reply"}
  ELSE IF Index(k) \in config.healthy
  THEN {r \in Replies(k.op) : Outcome(k.op, r) \in {"Ok", "VolumeNotFound"}}
  ELSE Replies(k.op)

-----------------------------------------------------------------------------
(* The sweep: assign and lookup.                                            *)

Finish(k, result) == [k EXCEPT !.phase = "done", !.result = result]

\* The head of the round loop; a negative index panics.
Head(k) ==
  IF k.round >= Rounds THEN Finish(k, "AllMastersUnavailable")
  ELSE IF Index(k) < 0 THEN Finish(k, "panic")
  ELSE [k EXCEPT !.phase = "waiting"]

\* The end of a round: sleepBackoff, whether or not another round follows.
EndRound(k) ==
  IF config.backoff
  THEN [k EXCEPT !.phase = "sleeping", !.offset = 0, !.round = @ + 1]
  ELSE Head([k EXCEPT !.offset = 0, !.round = @ + 1])

\* Mistake: one attempt more than there are masters.
NextAttemptLong(k) ==
  IF k.offset < MasterCount
  THEN Head([k EXCEPT !.offset = @ + 1])
  ELSE EndRound(k)

\* Mistake: a round that ends one master early.
NextAttemptShort(k) ==
  IF k.offset + 2 < MasterCount
  THEN Head([k EXCEPT !.offset = @ + 1])
  ELSE EndRound(k)

\* After a failed attempt.
NextAttempt(k) ==
  IF k.offset + 1 < MasterCount
  THEN Head([k EXCEPT !.offset = @ + 1])
  ELSE EndRound(k)

Busy(c) == call[c].phase \in {"waiting", "sleeping"}

\* The process dies of a panic in any goroutine: no call follows it.
Panicked == \E c \in Callers : call[c].result = "panic"

Begin(c, op) ==
  /\ ~Busy(c) /\ ~Panicked
  /\ calls < MaxCalls
  /\ \E s \in StartIndexes :
       /\ call' = [call EXCEPT ![c] = Head(NewFrame("waiting", op, s))]
       /\ starts' = IF s \in Masters THEN [starts EXCEPT ![s] = @ + 1] ELSE starts
  /\ counter' = NextCounter
  /\ calls' = calls + 1
  /\ failures' = [failures EXCEPT ![c] = [m \in Masters |-> 0]]
  /\ UNCHANGED config

\* The attempt in flight ends: its result is returned, its error kept, or (Java)
\* its exception passes through the loop.
Settle(c, reply) ==
  LET k == call[c]
      outcome == Outcome(k.op, reply)
  IN  /\ call' = [call EXCEPT ![c] =
                    CASE outcome = "Ok" -> Finish(k, "Ok")
                      [] outcome = "IllegalArgument" -> Finish(k, "escaped")
                      [] OTHER -> NextAttempt(k)]
      /\ failures' = IF outcome = "Ok" THEN failures
                     ELSE [failures EXCEPT ![c][Index(k)] = @ + 1]
      /\ UNCHANGED <<config, counter, calls, starts>>

Attempt(c) ==
  /\ call[c].phase = "waiting"
  /\ \E reply \in RepliesFrom(call[c]) : Settle(c, reply)

\* Mistake: a backoff that waits for the context and forgot its timer.
WakeWithoutTimer(c) ==
  /\ call[c].phase = "sleeping" /\ call[c].cancelled
  /\ call' = [call EXCEPT ![c] = Head(@)]
  /\ UNCHANGED <<config, counter, calls, starts, failures>>

\* The timer fires, the context is done, or the thread is interrupted.
Wake(c) ==
  /\ call[c].phase = "sleeping"
  /\ call' = [call EXCEPT ![c] = Head(@)]
  /\ UNCHANGED <<config, counter, calls, starts, failures>>

\* Go only: the caller cancels its context. The loop itself does not look.
Cancel(c) ==
  /\ config.lang = "go"
  /\ Busy(c) /\ ~call[c].cancelled
  /\ call' = [call EXCEPT ![c].cancelled = TRUE]
  /\ UNCHANGED <<config, counter, calls, starts, failures>>

Init ==
  /\ config \in Configs
  /\ counter = 0
  /\ call = [c \in Callers |-> NewFrame("idle", "assign", 0)]
  /\ calls = 0
  /\ starts = [m \in Masters |-> 0]
  /\ failures = [c \in Callers |-> [m \in Masters |-> 0]]

Next ==
  \E c \in Callers :
    \/ \E op \in Ops : Begin(c, op)
    \/ Attempt(c) \/ Wake(c) \/ Cancel(c)

\* Go's http.Client has a timeout for the whole request (transport.go:26). Java
\* has one to connect and one for each read: a reply that trickles in, a byte
\* within each, keeps the attempt alive for as long as the master likes.
AttemptsEnd == config.lang = "go" \/ ~config.dribbling

\* Sleeps end by their timer, attempts where something ends them.
Fairness == \A c \in Callers : WF_vars(Wake(c) \/ (AttemptsEnd /\ Attempt(c)))

Spec == Init /\ [][Next]_vars /\ Fairness

-----------------------------------------------------------------------------
(* Properties                                                               *)

Abs(x) == IF x < 0 THEN -x ELSE x

TypeOK ==
  /\ counter \in 0 .. config.counterMod - 1
  /\ \A c \in Callers :
       /\ call[c].phase \in {"idle", "waiting", "sleeping", "done"}
       /\ call[c].op \in Ops
       /\ call[c].result \in Results
       /\ call[c].round \in 0 .. Rounds /\ call[c].offset \in Masters
       /\ call[c].phase = "waiting" => Index(call[c]) \in Masters
  /\ failures \in [Callers -> [Masters -> 0 .. Rounds]]

\* "Loops over every configured master on failure, ... always at least one full
\* pass" (MasterClient.java:12-13, master.go:54-57): a call without a result has
\* failed at every master once per round.
FailsOnlyAfterFullSweeps ==
  \A c \in Callers :
    (call[c].phase = "done" /\ call[c].result # "Ok") =>
      \A m \in Masters : failures[c][m] = Rounds

\* One healthy master is enough for an assignment that is not cancelled.
OneHealthyMasterAssigns ==
  config.healthy # {} =>
    \A c \in Callers :
      (call[c].phase = "done" /\ call[c].op = "assign" /\ ~call[c].cancelled)
        => call[c].result = "Ok"

\* "RoundRobin distributes requests across masters in rotation" (options.go:9):
\* two masters' shares differ by one, and by one more for each time the signed
\* counter overflowed. Passing from -1 to 0 skips nothing.
RoundRobinIsBalanced ==
  config.strategy = "RoundRobin" =>
    \A m, n \in Masters :
      Abs(starts[m] - starts[n]) <=
        1 + (calls + config.intMod \div 2 - 1) \div config.intMod

\* A call never dies on the index of a master (master.go:82 and 93, 111): the
\* client cross-compiles for any GOARCH, those with a 32-bit int included.
NeverPanics == ~Panicked

\* Every call returns: of a Go client whatever the masters do, of a Java client if
\* each of them finishes its replies or falls silent.
EveryCallReturns == \A c \in Callers : Busy(c) ~> call[c].phase = "done"

\* A call that sleeps after its last round has failed already.
AbsStatus(c) ==
  LET k == call[c] IN
  CASE k.phase = "idle" -> "idle"
    [] k.result = "Ok" -> "ok"
    [] k.phase = "done" /\ k.result # "Ok" -> "failed"
    [] k.phase = "sleeping" /\ k.round = Rounds -> "failed"
    [] OTHER -> "calling"

Promise ==
  INSTANCE MasterCall WITH
    allowance <- Rounds,
    status <- [c \in Callers |-> AbsStatus(c)],
    budget <- [c \in Callers |-> [m \in Masters |-> Rounds - failures[c][m]]]

\* The native clients keep the promise of the abstract call too, Java's that a
\* call ends under the same condition.
KeepsPromise == Promise!Spec
=============================================================================
