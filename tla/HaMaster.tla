------------------------------ MODULE HaMaster ------------------------------
(***************************************************************************)
(* The highly available master client of the Rust core                     *)
(* (src/src/infrastructure/ha.rs) over the HTTP master client it drives     *)
(* (src/src/infrastructure/http/master.rs).                                 *)
(*                                                                         *)
(* One HaMasterClient is shared by several callers; all they share is the   *)
(* round-robin counter. A call sweeps the masters, from an index its        *)
(* strategy picks, once per round, until one gives a final answer or the    *)
(* rounds are over. What a master does with a request is not the client's:  *)
(* any reply, or none before the request timeout, may come back.            *)
(***************************************************************************)
EXTENDS Integers

CONSTANTS Callers,      \* tasks and threads sharing the client
          MasterCount,  \* clients.len()
          MaxRetries,   \* max_retries, as configured (0 is accepted)
          Strategy,     \* MasterSelectionStrategy
          CounterMod,   \* 2^(bits of usize): fetch_add wraps there
          Healthy,      \* masters assumed up and answering usefully
          MaxCalls      \* bound of the model: calls made in a behaviour

Masters == 0 .. MasterCount - 1
Ops == {"assign", "lookup"}
Strategies == {"RoundRobin", "Failover", "Random"}

\* HaMasterClientBuilder::build and HaMasterConfig::new refuse an empty list.
ASSUME MasterCountAssumption == MasterCount \in Nat \ {0}
ASSUME MaxRetriesAssumption == MaxRetries \in Nat
ASSUME CounterModAssumption == CounterMod \in Nat \ {0}
ASSUME StrategyAssumption == Strategy \in Strategies
ASSUME HealthyAssumption == Healthy \subseteq Masters
ASSUME MaxCallsAssumption == MaxCalls \in Nat

\* Mistake: the sweep bound of an earlier version of the code: no rounds without retries.
RoundsWithoutMax == MaxRetries

\* max_retries.max(1)
Rounds == IF MaxRetries > 1 THEN MaxRetries ELSE 1

VARIABLES
  current,   \* current_index, the shared AtomicUsize
  call,      \* the frame of each caller's latest call
  \* History; the code has none of it:
  calls,     \* calls made so far, bounded by MaxCalls
  starts,    \* how many calls began their sweep at each master
  failures,  \* failed attempts of the latest call at each master
  heard      \* outcomes the latest call was given

code == <<current, call>>
vars == <<current, call, calls, starts, failures, heard>>

-----------------------------------------------------------------------------
(* http/master.rs: what one attempt makes of what came back.                *)

\* What can come back: nothing before the timeout (or a connection error), a
\* status that is no success, a body that is not the expected JSON, a reply
\* with its error field set, an assign reply whose fid does not parse, and a
\* usable reply.
Replies(op) ==
  {"no_reply", "bad_status", "not_json", "error_field", "ok"}
    \cup (IF op = "assign" THEN {"bad_fid"} ELSE {})

\* assign_impl and lookup_impl: a result or a DomainError.
Outcome(op, reply) ==
  CASE reply = "ok" -> "Ok"
    [] op = "assign" /\ reply = "bad_fid" -> "InvalidFileId"
    [] op = "assign" /\ reply # "ok" /\ reply # "bad_fid" -> "AssignmentFailed"
    [] op = "lookup" /\ reply = "error_field" -> "VolumeNotFound"
    [] OTHER -> "LookupFailed"

Outcomes ==
  {"Ok", "InvalidFileId", "AssignmentFailed", "VolumeNotFound", "LookupFailed"}

\* A master in Healthy gives a usable reply or says that the volume is absent.
RepliesFrom(m, op) ==
  IF m \in Healthy
  THEN {r \in Replies(op) : Outcome(op, r) \in {"Ok", "VolumeNotFound"}}
  ELSE Replies(op)

-----------------------------------------------------------------------------
(* ha.rs                                                                    *)

\* The frame of a call; "AllMastersUnavailable" is last_error's first value.
Frame ==
  [phase : {"idle", "waiting", "done"}, op : Ops, start : Masters,
   round : 0 .. Rounds, offset : Masters,
   last : Outcomes \cup {"AllMastersUnavailable"}]

NewFrame(phase, op, start) ==
  [phase |-> phase, op |-> op, start |-> start, round |-> 0, offset |-> 0,
   last |-> "AllMastersUnavailable"]

\* Mistake: a sweep that ignores where it started.
IndexFromEnd(k) == (k.start + MasterCount - k.offset) % MasterCount

\* let index = (start_index + offset) % self.clients.len()
Index(k) == (k.start + k.offset) % MasterCount

\* next_master_index: the index a call may start at, and the counter after it.
StartIndexes ==
  CASE Strategy = "RoundRobin" -> {current % MasterCount}
    [] Strategy = "Failover" -> {0}
    [] Strategy = "Random" -> Masters

\* Mistake: the counter read modulo the list and written back, losing its carry.
NextCurrentStuck ==
  IF Strategy = "RoundRobin" /\ current % 2 = 0
  THEN (current + 1) % CounterMod ELSE current

NextCurrent ==
  IF Strategy = "RoundRobin" THEN (current + 1) % CounterMod ELSE current

\* Mistake: a failed sweep that reports the placeholder instead of last_error.
RoundHeadForgetsError(k) ==
  IF k.round < Rounds
  THEN k
  ELSE [k EXCEPT !.phase = "done", !.last = "AllMastersUnavailable"]

\* The head of the round loop: one more sweep, or return Err(last_error).
RoundHead(k) == IF k.round < Rounds THEN k ELSE [k EXCEPT !.phase = "done"]

\* Mistake: an offset one past the end of the list before the round ends.
NextAttemptTooLong(k) ==
  IF k.offset + 1 <= MasterCount
  THEN [k EXCEPT !.offset = @ + 1]
  ELSE RoundHead([k EXCEPT !.offset = 0, !.round = @ + 1])

\* Mistake: a round that ends one master early.
NextAttemptTooShort(k) ==
  IF k.offset + 2 < MasterCount
  THEN [k EXCEPT !.offset = @ + 1]
  ELSE RoundHead([k EXCEPT !.offset = 0, !.round = @ + 1])

\* Mistake: the loops swapped: all retries at one master before the next.
NextAttemptSameMaster(k) ==
  IF k.round + 1 < Rounds
  THEN [k EXCEPT !.round = @ + 1]
  ELSE IF k.offset + 1 < MasterCount
       THEN [k EXCEPT !.round = 0, !.offset = @ + 1]
       ELSE [k EXCEPT !.offset = 0, !.round = Rounds, !.phase = "done"]

\* After a failed attempt: the next offset, or the next round.
NextAttempt(k) ==
  IF k.offset + 1 < MasterCount
  THEN [k EXCEPT !.offset = @ + 1]
  ELSE RoundHead([k EXCEPT !.offset = 0, !.round = @ + 1])

\* Mistake: an absent volume treated as a broken master, as lookups once did.
TerminalOnlyOk(op, outcome) == outcome = "Ok"

\* The match arms that return: Ok, and for a lookup the volume's absence.
Terminal(op, outcome) ==
  outcome = "Ok" \/ (op = "lookup" /\ outcome = "VolumeNotFound")

Init ==
  /\ current = 0
  /\ call = [c \in Callers |-> NewFrame("idle", "assign", 0)]
  /\ calls = 0
  /\ starts = [m \in Masters |-> 0]
  /\ failures = [c \in Callers |-> [m \in Masters |-> 0]]
  /\ heard = [c \in Callers |-> {}]

\* A caller enters assign or lookup and its first request goes out.
Begin(c, op) ==
  /\ call[c].phase # "waiting"
  /\ calls < MaxCalls
  /\ \E s \in StartIndexes :
       /\ call' = [call EXCEPT ![c] = RoundHead(NewFrame("waiting", op, s))]
       /\ starts' = [starts EXCEPT ![s] = @ + 1]
  /\ current' = NextCurrent
  /\ calls' = calls + 1
  /\ failures' = [failures EXCEPT ![c] = [m \in Masters |-> 0]]
  /\ heard' = [heard EXCEPT ![c] = {}]

\* The attempt in flight ends with a reply that ends the call.
Conclude(c, reply) ==
  LET outcome == Outcome(call[c].op, reply) IN
  /\ call[c].phase = "waiting"
  /\ Terminal(call[c].op, outcome)
  /\ call' = [call EXCEPT ![c].phase = "done", ![c].last = outcome]
  /\ heard' = [heard EXCEPT ![c] = @ \cup {outcome}]
  /\ UNCHANGED <<current, calls, starts, failures>>

\* Mistake: an error retried on the spot, outside the loops that count.
FailOverInPlace(c, reply) ==
  LET outcome == Outcome(call[c].op, reply) IN
  /\ call[c].phase = "waiting"
  /\ ~Terminal(call[c].op, outcome)
  /\ call' = [call EXCEPT ![c].last = outcome]
  /\ heard' = [heard EXCEPT ![c] = @ \cup {outcome}]
  /\ UNCHANGED <<current, calls, starts, failures>>

\* The attempt in flight fails: last_error is kept and the sweep goes on.
FailOver(c, reply) ==
  LET outcome == Outcome(call[c].op, reply) IN
  /\ call[c].phase = "waiting"
  /\ ~Terminal(call[c].op, outcome)
  /\ call' = [call EXCEPT ![c] = NextAttempt([@ EXCEPT !.last = outcome])]
  /\ failures' = [failures EXCEPT ![c][Index(call[c])] = @ + 1]
  /\ heard' = [heard EXCEPT ![c] = @ \cup {outcome}]
  /\ UNCHANGED <<current, calls, starts>>

\* Something comes back, or the request timeout fires.
Settle(c) ==
  \E reply \in RepliesFrom(Index(call[c]), call[c].op) :
    Conclude(c, reply) \/ FailOver(c, reply)

Next == \E c \in Callers : (\E op \in Ops : Begin(c, op)) \/ Settle(c)

\* Every request ends, if only by the HTTP client's request timeout, and the
\* runtime polls a task it woke. Nothing makes a caller start another call.
Fairness == \A c \in Callers : WF_vars(Settle(c))

Spec == Init /\ [][Next]_vars /\ Fairness

-----------------------------------------------------------------------------
(* Properties                                                               *)

Abs(x) == IF x < 0 THEN -x ELSE x

Waiting(c) == call[c].phase = "waiting"

\* The latest call of c is over and did not end with a final answer.
GaveUp(c) ==
  call[c].phase = "done" /\ ~Terminal(call[c].op, call[c].last)

\* Every variable has its type; a frame's offset and start are always indexes
\* of the client list, so the slice access clients[index] cannot panic.
TypeOK ==
  /\ current \in 0 .. CounterMod - 1
  /\ call \in [Callers -> Frame]
  /\ calls \in 0 .. MaxCalls
  /\ starts \in [Masters -> Nat]
  /\ failures \in [Callers -> [Masters -> 0 .. Rounds]]
  /\ heard \in [Callers -> SUBSET Outcomes]

\* A call that fails has tried every master, and each one exactly as often as
\* there are rounds: max_retries of them, and one even when max_retries is 0
\* (the test max_retries_zero_still_attempts_once). While it runs it is within
\* that bound at each master.
FailsOnlyAfterFullSweeps ==
  \A c \in Callers :
    GaveUp(c) => \A m \in Masters : failures[c][m] = Rounds

\* The error a caller sees is one some master's answer (or silence) gave this
\* very call: never the placeholder AllMastersUnavailable, never the error of an
\* earlier call; and a final answer is returned as it was heard.
ErrorIsEvidence ==
  \A c \in Callers : call[c].phase = "done" => call[c].last \in heard[c]

\* A call still running has heard no final answer: an assignment is not asked
\* for twice once one was received, and a volume one master reports absent is
\* not looked up again at the others (comment at ha.rs:142-146).
FinalAnswerEndsTheSweep ==
  \A c \in Callers :
    Waiting(c) =>
      /\ "Ok" \notin heard[c]
      /\ call[c].op = "lookup" => "VolumeNotFound" \notin heard[c]

\* No master is asked twice before the others were asked once: within a call
\* the failed attempts of any two masters differ by at most one.
SweepsAreEven ==
  \A c \in Callers : \A m, n \in Masters :
    Abs(failures[c][m] - failures[c][n]) <= 1

\* Failover: "Always try the first master, only fail over on errors". A master
\* is only ever asked after every master listed before it failed this round.
FailoverKeepsListOrder ==
  Strategy = "Failover" =>
    \A c \in Callers :
      Waiting(c) => \A m \in Masters :
        failures[c][m] =
          call[c].round + (IF m < Index(call[c]) THEN 1 ELSE 0)

\* One healthy master is enough: whatever the others do, whatever the strategy
\* and however few retries are configured, no call fails.
OneHealthyMasterIsEnough ==
  Healthy # {} => \A c \in Callers : ~GaveUp(c)

\* Round robin deals the calls of all callers out evenly, however they
\* interleave: two masters' shares differ by one, and by one more for each time
\* the counter wrapped.
RoundRobinIsBalanced ==
  Strategy = "RoundRobin" =>
    \A m, n \in Masters :
      Abs(starts[m] - starts[n]) <= 1 + calls \div CounterMod

\* Every call returns: the rounds are finite and every request ends.
EveryCallReturns ==
  \A c \in Callers : Waiting(c) ~> call[c].phase = "done"

-----------------------------------------------------------------------------
(* The client keeps the promise of MasterCall.                              *)

AbsStatus(c) ==
  CASE call[c].phase = "idle" -> "idle"
    [] call[c].phase = "waiting" -> "calling"
    [] call[c].phase = "done" /\ call[c].last = "Ok" -> "ok"
    [] call[c].phase = "done" /\ call[c].last = "VolumeNotFound" -> "not_found"
    [] OTHER -> "failed"

Promise ==
  INSTANCE MasterCall WITH
    allowance <- Rounds,
    status <- [c \in Callers |-> AbsStatus(c)],
    budget <- [c \in Callers |-> [m \in Masters |-> Rounds - failures[c][m]]]

\* The client implements the abstract call, its fairness included.
KeepsPromise == Promise!Spec
=============================================================================
