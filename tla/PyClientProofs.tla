--------------------------- MODULE PyClientProofs ---------------------------
(***************************************************************************)
(* Proofs about PyClient, for any number of threads, master URLs and calls. *)
(***************************************************************************)
EXTENDS PyClient, TLAPS

Stages == {"python", "blocked", "returning"}

Records ==
  [stage : Stages, target : Targets, result : {"none", "Ok", "RuntimeError"}]

\* The lock is with a thread that runs Python code, with the server, or free: no
\* thread waits with it in its hand. A client has masters. A call to the local
\* server that has its result has a good one.
IndInv ==
  /\ lock \in Threads \cup {Server, Free}
  /\ client.masters \in Nat /\ (client = NoClient \/ client.masters > 0)
  /\ thread \in [Threads -> Records]
  /\ serving \subseteq Threads
  /\ \A t \in serving : thread[t].stage = "blocked" /\ thread[t].target = "local"
  /\ \A t \in Threads : lock = t => thread[t].stage = "python"
  /\ LocalCallsSucceed

-----------------------------------------------------------------------------
(* The invariant is inductive.                                              *)

LEMMA NoClientFields == NoClient.masters = 0
  BY DEF NoClient

LEMMA InitInv == Init => IndInv
<1> SUFFICES ASSUME Init PROVE IndInv
  OBVIOUS
<1>1. Idle \in Records /\ Idle.stage = "python"
  BY DEF Idle, Records, Stages, Targets
<1>2. \A t \in Threads : thread[t] = Idle
  BY DEF Init
<1>3. thread \in [Threads -> Records]
  BY <1>1 DEF Init
<1>4. LocalCallsSucceed
  BY <1>1, <1>2 DEF LocalCallsSucceed
<1> QED
  BY <1>1, <1>2, <1>3, <1>4, NoClientFields DEF Init, IndInv

\* What a thread's record becomes keeps the other threads as they are.
LEMMA RecordsStay ==
  ASSUME IndInv, NEW t \in Threads, NEW e \in Records,
         thread' = [thread EXCEPT ![t] = e],
         (e.stage = "returning" /\ e.target = "local") => e.result = "Ok",
         UNCHANGED client \/ (client'.masters \in Nat /\ client'.masters > 0),
         lock' \in {lock, Free, t},
         lock' = t => e.stage = "python",
         serving' \subseteq serving,
         t \in serving' => e.stage = "blocked" /\ e.target = "local"
  PROVE  IndInv'
<1>1. /\ thread' \in [Threads -> Records] /\ thread'[t] = e
      /\ \A u \in Threads \ {t} : thread'[u] = thread[u]
  BY DEF IndInv
<1>2. lock' \in Threads \cup {Server, Free}
  BY DEF IndInv
<1>3. /\ client'.masters \in Nat /\ (client' = NoClient \/ client'.masters > 0)
  BY DEF IndInv
<1>4. /\ serving' \subseteq Threads
      /\ \A u \in serving' : thread'[u].stage = "blocked" /\ thread'[u].target = "local"
  BY <1>1 DEF IndInv
<1>5. \A u \in Threads : lock' = u => thread'[u].stage = "python"
  BY <1>1, FreeAssumption DEF IndInv
<1>6. LocalCallsSucceed'
  BY <1>1 DEF IndInv, LocalCallsSucceed
<1> QED
  BY <1>1, <1>2, <1>3, <1>4, <1>5, <1>6 DEF IndInv

\* A call that returned to Python.
LEMMA FinishFields ==
  ASSUME IndInv, NEW t \in Threads, NEW result \in {"none", "Ok", "RuntimeError"},
         Finish(t, result)
  PROVE  \E e \in Records : /\ thread' = [thread EXCEPT ![t] = e]
                            /\ e.stage = "python"
<1> DEFINE e == [thread[t] EXCEPT !.stage = "python", !.result = result]
<1>1. thread[t] \in Records /\ thread' = [thread EXCEPT ![t] = e]
  BY DEF Finish, IndInv
<1>2. e \in Records /\ e.stage = "python"
  BY <1>1 DEF Records, Stages
<1> QED
  BY <1>1, <1>2

\* A future that is ready.
LEMMA ReadyFields ==
  ASSUME IndInv, NEW t \in Threads, NEW result \in {"Ok", "RuntimeError"},
         Ready(t, result)
  PROVE  \E e \in Records : /\ thread' = [thread EXCEPT ![t] = e]
                            /\ e.stage = "returning" /\ e.result = result
                            /\ e.target = thread[t].target
<1> DEFINE e == [thread[t] EXCEPT !.stage = "returning", !.result = result]
<1>1. thread[t] \in Records /\ thread' = [thread EXCEPT ![t] = e]
  BY DEF Ready, IndInv
<1>2. /\ e \in Records /\ e.stage = "returning" /\ e.result = result
      /\ e.target = thread[t].target
  BY <1>1 DEF Records, Stages
<1> QED
  BY <1>1, <1>2

LEMMA InterpreterInv ==
  ASSUME IndInv, NEW p \in Threads \cup {Server},
         Take(p) \/ (p \in Threads /\ Yield(p))
  PROVE  IndInv'
<1>1. UNCHANGED <<client, thread, serving>>
  BY DEF Take, Yield
<1>2. /\ lock' \in Threads \cup {Server, Free}
      /\ \A t \in Threads : lock' = t => thread'[t].stage = "python"
  BY FreeAssumption, ServerAssumption DEF Take, Yield, Wants
<1> QED
  BY <1>1, <1>2 DEF IndInv, LocalCallsSucceed

LEMMA NewInv ==
  ASSUME IndInv, NEW t \in Threads, NEW strategy \in Names, NEW urls \in 0 .. MaxUrls,
         New(t, strategy, urls)
  PROVE  IndInv'
<1>1. UNCHANGED <<lock, serving>> /\ t \notin serving
  BY DEF New, IndInv
<1>2. UNCHANGED client \/ (client'.masters \in Nat /\ client'.masters > 0)
  <2>1. CASE ~Refused(strategy, urls) /\ client' = Built(strategy, urls)
    <3>1. client'.masters = urls /\ urls # 0
      BY <2>1 DEF Built, Refused
    <3> QED
      BY <3>1, BoundsAssumption
  <2> QED
    BY <2>1 DEF New
<1>3. PICK e \in Records : thread' = [thread EXCEPT ![t] = e] /\ e.stage = "python"
  BY FinishFields DEF New
<1> QED
  BY <1>1, <1>2, <1>3, RecordsStay

\* A client that exists has masters, so no call panics.
LEMMA CallInv ==
  ASSUME IndInv, NEW t \in Threads, NEW target \in Targets, Call(t, target)
  PROVE  IndInv'
<1>1. UNCHANGED <<client, serving>> /\ t \notin serving /\ client # NoClient
  BY DEF Call, IndInv
<1>2. ~Panics
  BY <1>1 DEF IndInv, Panics
<1>3. CASE Finish(t, "RuntimeError") /\ UNCHANGED lock
  <2>1. PICK e \in Records : thread' = [thread EXCEPT ![t] = e] /\ e.stage = "python"
    BY <1>3, FinishFields
  <2> QED
    BY <1>1, <1>3, <2>1, RecordsStay
<1>4. CASE /\ thread' = [thread EXCEPT ![t] =
                           [stage |-> "blocked", target |-> target, result |-> "none"]]
           /\ lock' = Detached(t)
  <2> DEFINE e == [stage |-> "blocked", target |-> target, result |-> "none"]
  <2>1. e \in Records /\ e.stage = "blocked"
    BY DEF Records, Stages
  <2>2. lock' = Free /\ lock' # t
    BY <1>4, FreeAssumption DEF Detached
  <2>3. thread' = [thread EXCEPT ![t] = e]
    BY <1>4
  <2> HIDE DEF e
  <2> QED
    BY <1>1, <2>1, <2>2, <2>3, RecordsStay
<1> QED
  BY <1>2, <1>3, <1>4 DEF Call

LEMMA AttachInv ==
  ASSUME IndInv, NEW t \in Threads, Attach(t)
  PROVE  IndInv'
<1>1. UNCHANGED <<client, serving>> /\ t \notin serving /\ lock' = t
  BY DEF Attach, IndInv
<1>2. thread[t].result \in {"none", "Ok", "RuntimeError"}
  BY DEF IndInv, Records
<1>3. PICK e \in Records : thread' = [thread EXCEPT ![t] = e] /\ e.stage = "python"
  BY <1>2, FinishFields DEF Attach
<1> QED
  BY <1>1, <1>3, RecordsStay

\* A local request does not time out: no thread waits with the lock in its hand.
LEMMA NetworkInv ==
  ASSUME IndInv, NEW t \in Threads, Network(t)
  PROVE  IndInv'
<1>1. CASE RemoteReply(t)
  <2>1. PICK result \in {"Ok", "RuntimeError"} : Ready(t, result)
    BY <1>1 DEF RemoteReply
  <2>2. /\ UNCHANGED <<lock, client, serving>> /\ thread[t].target = "remote"
        /\ thread[t].stage = "blocked" /\ t \notin serving /\ lock # t
    BY <1>1, <2>1 DEF RemoteReply, Ready, IndInv
  <2>3. PICK e \in Records :
          /\ thread' = [thread EXCEPT ![t] = e]
          /\ e.stage = "returning" /\ e.target = "remote"
    BY <2>1, <2>2, ReadyFields
  <2> QED
    BY <2>2, <2>3, RecordsStay
<1>2. CASE Arrive(t)
  BY <1>2 DEF Arrive, IndInv, LocalCallsSucceed
<1>3. CASE LocalReply(t)
  <2>1. /\ client' = client /\ lock' = Free /\ serving' = serving \ {t}
        /\ Ready(t, "Ok") /\ Free # t
    BY <1>3, FreeAssumption DEF LocalReply
  <2>2. PICK e \in Records :
          /\ thread' = [thread EXCEPT ![t] = e]
          /\ e.stage = "returning" /\ e.result = "Ok"
    BY <2>1, ReadyFields
  <2> QED
    BY <2>1, <2>2, RecordsStay
<1>4. CASE TimeOut(t)
  <2>1. /\ UNCHANGED <<lock, client>> /\ serving' = serving \ {t}
        /\ Ready(t, "RuntimeError") /\ lock # t
    BY <1>4 DEF TimeOut, Ready, IndInv
  <2>2. thread[t].target # "local"
    BY <1>4 DEF TimeOut, IndInv
  <2>3. PICK e \in Records :
          /\ thread' = [thread EXCEPT ![t] = e]
          /\ e.stage = "returning" /\ e.target # "local"
    BY <2>1, <2>2, ReadyFields
  <2> QED
    BY <2>1, <2>3, RecordsStay
<1> QED
  BY <1>1, <1>2, <1>3, <1>4 DEF Network

LEMMA StepInv == IndInv /\ [Next]_vars => IndInv'
<1> SUFFICES ASSUME IndInv, [Next]_vars PROVE IndInv'
  OBVIOUS
<1>1. CASE UNCHANGED vars
  BY <1>1 DEF vars, IndInv, LocalCallsSucceed
<1> QED
  BY <1>1, InterpreterInv, NewInv, CallInv, AttachInv, NetworkInv DEF Next, Bindings

-----------------------------------------------------------------------------
(* Theorems.                                                                *)

\* No thread waits for a reply with the interpreter lock in its hand, and every
\* client there is has masters.
THEOREM Invariance == Spec => []IndInv
  BY InitInv, StepInv, PTL DEF Spec

\* A call to a server of the same process is never held up by its own thread.
THEOREM LocalCalls == Spec => []LocalCallsSucceed
<1>1. IndInv => LocalCallsSucceed
  BY DEF IndInv
<1> QED
  BY Invariance, <1>1, PTL

\* No call of the bindings ends in a panic.
THEOREM NoPanics == Spec => []NoCallPanics
<1>1. IndInv => NoCallPanics
  BY DEF IndInv, Records, NoCallPanics
<1> QED
  BY Invariance, <1>1, PTL
=============================================================================
