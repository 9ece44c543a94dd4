------------------------------ MODULE PyClient ------------------------------
(***************************************************************************)
(* The Python bindings (src/src/python/mod.rs) over the blocking client     *)
(* (BlockingWeedClient, src/src/client.rs): threads of one interpreter      *)
(* share a WeedClient object. The interpreter lock is external: a thread    *)
(* that runs Python code gives it up now and then, one inside the bindings  *)
(* only where they detach from it. Some masters and volume servers may be   *)
(* remote; others may run in the same process, in Python, as in a test.     *)
(***************************************************************************)
EXTENDS Naturals

CONSTANTS Threads,    \* Python threads that use the client
          Server,     \* the thread of the server in the same process
          MaxUrls,    \* bound of the model: master URLs given
          MaxCalls    \* bound of the model: calls of the bindings

ASSUME ServerAssumption == Server \notin Threads
ASSUME BoundsAssumption == MaxUrls \in Nat /\ MaxCalls \in Nat

\* The strategies that new knows, and one it does not.
Strategies == {"round_robin", "failover", "random"}
Names == Strategies \cup {"fastest"}
Targets == {"local", "remote"}

NoClient == [masters |-> 0, strategy |-> "none"]
Free == "free"
ASSUME FreeAssumption == Free \notin Threads \cup {Server}

VARIABLES
  lock,      \* who holds the interpreter lock, if anybody
  client,    \* the WeedClient object, if there is one
  thread,    \* where each thread is, and how its last call ended
  serving,   \* the threads whose request the local server has received
  calls      \* History: calls made so far

vars == <<lock, client, thread, serving, calls>>

\* stage: "python" (runs Python code, or would), "blocked" (in block_on,
\* detached), "returning" (the future is ready; its result must become an object).
Idle == [stage |-> "python", target |-> "remote", result |-> "none"]

Finish(t, result) ==
  thread' = [thread EXCEPT ![t] = [@ EXCEPT !.stage = "python", !.result = result]]

-----------------------------------------------------------------------------
(* The interpreter.                                                         *)

Wants(p) ==
  IF p = Server THEN serving # {} ELSE thread[p].stage = "python"

\* A thread is given the lock.
Take(p) ==
  /\ lock = Free /\ Wants(p)
  /\ lock' = p
  /\ UNCHANGED <<client, thread, serving, calls>>

\* The switch interval is over, or the code waits for something.
Yield(t) ==
  /\ lock = t /\ thread[t].stage = "python"
  /\ lock' = Free
  /\ UNCHANGED <<client, thread, serving, calls>>

-----------------------------------------------------------------------------
(* The bindings.                                                            *)

\* Mistake: new and the builders leave it to the calls to find no master.
RefusedLate(strategy, urls) == strategy \notin Strategies

\* PyWeedClient::new and the two builders below it.
Refused(strategy, urls) == strategy \notin Strategies \/ urls = 0

\* What the builders make of their options.
Built(strategy, urls) == [masters |-> urls, strategy |-> strategy]

\* WeedClient(master_urls, strategy). It may fail for want of a HTTP client or of
\* a runtime too; either way the caller gets a RuntimeError.
New(t, strategy, urls) ==
  /\ lock = t /\ thread[t].stage = "python"
  /\ client = NoClient /\ calls < MaxCalls
  /\ calls' = calls + 1
  /\ \/ /\ ~Refused(strategy, urls)
        /\ client' = Built(strategy, urls)
        /\ Finish(t, "Ok")
     \/ Finish(t, "RuntimeError") /\ UNCHANGED client
  /\ UNCHANGED <<lock, serving>>

\* Mistake: the call blocks with the lock in its hand.
DetachedHolding(t) == t

\* What py.detach makes of the lock.
Detached(t) == Free

\* next_master_index divides by the number of masters, or draws below it.
Panics == client.masters = 0 /\ client.strategy # "failover"

\* write, read, delete, lookup, public_url or public_url_resized: the arguments are
\* converted and copied, which fails for a malformed file id; then the thread
\* detaches and blocks on the future.
Call(t, target) ==
  /\ lock = t /\ thread[t].stage = "python"
  /\ client # NoClient /\ calls < MaxCalls
  /\ calls' = calls + 1
  /\ \/ Finish(t, "RuntimeError") /\ UNCHANGED lock
     \/ Panics /\ Finish(t, "PanicException") /\ UNCHANGED lock
     \/ /\ ~Panics
        /\ thread' = [thread EXCEPT ![t] =
                        [stage |-> "blocked", target |-> target, result |-> "none"]]
        /\ lock' = Detached(t)
  /\ UNCHANGED <<client, serving>>

\* The future of t is ready.
Ready(t, result) ==
  /\ thread[t].stage = "blocked"
  /\ thread' = [thread EXCEPT ![t].stage = "returning", ![t].result = result]

\* The end of detach and of the method: with the lock again, the result becomes a
\* Python object and the error a RuntimeError.
Attach(t) ==
  /\ thread[t].stage = "returning" /\ lock \in {Free, t}
  /\ lock' = t
  /\ Finish(t, thread[t].result)
  /\ UNCHANGED <<client, serving, calls>>

-----------------------------------------------------------------------------
(* The servers.                                                             *)

\* A remote server or master may answer, or never.
RemoteReply(t) ==
  /\ thread[t].target = "remote"
  /\ \E result \in {"Ok", "RuntimeError"} : Ready(t, result)
  /\ UNCHANGED <<lock, client, serving, calls>>

\* The local server's socket has a request: no lock is needed for that.
Arrive(t) ==
  /\ thread[t].stage = "blocked" /\ thread[t].target = "local"
  /\ t \notin serving
  /\ serving' = serving \cup {t}
  /\ UNCHANGED <<lock, client, thread, calls>>

\* The local server's handler, which is Python code, runs and replies.
LocalReply(t) ==
  /\ lock = Server /\ t \in serving
  /\ Ready(t, "Ok")
  /\ serving' = serving \ {t}
  /\ lock' = Free
  /\ UNCHANGED <<client, calls>>

\* Mistake: a HTTP client built without a timeout: reqwest has none of its own.
TimeOutNever(t) == FALSE

\* The request timeout. Against it a thread switch takes no time: a local request
\* times out only if whoever holds the lock blocks with it.
TimeOut(t) ==
  /\ thread[t].target = "local"
       => lock \in Threads /\ thread[lock].stage # "python"
  /\ Ready(t, "RuntimeError")
  /\ serving' = serving \ {t}
  /\ UNCHANGED <<lock, client, calls>>

Init ==
  /\ lock = Free
  /\ client = NoClient
  /\ thread = [t \in Threads |-> Idle]
  /\ serving = {}
  /\ calls = 0

Bindings(t) ==
  \/ \E strategy \in Names, urls \in 0 .. MaxUrls : New(t, strategy, urls)
  \/ \E target \in Targets : Call(t, target)

Network(t) == RemoteReply(t) \/ Arrive(t) \/ LocalReply(t) \/ TimeOut(t)

Next ==
  \/ \E t \in Threads : Yield(t) \/ Bindings(t) \/ Attach(t) \/ Network(t)
  \/ \E p \in Threads \cup {Server} : Take(p)

\* Requests end, if only by the request timeout; a thread that runs Python code is made to yield; and a thread that
\* keeps asking for the lock is given it now and then.
Fairness ==
  /\ \A t \in Threads :
    /\ WF_vars(Yield(t)) /\ SF_vars(Attach(t))
    /\ WF_vars(Arrive(t) \/ LocalReply(t) \/ TimeOut(t))
  /\ \A p \in Threads \cup {Server} : SF_vars(Take(p))

Spec == Init /\ [][Next]_vars /\ Fairness

-----------------------------------------------------------------------------
(* Properties                                                               *)

\* A call to a server in the same process succeeds: the client does not hold up
\* the thread it waits for (py.detach at python/mod.rs:120, 140, 148, 155, 169, 182).
LocalCallsSucceed ==
  \A t \in Threads :
    (thread[t].stage = "returning" /\ thread[t].target = "local")
      => thread[t].result = "Ok"

\* Every thread gets on, for ever: a call returns to Python code that runs again, though
\* its server never answers (create_http_client, http/mod.rs:66-72), and while
\* calls are in flight the other threads of the interpreter run.
EveryThreadGetsOn == \A t \in Threads : []<>(lock = t)

\* No call divides by the number of masters of a client without any ("guaranteed
\* non-empty", ha.rs:104): what the constructor lets through the calls can bear.
NoCallPanics == \A t \in Threads : thread[t].result # "PanicException"
=============================================================================
