----------------------------- MODULE MasterCall -----------------------------
(***************************************************************************)
(* What a highly available master client promises its callers, with no     *)
(* order and no counters in sight: a call has a budget of attempts at each  *)
(* master, every refused attempt spends one, an answer ends the call at     *)
(* once, and a call fails only when the budget of every master is spent.    *)
(* HaMaster (the Rust client) and NativeMaster (Go and Java) implement it.  *)
(***************************************************************************)
EXTENDS Naturals

CONSTANTS Callers,   \* tasks and threads that share the client
          Masters    \* configured masters

VARIABLES allowance, \* attempts one call may make at each master: configuration
          status,    \* what each caller is doing, or its last result
          budget     \* attempts its call has left at each master

vars == <<allowance, status, budget>>

Results == {"ok", "not_found", "failed"}
Statuses == {"idle", "calling"} \cup Results

Init ==
  /\ allowance \in Nat \ {0}
  /\ status = [c \in Callers |-> "idle"]
  /\ budget = [c \in Callers |-> [m \in Masters |-> allowance]]

\* A caller that is not in a call starts one, with a fresh budget.
Invoke(c) ==
  /\ status[c] # "calling"
  /\ status' = [status EXCEPT ![c] = "calling"]
  /\ budget' = [budget EXCEPT ![c] = [m \in Masters |-> allowance]]
  /\ UNCHANGED allowance

\* Some master with budget left gave the answer the caller wanted, or one no
\* other master could change.
Answered(c, result) ==
  /\ status[c] = "calling"
  /\ \E m \in Masters : budget[c][m] > 0
  /\ status' = [status EXCEPT ![c] = result]
  /\ UNCHANGED <<allowance, budget>>

\* An attempt at m came to nothing. The call fails with the last one of all.
Refused(c, m) ==
  /\ status[c] = "calling"
  /\ budget[c][m] > 0
  /\ budget' = [budget EXCEPT ![c][m] = @ - 1]
  /\ status' = [status EXCEPT ![c] =
                  IF \A n \in Masters : budget'[c][n] = 0
                  THEN "failed" ELSE "calling"]
  /\ UNCHANGED allowance

Next ==
  \E c \in Callers :
    \/ Invoke(c)
    \/ \E result \in {"ok", "not_found"} : Answered(c, result)
    \/ \E m \in Masters : Refused(c, m)

Progress(c) ==
  \/ \E result \in {"ok", "not_found"} : Answered(c, result)
  \/ \E m \in Masters : Refused(c, m)

Safety == Init /\ [][Next]_vars

Spec == Safety /\ \A c \in Callers : WF_vars(Progress(c))
=============================================================================
