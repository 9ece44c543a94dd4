------------------------------ MODULE FileStore ------------------------------
(***************************************************************************)
(* What the client promises an application about its files, with no         *)
(* servers, replicas or messages in sight. Any request may fail. Beyond     *)
(* that,                                                                    *)
(*   - a write that succeeds returns a file id of its own, and its file is  *)
(*     there for every read until someone asks for its deletion;            *)
(*   - once a deletion has succeeded no read started since finds the file,  *)
(*     and a deletion that failed leaves the file in doubt;                 *)
(*   - only a request whose volume moved under it may miss a file wrongly.  *)
(* FileOps implements it.                                                   *)
(***************************************************************************)
CONSTANTS Clients,  \* callers
          Fids      \* file ids

VARIABLES file,     \* what is known of each file
          request   \* the latest request of each client

vars == <<file, request>>

\* "doubtful": its deletion was asked for, and has not succeeded.
Knowledge == {"unwritten", "written", "doubtful", "deleted"}
Kinds == {"write", "read", "delete", "lookup", "url"}

\* fids: the file, for a write only once it has succeeded. gone: the file was
\* deleted before the request began. moved: its volume moved meanwhile.
Request(phase, kind, fids, gone) ==
  [phase |-> phase, kind |-> kind, fids |-> fids, gone |-> gone, moved |-> FALSE]

Init ==
  /\ file = [f \in Fids |-> "unwritten"]
  /\ request = [c \in Clients |-> Request("none", "read", {}, FALSE)]

BeginWrite(c) ==
  /\ request[c].phase # "running"
  /\ request' = [request EXCEPT ![c] = Request("running", "write", {}, FALSE)]
  /\ UNCHANGED file

\* Only files that were written can be named.
Begin(c, kind, f) ==
  /\ request[c].phase # "running"
  /\ file[f] # "unwritten"
  /\ request' = [request EXCEPT ![c] =
                   Request("running", kind, {f}, file[f] = "deleted")]
  /\ file' = [file EXCEPT ![f] =
                IF kind = "delete" /\ @ = "written" THEN "doubtful" ELSE @]

End(c, phase) ==
  /\ request[c].phase = "running"
  /\ request' = [request EXCEPT ![c].phase = phase, ![c].moved = FALSE]

Fails(c) == End(c, "failed") /\ UNCHANGED file

WriteSucceeds(c, f) ==
  /\ request[c].phase = "running" /\ request[c].kind = "write"
  /\ file[f] = "unwritten"
  /\ file' = [file EXCEPT ![f] = "written"]
  /\ request' = [request EXCEPT ![c].phase = "ok", ![c].fids = {f}]

ReadSucceeds(c) ==
  /\ request[c].kind = "read" /\ ~request[c].gone
  /\ End(c, "ok")
  /\ UNCHANGED file

DeleteSucceeds(c) ==
  /\ request[c].kind = "delete"
  /\ End(c, "ok")
  /\ file' = [f \in Fids |-> IF f \in request[c].fids THEN "deleted" ELSE file[f]]

\* A request finds that there is no such file.
Misses(c) ==
  /\ request[c].kind \in {"read", "delete"}
  /\ request[c].moved \/ \A f \in request[c].fids : file[f] # "written"
  /\ End(c, "not_found")
  /\ UNCHANGED file

LocationsFound(c) ==
  /\ request[c].kind \in {"lookup", "url"}
  /\ End(c, "ok")
  /\ UNCHANGED file

\* The volume moves while some requests run.
Move(S) ==
  /\ \A c \in S : request[c].phase = "running"
  /\ request' = [c \in Clients |->
                   IF c \in S THEN [request[c] EXCEPT !.moved = TRUE] ELSE request[c]]
  /\ UNCHANGED file

Ends(c) ==
  \/ Fails(c) \/ ReadSucceeds(c) \/ DeleteSucceeds(c) \/ Misses(c)
  \/ LocationsFound(c)
  \/ \E f \in Fids : WriteSucceeds(c, f)

Next ==
  \/ \E c \in Clients :
       \/ BeginWrite(c) \/ Ends(c)
       \/ \E kind \in Kinds \ {"write"}, f \in Fids : Begin(c, kind, f)
  \/ \E S \in SUBSET Clients : Move(S)

\* Every request ends.
Fairness == \A c \in Clients : WF_vars(Ends(c))

Safety == Init /\ [][Next]_vars

Spec == Safety /\ Fairness
=============================================================================
