------------------------------- MODULE FileOps -------------------------------
(***************************************************************************)
(* The operations of the client facade (src/src/client.rs): the write, read *)
(* delete, lookup and public-URL use cases of the Rust core                 *)
(* (src/src/application) over the HTTP volume client                        *)
(* (src/src/infrastructure/http/volume.rs), run by several clients against  *)
(* the replicas of one volume. Some of them may be native Go or Java        *)
(* clients, which do the same but fall back to no other replica.            *)
(*                                                                         *)
(* The cluster is external. Servers crash and come back with their data;    *)
(* the server that takes a write or a delete passes it on to the replicas   *)
(* it reaches and reports success only when every replica has it; the       *)
(* master may leave servers out of a lookup reply, and may move a replica   *)
(* to another server. A request that timed out may still be served later.   *)
(***************************************************************************)
EXTENDS Naturals, FiniteSets, Sequences

CONSTANTS Clients,    \* callers of the use cases
          Fids,       \* file ids the masters may assign, all of one volume
          Servers,    \* volume servers
          Replicas,   \* the servers that hold the volume at first
          Healthy,    \* replicas assumed to stay up and answer
          Native,     \* the clients that are native Go or Java clients
          Hash,       \* sticky_hash of each file id
          MaxOps,     \* bound of the model: operations started
          MaxCrashes, \* bound of the model: server crashes
          MaxMoves    \* bound of the model: replicas moved

ASSUME ReplicasAssumption == Replicas \subseteq Servers /\ IsFiniteSet(Servers)
ASSUME HealthyAssumption == Healthy \subseteq Replicas
ASSUME NativeAssumption == Native \subseteq Clients
ASSUME FidsAssumption == Fids # {}
ASSUME HashAssumption == Hash \in [Fids -> Nat]
ASSUME BoundsAssumption == MaxOps \in Nat /\ MaxCrashes \in Nat /\ MaxMoves \in Nat

VARIABLES
  op,        \* the latest operation of each client
  \* The cluster:
  up,        \* servers that run
  holders,   \* servers that hold the volume
  stored,    \* where each file is
  late,      \* requests given up on that a server may still receive
  assigned,  \* file ids handed out
  \* History, read by guards only to bound the model or keep it closed:
  acked,     \* files whose write returned Ok: those an application knows
  deleting,  \* files whose deletion was asked for
  deleted,   \* files whose deletion returned Ok
  ops, crashes, moves

cluster == <<up, holders, stored, late, assigned>>
counts == <<ops, crashes, moves>>
vars == <<op, cluster, acked, deleting, deleted, counts>>

\* Operations that end with the master's answer, and all of them.
Locating == {"lookup", "url"}
Kinds == {"write", "read", "delete"} \cup Locating

\* What a use case returns; "MasterFailed" stands for the errors of
\* MasterCall: AssignmentFailed, LookupFailed and VolumeNotFound.
Failed(kind) ==
  CASE kind = "write" -> "UploadFailed"
    [] kind = "read" -> "DownloadFailed"
    [] OTHER -> "DeleteFailed"

Results ==
  {"none", "Ok", "FileNotFound", "NoReplicasAvailable", "MasterFailed"}
    \cup {Failed(k) : k \in Kinds \ Locating}

\* Lists of distinct replicas that name every healthy one: lookup replies.
Listings ==
  {l \in UNION {[1 .. n -> holders] : n \in 0 .. Cardinality(holders)} :
     /\ \A i, j \in DOMAIN l : l[i] = l[j] => i = j
     /\ \A s \in Healthy : \E i \in DOMAIN l : l[i] = s}

NoOp(f) ==
  [kind |-> "read", stage |-> "idle", fid |-> f, locs |-> <<>>, start |-> 0,
   offset |-> 0, reply |-> "none", result |-> "none", asked |-> {},
   epoch |-> 0, gone |-> FALSE]

-----------------------------------------------------------------------------
(* The use cases.                                                           *)

\* The replica the attempt at hand goes to: locations[(start + offset) % count].
Target(o) == o.locs[((o.start + o.offset) % Len(o.locs)) + 1]

\* The operation returns, and its frame is forgotten; the locations are
\* what some return.
Finish(o, result) ==
  [o EXCEPT !.stage = "done", !.result = result, !.start = 0, !.offset = 0,
            !.reply = "none", !.asked = {},
            !.locs = IF o.kind \in Locating THEN @ ELSE <<>>]

\* The attempt at hand goes out.
Send(o) ==
  [o EXCEPT !.stage = "sent", !.reply = "none", !.asked = @ \cup {Target(o)}]

\* Replicas an operation may try, one after the other. A write has only the
\* server the master assigned.
Attempts(c, o) == IF c \in Native THEN 1 ELSE Len(o.locs)

\* Mistake: the first replica that fails ends the operation.
NextReplicaNone(c, o) == Finish(o, Failed(o.kind))

\* Mistake: the last replica of the list is never asked.
NextReplicaShort(c, o) ==
  IF o.offset + 2 < Attempts(c, o)
  THEN Send([o EXCEPT !.offset = @ + 1])
  ELSE Finish(o, Failed(o.kind))

\* Mistake: one attempt more than there are replicas.
NextReplicaLong(c, o) ==
  IF o.offset < Attempts(c, o)
  THEN Send([o EXCEPT !.offset = @ + 1])
  ELSE Finish(o, Failed(o.kind))

\* Mistake: the same replica over and over.
NextReplicaStuck(c, o) == Send(o)

\* After an attempt that failed: the next replica, or the last error.
NextReplica(c, o) ==
  IF o.offset + 1 < Attempts(c, o)
  THEN Send([o EXCEPT !.offset = @ + 1])
  ELSE Finish(o, Failed(o.kind))

\* Mistake: any reply of the server taken for success.
OutcomeUnchecked(kind, reply) ==
  IF reply = "not_found" /\ kind # "write" THEN "FileNotFound" ELSE "Ok"

\* Mistake: every status that is no success reported as the file's absence.
OutcomeAbsent(kind, reply) ==
  CASE reply = "ok" -> "Ok"
    [] reply # "ok" /\ kind # "write" -> "FileNotFound"
    [] OTHER -> Failed(kind)

\* Mistake: a delete that finds nothing taken for a delete that was done.
OutcomeIdempotent(kind, reply) ==
  CASE reply = "ok" \/ (reply = "not_found" /\ kind = "delete") -> "Ok"
    [] reply = "not_found" /\ kind = "read" -> "FileNotFound"
    [] OTHER -> Failed(kind)

\* upload_impl, download_impl and delete_impl: what a reply amounts to.
Outcome(kind, reply) ==
  CASE reply = "ok" -> "Ok"
    [] reply = "not_found" /\ kind # "write" -> "FileNotFound"
    [] OTHER -> Failed(kind)

\* select_replica: where an operation may start. A read chooses: First, Sticky
\* or (core only) Random, of which the last includes the others.
Starts(c, o, count) ==
  CASE o.kind # "read" -> {0}
    [] c \in Native -> {0, Hash[o.fid] % count}
    [] OTHER -> 0 .. count - 1

Idle(c) == op[c].stage \in {"idle", "done"}

\* An operation is called: a write, or another of a file that was written.
Start(c, kind, f) ==
  /\ Idle(c)
  /\ ops < MaxOps
  /\ kind # "write" => f \in acked
  /\ op' = [op EXCEPT ![c] = [NoOp(f) EXCEPT !.kind = kind, !.stage = "master",
                                             !.gone = f \in deleted]]
  /\ deleting' = IF kind = "delete" THEN deleting \cup {f} ELSE deleting
  /\ ops' = ops + 1
  /\ UNCHANGED <<cluster, acked, deleted, crashes, moves>>

\* assign or lookup returned an error (see MasterCall).
MasterFails(c) ==
  /\ op[c].stage = "master"
  /\ op' = [op EXCEPT ![c] = Finish(@, "MasterFailed")]
  /\ UNCHANGED <<cluster, acked, deleting, deleted, counts>>

\* assign returned a fresh file id and the server to upload it to.
Assigned(c, s, f) ==
  /\ op[c].stage = "master" /\ op[c].kind = "write"
  /\ f \notin assigned /\ s \in holders
  /\ assigned' = assigned \cup {f}
  /\ op' = [op EXCEPT ![c] = Send([@ EXCEPT !.fid = f, !.locs = <<s>>])]
  /\ UNCHANGED <<up, holders, stored, late, acked, deleting, deleted, counts>>

\* lookup returned the volume's locations: lookup passes them on, public_url
\* names the first of them, and the others go to a replica.
LookedUp(c, l) ==
  LET o == [op[c] EXCEPT !.locs = l, !.epoch = moves] IN
  /\ o.stage = "master" /\ o.kind # "write"
  /\ \/ /\ o.kind = "lookup" \/ (o.kind = "url" /\ l # <<>>)
        /\ op' = [op EXCEPT ![c] = Finish(o, "Ok")]
     \/ /\ o.kind # "lookup" /\ l = <<>>
        /\ op' = [op EXCEPT ![c] = Finish(o, "NoReplicasAvailable")]
     \/ /\ o.kind \notin Locating /\ l # <<>>
        /\ \E start \in Starts(c, o, Len(l)) :
             op' = [op EXCEPT ![c] = Send([o EXCEPT !.start = start])]
  /\ UNCHANGED <<cluster, acked, deleting, deleted, counts>>

\* The match on an attempt's result: Ok and FileNotFound return, any other
\* error is kept and the next replica tried.
Conclude(c, outcome) ==
  LET o == op[c] IN
  /\ op' = [op EXCEPT ![c] =
              IF outcome \in {"Ok", "FileNotFound"}
              THEN Finish(@, outcome) ELSE NextReplica(c, @)]
  /\ acked' = IF o.kind = "write" /\ outcome = "Ok"
              THEN acked \cup {o.fid} ELSE acked
  /\ deleted' = IF o.kind = "delete" /\ outcome = "Ok"
                THEN deleted \cup {o.fid} ELSE deleted
  /\ UNCHANGED <<up, holders, stored, assigned, deleting, counts>>

\* The reply to the attempt arrives.
Receive(c) ==
  /\ op[c].stage = "sent" /\ op[c].reply # "none"
  /\ Conclude(c, Outcome(op[c].kind, op[c].reply))
  /\ UNCHANGED late

\* No reply arrives: the server is down, the request or the reply is lost, or
\* the reply's body breaks off. A request not yet served may be served late.
TimeOut(c) ==
  /\ op[c].stage = "sent"
  /\ Target(op[c]) \notin Healthy
  /\ Conclude(c, Failed(op[c].kind))
  /\ late' = IF op[c].reply = "none" /\ op[c].kind # "read"
             THEN late \cup {[kind |-> op[c].kind, fid |-> op[c].fid,
                              server |-> Target(op[c])]}
             ELSE late

-----------------------------------------------------------------------------
(* The cluster.                                                             *)

\* What server s does with a request and replies to it.
Write(s, f, reply) ==
  \E kept \in SUBSET (holders \cap up) :
    /\ s \notin kept => kept = {}
    /\ stored' = [stored EXCEPT ![f] = @ \cup kept]
    /\ reply = IF kept = holders THEN "ok" ELSE "error"

Delete(s, f, reply) ==
  \/ /\ s \notin stored[f]
     /\ reply = "not_found"
     /\ UNCHANGED stored
  \/ /\ s \in stored[f]
     /\ \E gone \in SUBSET (stored[f] \cap up) :
          /\ s \notin gone => gone = {}
          /\ stored' = [stored EXCEPT ![f] = @ \ gone]
          /\ reply = IF gone = stored[f] THEN "ok" ELSE "error"

Read(s, f, reply) ==
  /\ \/ reply = IF s \in stored[f] THEN "ok" ELSE "not_found"
     \/ s \notin Healthy /\ reply = "error"
  /\ UNCHANGED stored

Handle(kind, s, f, reply) ==
  CASE kind = "write" -> Write(s, f, reply)
    [] kind = "delete" -> Delete(s, f, reply)
    [] OTHER -> Read(s, f, reply)

Replies == {"ok", "not_found", "error"}

Serve(c) ==
  /\ op[c].stage = "sent" /\ op[c].reply = "none"
  /\ Target(op[c]) \in up
  /\ \E reply \in Replies :
       /\ Handle(op[c].kind, Target(op[c]), op[c].fid, reply)
       /\ op' = [op EXCEPT ![c].reply = reply]
  /\ UNCHANGED <<up, holders, late, assigned, acked, deleting, deleted, counts>>

ServeLate(r) ==
  /\ r.server \in up
  /\ \E reply \in Replies : Handle(r.kind, r.server, r.fid, reply)
  /\ late' = late \ {r}
  /\ UNCHANGED <<op, up, holders, assigned, acked, deleting, deleted, counts>>

Crash(s) ==
  /\ s \in up \ Healthy
  /\ crashes < MaxCrashes
  /\ up' = up \ {s}
  /\ crashes' = crashes + 1
  /\ UNCHANGED <<op, holders, stored, late, assigned, acked, deleting, deleted,
                 ops, moves>>

Restart(s) ==
  /\ s \notin up
  /\ up' = up \cup {s}
  /\ UNCHANGED <<op, holders, stored, late, assigned, acked, deleting, deleted,
                 counts>>

\* Rebalancing: t takes over the replica of s.
Move(s, t) ==
  /\ moves < MaxMoves
  /\ s \in (holders \cap up) \ Healthy
  /\ t \in up \ holders
  /\ holders' = (holders \ {s}) \cup {t}
  /\ stored' = [f \in Fids |-> IF s \in stored[f]
                               THEN (stored[f] \ {s}) \cup {t} ELSE stored[f]]
  /\ moves' = moves + 1
  /\ UNCHANGED <<op, up, late, assigned, acked, deleting, deleted, ops, crashes>>

Init ==
  /\ op = [c \in Clients |-> NoOp(CHOOSE f \in Fids : TRUE)]
  /\ up = Servers
  /\ holders = Replicas
  /\ stored = [f \in Fids |-> {}]
  /\ late = {}
  /\ assigned = {}
  /\ acked = {} /\ deleting = {} /\ deleted = {}
  /\ ops = 0 /\ crashes = 0 /\ moves = 0

Application(c) == \E kind \in Kinds, f \in Fids : Start(c, kind, f)

Master(c) ==
  \/ MasterFails(c)
  \/ \E s \in holders, f \in Fids : Assigned(c, s, f)
  \/ \E l \in Listings : LookedUp(c, l)

Volume(c) == Receive(c) \/ TimeOut(c)

Next ==
  \/ \E c \in Clients : Application(c) \/ Master(c) \/ Volume(c) \/ Serve(c)
  \/ \E r \in late : ServeLate(r)
  \/ \E s \in Servers : Crash(s) \/ Restart(s)
  \/ \E s, t \in Servers : Move(s, t)

\* In the core a master call returns (HaMaster), every request is answered or times
\* out, and a healthy server serves. Applications and failures owe nothing, nor do
\* native clients: a Java request may never end (NativeMaster).
Fairness ==
  \A c \in Clients \ Native :
    /\ WF_vars(Master(c)) /\ WF_vars(Volume(c))
    /\ WF_vars(Serve(c) /\ Target(op[c]) \in Healthy)

Spec == Init /\ [][Next]_vars /\ Fairness

-----------------------------------------------------------------------------
(* Properties                                                               *)

Returned(c, kind, result) ==
  op[c].stage = "done" /\ op[c].kind = kind /\ op[c].result = result

Listed(l) == {l[i] : i \in DOMAIN l}

TypeOK ==
  /\ \A c \in Clients :
       /\ op[c].kind \in Kinds /\ op[c].fid \in Fids
       /\ op[c].stage \in {"idle", "master", "sent", "done"}
       /\ op[c].locs \in Seq(Servers) /\ op[c].asked \subseteq Servers
       /\ op[c].reply \in {"none"} \cup Replies /\ op[c].result \in Results
       /\ op[c].stage = "sent" => op[c].offset < Len(op[c].locs)
  /\ up \subseteq Servers /\ holders \subseteq Servers
  /\ stored \in [Fids -> SUBSET Servers]
  /\ late \subseteq [kind : {"write", "delete"}, fid : Fids, server : Servers]
  /\ deleted \subseteq deleting /\ deleting \subseteq acked /\ acked \subseteq assigned

\* An acknowledged write is on every replica, whatever crashed or moved since,
\* until its deletion is asked for: upload_impl takes no reply for success that
\* the server did not mean as one.
AckedWriteIsOnEveryReplica ==
  \A f \in acked \ deleting : stored[f] = holders

\* A file whose deletion was acknowledged is never read again: no replica
\* brings it back, neither one that was down meanwhile nor a late request.
DeletedFileIsNeverRead ==
  \A c \in Clients : op[c].gone => ~Returned(c, "read", "Ok")

GaveUp(c) ==
  Returned(c, "read", "DownloadFailed") \/ Returned(c, "delete", "DeleteFailed")

\* "Only fails once all of them have" (read_file.rs:70), and delete likewise: the
\* operation that gives up without a definite answer has by then asked every
\* replica that the master listed.
GivesUpOnlyAfterEveryReplica ==
  [][\A c \in Clients \ Native :
       (~GaveUp(c) /\ GaveUp(c)') => op[c].asked = Listed(op[c].locs)]_vars

\* A written file that nobody deletes is never reported as absent, unless its
\* volume moved after the master was asked where it is.
AbsenceIsNeverInvented ==
  \A c \in Clients :
    Returned(c, "read", "FileNotFound") =>
      op[c].fid \in deleting \/ op[c].epoch # moves

\* Every operation of the core ends.
EveryOperationEnds ==
  \A c \in Clients \ Native : op[c].stage \in {"master", "sent"} ~> op[c].stage = "done"

-----------------------------------------------------------------------------
(* The operations keep the promise of FileStore.                            *)

Knowledge(f) ==
  CASE f \in deleted -> "deleted"
    [] f \in deleting \ deleted -> "doubtful"
    [] f \in acked \ deleting -> "written"
    [] OTHER -> "unwritten"

AbsPhase(o) ==
  CASE o.stage = "idle" -> "none"
    [] o.stage \in {"master", "sent"} -> "running"
    [] o.result = "Ok" -> "ok"
    [] o.result = "FileNotFound" -> "not_found"
    [] OTHER -> "failed"

AbsRequest(o) ==
  LET write == o.kind = "write" IN
  [phase |-> AbsPhase(o), kind |-> o.kind,
   fids |-> IF o.stage = "idle" \/ (write /\ o.result # "Ok") THEN {} ELSE {o.fid},
   gone |-> ~write /\ o.gone,
   moved |-> ~write /\ o.stage = "sent" /\ o.epoch # moves]

Store ==
  INSTANCE FileStore WITH
    file <- [f \in Fids |-> Knowledge(f)],
    request <- [c \in Clients |-> AbsRequest(op[c])]

\* Whatever crashes, moves, is lost or comes late, the store behaves as promised.
KeepsStorePromise == Store!Safety
=============================================================================
