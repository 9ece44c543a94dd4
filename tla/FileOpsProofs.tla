---------------------------- MODULE FileOpsProofs ----------------------------
(***************************************************************************)
(* Proofs about FileOps, for any number of clients, files, servers and      *)
(* replicas, and any number of crashes and moves: the invariants, the       *)
(* action property and the implementation of FileStore.                     *)
(***************************************************************************)
EXTENDS FileOps, TLAPS

Stages == {"idle", "master", "sent", "done"}

Frames ==
  [kind : Kinds, stage : Stages, fid : Fids, locs : Seq(Servers), start : Nat,
   offset : Nat, reply : {"none"} \cup Replies, result : Results,
   asked : SUBSET Servers, epoch : Nat, gone : BOOLEAN]

\* The i-th replica an operation over the list l visits when it starts at s.
Visit(l, s, i) == l[((s + i) % Len(l)) + 1]

Types ==
  /\ op \in [Clients -> Frames]
  /\ up \subseteq Servers /\ holders \subseteq Servers /\ Healthy \subseteq holders
  /\ stored \in [Fids -> SUBSET holders]
  /\ late \subseteq [kind : {"write", "delete"}, fid : Fids, server : Servers]
  /\ deleted \subseteq deleting /\ deleting \subseteq acked
  /\ acked \subseteq assigned /\ assigned \subseteq Fids
  /\ moves \in Nat

\* Where files are: a written one everywhere, a deleted one nowhere; a late
\* request is for a file that no one knows, or one whose deletion was asked for.
Placed ==
  /\ \A f \in acked \ deleting : stored[f] = holders
  /\ \A f \in deleted : stored[f] = {}
  /\ \A r \in late :
       /\ r.kind = "write" => r.fid \in assigned \ acked
       /\ r.kind = "delete" => r.fid \in deleting

Uploading(c) == op[c].kind = "write" /\ op[c].stage = "sent"

\* The file id of an upload in flight is nobody else's.
Upload(c) ==
  Uploading(c) =>
    /\ op[c].fid \in assigned \ acked
    /\ Len(op[c].locs) = 1
    /\ \A r \in late : r.fid # op[c].fid
    /\ \A d \in Clients \ {c} : Uploading(d) => op[d].fid # op[c].fid
    /\ op[c].reply = "ok" => stored[op[c].fid] = holders

\* Every other operation is on a file the application knows.
Named(c) ==
  (op[c].kind # "write" /\ op[c].stage # "idle") =>
    /\ op[c].fid \in acked
    /\ op[c].kind = "delete" => op[c].fid \in deleting
    /\ op[c].gone => op[c].fid \in deleted

\* Where a running operation stands in its list of replicas.
Sweep(c) ==
  /\ op[c].stage # "done" => op[c].result = "none"
  /\ op[c].stage \in {"idle", "master"} =>
       /\ op[c].locs = <<>> /\ op[c].start = 0 /\ op[c].offset = 0
       /\ op[c].asked = {}
  /\ op[c].stage = "idle" => op[c].kind = "read" /\ ~op[c].gone
  /\ op[c].stage = "sent" =>
       /\ op[c].kind \notin Locating
       /\ op[c].start < Len(op[c].locs) /\ op[c].offset < Len(op[c].locs)
       /\ op[c].asked =
            {Visit(op[c].locs, op[c].start, i) : i \in 0 .. op[c].offset}

\* The locations are of the epoch in which the master was asked.
Fresh(c) ==
  /\ op[c].epoch <= moves
  /\ (op[c].kind # "write" /\ op[c].epoch = moves) => Listed(op[c].locs) \subseteq holders

\* What a reply on its way tells about the file.
Evidence(c) ==
  op[c].stage = "sent" =>
    /\ (op[c].kind = "delete" /\ op[c].reply = "ok") => stored[op[c].fid] = {}
    /\ (op[c].kind = "read" /\ op[c].reply = "ok") => ~op[c].gone
    /\ (op[c].kind = "read" /\ op[c].reply = "not_found") =>
         op[c].fid \in deleting \/ op[c].epoch # moves

\* What a result tells about it.
Verdict(c) ==
  /\ Returned(c, "read", "Ok") => ~op[c].gone
  /\ Returned(c, "read", "FileNotFound") =>
       op[c].fid \in deleting \/ op[c].epoch # moves

\* A read has not failed at a healthy replica, and has one before it.
Served(c) ==
  (op[c].kind = "read" /\ op[c].fid \notin deleting) =>
    /\ op[c].stage = "sent" =>
         /\ Healthy \subseteq Listed(op[c].locs)
         /\ \A i \in 0 .. op[c].offset - 1 :
              Visit(op[c].locs, op[c].start, i) \notin Healthy
         /\ op[c].reply \in {"not_found", "error"} =>
              Visit(op[c].locs, op[c].start, op[c].offset) \notin Healthy
    /\ op[c].stage = "done" =>
         \/ Healthy = {} \/ c \in Native
         \/ op[c].result \in {"Ok", "MasterFailed"}
         \/ op[c].result = "FileNotFound" /\ op[c].epoch # moves

ClientInv(c) ==
  /\ Upload(c) /\ Named(c) /\ Sweep(c) /\ Fresh(c)
  /\ Evidence(c) /\ Verdict(c) /\ Served(c)

IndInv == Types /\ Placed /\ \A c \in Clients : ClientInv(c)

-----------------------------------------------------------------------------
(* Lists of replicas.                                                       *)

LEMMA VisitListed ==
  ASSUME NEW l \in Seq(Servers), l # <<>>, NEW s \in Nat, NEW i \in Nat
  PROVE  Visit(l, s, i) \in Listed(l) /\ Visit(l, s, i) \in Servers
<1>1. Len(l) \in Nat /\ Len(l) > 0
  OBVIOUS
<1>2. (s + i) % Len(l) \in 0 .. Len(l) - 1
  BY <1>1
<1>3. ((s + i) % Len(l)) + 1 \in DOMAIN l
  BY <1>1, <1>2
<1> QED
  BY <1>3 DEF Visit, Listed

\* An operation that gets to the end of its list has visited all of it.
LEMMA VisitAll ==
  ASSUME NEW l \in Seq(Servers), NEW s \in Nat, s < Len(l)
  PROVE  Listed(l) = {Visit(l, s, i) : i \in 0 .. Len(l) - 1}
<1>1. Len(l) \in Nat /\ Len(l) > 0 /\ DOMAIN l = 1 .. Len(l)
  OBVIOUS
<1>2. ASSUME NEW i \in 0 .. Len(l) - 1 PROVE Visit(l, s, i) \in Listed(l)
  BY <1>1, VisitListed
<1>3. ASSUME NEW j \in DOMAIN l
      PROVE  \E i \in 0 .. Len(l) - 1 : l[j] = Visit(l, s, i)
  <2> DEFINE i == IF j - 1 >= s THEN j - 1 - s ELSE j - 1 + Len(l) - s
  <2>1. i \in 0 .. Len(l) - 1
    BY <1>1
  <2>2. s + i = j - 1 \/ s + i = j - 1 + Len(l)
    BY <1>1
  <2>3. j - 1 \in 0 .. Len(l) - 1
    BY <1>1
  <2> HIDE DEF i
  <2>4. (s + i) % Len(l) = j - 1
    <3> DEFINE n == Len(l)  x == j - 1
    <3>1. n \in Nat /\ n > 0 /\ x \in 0 .. n - 1 /\ (s + i = x \/ s + i = x + n)
      BY <1>1, <2>2, <2>3
    <3> HIDE DEF n, x
    <3>2. x % n = x /\ (x + n) % n = x
      BY <3>1
    <3>3. (s + i) % n = x
      BY <3>1, <3>2
    <3> QED
      BY <3>3 DEF n, x
  <2>5. l[j] = Visit(l, s, i)
    BY <1>1, <2>4 DEF Visit
  <2> QED
    BY <2>1, <2>5
<1> QED
  BY <1>2, <1>3 DEF Listed

LEMMA ListingType ==
  ASSUME Types, NEW l \in Listings
  PROVE  l \in Seq(Servers) /\ Listed(l) \subseteq holders /\ Healthy \subseteq Listed(l)
<1>1. PICK n \in 0 .. Cardinality(holders) : l \in [1 .. n -> holders]
  BY DEF Listings
<1>2. holders \subseteq Servers /\ n \in Nat
  BY <1>1 DEF Types
<1>3. l \in Seq(Servers) /\ DOMAIN l = 1 .. n
  BY <1>1, <1>2
<1>4. Listed(l) \subseteq holders
  BY <1>1 DEF Listed
<1>5. Healthy \subseteq Listed(l)
  BY DEF Listings, Listed
<1> QED
  BY <1>3, <1>4, <1>5

LEMMA FrameFields ==
  ASSUME NEW o \in Frames
  PROVE  /\ o.kind \in Kinds /\ o.stage \in Stages /\ o.fid \in Fids
         /\ o.locs \in Seq(Servers) /\ o.start \in Nat /\ o.offset \in Nat
         /\ o.reply \in {"none"} \cup Replies /\ o.result \in Results
         /\ o.asked \subseteq Servers /\ o.epoch \in Nat /\ o.gone \in BOOLEAN
         /\ o = [kind |-> o.kind, stage |-> o.stage, fid |-> o.fid,
                 locs |-> o.locs, start |-> o.start, offset |-> o.offset,
                 reply |-> o.reply, result |-> o.result, asked |-> o.asked,
                 epoch |-> o.epoch, gone |-> o.gone]
  BY DEF Frames

LEMMA NoOpType ==
  ASSUME NEW f \in Fids
  PROVE  NoOp(f) \in Frames
  BY DEF NoOp, Frames, Kinds, Stages, Results

\* The record of an operation that was just called.
Called(f, kind, gone) ==
  [NoOp(f) EXCEPT !.kind = kind, !.stage = "master", !.gone = gone]

LEMMA CalledType ==
  ASSUME NEW f \in Fids, NEW kind \in Kinds, NEW gone \in BOOLEAN
  PROVE  LET k == Called(f, kind, gone) IN
         /\ k \in Frames
         /\ k.kind = kind /\ k.stage = "master" /\ k.fid = f /\ k.locs = <<>>
         /\ k.start = 0 /\ k.offset = 0 /\ k.asked = {}
         /\ k.reply = "none" /\ k.result = "none" /\ k.epoch = 0 /\ k.gone = gone
<1> DEFINE o == NoOp(f)
<1>1. o \in Frames
  BY NoOpType
<1>2. o.fid = f /\ o.locs = <<>> /\ o.reply = "none" /\ o.result = "none" /\ o.epoch = 0
      /\ o.start = 0 /\ o.offset = 0 /\ o.asked = {}
  BY DEF NoOp
<1> HIDE DEF o
<1>3. Called(f, kind, gone) = [o EXCEPT !.kind = kind, !.stage = "master", !.gone = gone]
  BY DEF o, Called
<1> QED
  BY <1>1, <1>2, <1>3 DEF Frames, Stages

\* An operation that returns keeps its kind, its file and its epoch, and only a
\* lookup or a URL its locations.
LEMMA FinishFields ==
  ASSUME NEW o \in Frames, NEW result \in Results
  PROVE  LET e == Finish(o, result) IN
         /\ e \in Frames
         /\ e.kind = o.kind /\ e.fid = o.fid /\ e.epoch = o.epoch /\ e.gone = o.gone
         /\ e.stage = "done" /\ e.result = result
         /\ o.kind \in Locating => e.locs = o.locs
         /\ o.kind \notin Locating => e.locs = <<>>
<1>1. Finish(o, result) =
        [o EXCEPT !.stage = "done", !.result = result, !.start = 0, !.offset = 0,
                  !.reply = "none", !.asked = {},
                  !.locs = IF o.kind \in Locating THEN o.locs ELSE <<>>]
  BY DEF Finish, Frames
<1> DEFINE l == IF o.kind \in Locating THEN o.locs ELSE <<>>
<1>2. /\ l \in Seq(Servers)
      /\ o.kind \in Locating => l = o.locs
      /\ o.kind \notin Locating => l = <<>>
  BY FrameFields
<1> HIDE DEF l
<1>3. Finish(o, result) =
        [kind |-> o.kind, stage |-> "done", fid |-> o.fid, locs |-> l, start |-> 0,
         offset |-> 0, reply |-> "none", result |-> result, asked |-> {},
         epoch |-> o.epoch, gone |-> o.gone]
  BY <1>1 DEF Frames, l
<1> QED
  BY <1>2, <1>3, FrameFields DEF Frames, Stages

\* An attempt that goes out is added to those asked.
LEMMA SendFields ==
  ASSUME NEW o \in Frames, Target(o) \in Servers
  PROVE  LET e == Send(o) IN
         /\ e \in Frames
         /\ e.kind = o.kind /\ e.fid = o.fid /\ e.epoch = o.epoch /\ e.gone = o.gone
         /\ e.locs = o.locs /\ e.start = o.start /\ e.offset = o.offset
         /\ e.result = o.result /\ e.stage = "sent" /\ e.reply = "none"
         /\ e.asked = o.asked \cup {Target(o)}
<1>1. Send(o) = [o EXCEPT !.stage = "sent", !.reply = "none",
                          !.asked = o.asked \cup {Target(o)}]
  BY DEF Send, Frames
<1> DEFINE a == o.asked \cup {Target(o)}
<1>2. a \subseteq Servers
  BY FrameFields
<1> HIDE DEF a
<1>3. Send(o) =
        [kind |-> o.kind, stage |-> "sent", fid |-> o.fid, locs |-> o.locs,
         start |-> o.start, offset |-> o.offset, reply |-> "none",
         result |-> o.result, asked |-> a, epoch |-> o.epoch, gone |-> o.gone]
  BY <1>1 DEF Frames, a
<1>4. a = o.asked \cup {Target(o)}
  BY DEF a
<1> QED
  BY <1>2, <1>3, <1>4, FrameFields DEF Frames, Stages

\* The master's answer enters the frame.
AnsweredAssign(o, f, l) == [o EXCEPT !.fid = f, !.locs = l]
AnsweredLookup(o, l, epoch) == [o EXCEPT !.locs = l, !.epoch = epoch]
From(o, start) == [o EXCEPT !.start = start]

LEMMA AssignFields ==
  ASSUME NEW o \in Frames, NEW f \in Fids, NEW l \in Seq(Servers)
  PROVE  LET e == AnsweredAssign(o, f, l) IN
         /\ e \in Frames
         /\ e.kind = o.kind /\ e.stage = o.stage /\ e.fid = f /\ e.locs = l
         /\ e.start = o.start /\ e.offset = o.offset /\ e.asked = o.asked /\ e.epoch = o.epoch
         /\ e.gone = o.gone /\ e.result = o.result
  BY DEF AnsweredAssign, Frames

LEMMA LookupFields ==
  ASSUME NEW o \in Frames, NEW l \in Seq(Servers), NEW epoch \in Nat
  PROVE  LET e == AnsweredLookup(o, l, epoch) IN
         /\ e \in Frames
         /\ e.kind = o.kind /\ e.stage = o.stage /\ e.fid = o.fid /\ e.locs = l
         /\ e.start = o.start /\ e.offset = o.offset /\ e.asked = o.asked /\ e.epoch = epoch
         /\ e.gone = o.gone /\ e.result = o.result
  BY DEF AnsweredLookup, Frames

LEMMA FromFields ==
  ASSUME NEW o \in Frames, NEW start \in Nat
  PROVE  LET e == From(o, start) IN
         /\ e \in Frames
         /\ e.kind = o.kind /\ e.stage = o.stage /\ e.fid = o.fid /\ e.locs = o.locs
         /\ e.start = start /\ e.offset = o.offset /\ e.asked = o.asked /\ e.epoch = o.epoch
         /\ e.gone = o.gone /\ e.result = o.result
  BY DEF From, Frames

\* The attempts that follow one that failed.
LEMMA NextReplicaFields ==
  ASSUME NEW o \in Frames, NEW c \in Clients, o.offset < Len(o.locs),
         o.kind \notin Locating
  PROVE  LET e == NextReplica(c, o) IN
         \/ /\ o.offset + 1 < Attempts(c, o)
            /\ e \in Frames
            /\ e.kind = o.kind /\ e.fid = o.fid /\ e.epoch = o.epoch /\ e.gone = o.gone
            /\ e.locs = o.locs /\ e.start = o.start /\ e.offset = o.offset + 1
            /\ e.result = o.result /\ e.stage = "sent" /\ e.reply = "none"
            /\ e.asked = o.asked \cup {Visit(o.locs, o.start, o.offset + 1)}
         \/ /\ o.offset + 1 >= Attempts(c, o)
            /\ e = Finish(o, Failed(o.kind))
<1>1. /\ o.locs \in Seq(Servers) /\ o.start \in Nat /\ o.offset \in Nat
      /\ o.locs # <<>>
  BY FrameFields
<1>2. Attempts(c, o) \in Nat
  BY <1>1 DEF Attempts
<1>3. CASE o.offset + 1 < Attempts(c, o)
  <2> DEFINE n == [o EXCEPT !.offset = o.offset + 1]
  <2>1. /\ n \in Frames
        /\ n.kind = o.kind /\ n.fid = o.fid /\ n.epoch = o.epoch /\ n.gone = o.gone
        /\ n.locs = o.locs /\ n.start = o.start /\ n.offset = o.offset + 1
        /\ n.result = o.result /\ n.asked = o.asked
    BY DEF Frames
  <2>2. Target(n) = Visit(o.locs, o.start, o.offset + 1)
    BY <2>1 DEF Target, Visit
  <2>3. Target(n) \in Servers
    BY <1>1, <2>2, VisitListed
  <2>4. NextReplica(c, o) = Send(n)
    BY <1>3 DEF NextReplica
  <2> HIDE DEF n
  <2> QED
    BY <1>3, <2>1, <2>2, <2>3, <2>4, SendFields
<1>4. CASE ~(o.offset + 1 < Attempts(c, o))
  BY <1>1, <1>2, <1>4 DEF NextReplica
<1> QED
  BY <1>3, <1>4

LEMMA FailedIsAResult ==
  ASSUME NEW kind \in Kinds \ Locating
  PROVE  /\ Failed(kind) \in Results
         /\ Failed(kind) \notin {"none", "Ok", "FileNotFound", "MasterFailed",
                                "NoReplicasAvailable"}
  BY DEF Failed, Results, Kinds, Locating

LEMMA InitInv == Init => IndInv
<1> SUFFICES ASSUME Init PROVE IndInv
  OBVIOUS
<1> DEFINE f == CHOOSE x \in Fids : TRUE
<1>1. f \in Fids
  BY FidsAssumption
<1>2. op = [c \in Clients |-> NoOp(f)]
  BY DEF Init
<1> HIDE DEF f
<1>3. NoOp(f) \in Frames
  BY <1>1, NoOpType
<1>4. Types
  BY <1>2, <1>3, ReplicasAssumption, HealthyAssumption DEF Init, Types
<1>5. Placed
  BY DEF Init, Placed
<1>6. ASSUME NEW c \in Clients PROVE ClientInv(c)
  <2>1. op[c] = NoOp(f)
    BY <1>2
  <2> QED
    BY <2>1 DEF NoOp, ClientInv, Upload, Uploading, Named, Sweep, Fresh, Evidence,
                Verdict, Served, Returned, Listed, Init
<1> QED
  BY <1>4, <1>5, <1>6 DEF IndInv

-----------------------------------------------------------------------------
(* What a step leaves alone.                                                *)

\* A client whose operation the step does not touch keeps its invariant, if
\* knowledge only grows and its file stays as it must.
LEMMA Undisturbed ==
  ASSUME IndInv, NEW d \in Clients, op'[d] = op[d],
         moves' \in Nat, moves <= moves', moves' = moves => holders' = holders,
         acked \subseteq acked', deleting \subseteq deleting',
         deleted \subseteq deleted', assigned \subseteq assigned',
         Uploading(d) =>
           /\ op[d].fid \notin acked'
           /\ \A r \in late' : r.fid # op[d].fid
           /\ \A e \in Clients \ {d} : Uploading(e)' => op'[e].fid # op[d].fid
           /\ stored[op[d].fid] = holders => stored'[op[d].fid] = holders',
         op[d].kind = "delete" =>
           (stored[op[d].fid] = {} => stored'[op[d].fid] = {})
  PROVE  ClientInv(d)'
<1>1. /\ op[d] \in Frames /\ moves \in Nat /\ op[d].epoch \in Nat
      /\ op[d].epoch <= moves
  BY FrameFields DEF IndInv, Types, ClientInv, Fresh
<1>2. ClientInv(d)
  BY DEF IndInv
<1>3. Upload(d)'
  BY <1>2 DEF ClientInv, Upload, Uploading
<1>4. Named(d)'
  BY <1>2 DEF ClientInv, Named
<1>5. Sweep(d)'
  BY <1>2 DEF ClientInv, Sweep
<1>6. Fresh(d)'
  BY <1>1, <1>2 DEF ClientInv, Fresh
<1>7. Evidence(d)' /\ Verdict(d)'
  BY <1>1, <1>2 DEF ClientInv, Evidence, Verdict, Returned
<1>8. Served(d)'
  BY <1>1, <1>2 DEF ClientInv, Served
<1> QED
  BY <1>3, <1>4, <1>5, <1>6, <1>7, <1>8 DEF ClientInv

\* What a server's handling of a request does to the files.
LEMMA HandleStores ==
  ASSUME Types, NEW kind \in {"write", "delete", "read"},
         NEW s \in Servers, NEW f \in Fids, NEW reply \in Replies,
         Handle(kind, s, f, reply)
  PROVE  /\ stored' \in [Fids -> SUBSET holders]
         /\ \A g \in Fids \ {f} : stored'[g] = stored[g]
         /\ kind = "write" =>
              /\ stored[f] \subseteq stored'[f] /\ reply # "not_found"
              /\ reply = "ok" => stored'[f] = holders
         /\ kind = "delete" =>
              /\ stored'[f] \subseteq stored[f]
              /\ reply = "ok" => stored'[f] = {}
         /\ kind = "read" =>
              /\ stored' = stored
              /\ reply = "ok" => s \in stored[f]
              /\ reply = "not_found" => s \notin stored[f]
              /\ s \in Healthy => reply # "error"
<1>1. CASE kind = "write"
  <2>1. PICK kept \in SUBSET (holders \cap up) :
          /\ stored' = [stored EXCEPT ![f] = @ \cup kept]
          /\ reply = IF kept = holders THEN "ok" ELSE "error"
    BY <1>1 DEF Handle, Write
  <2> QED
    BY <1>1, <2>1 DEF Types
<1>2. CASE kind = "delete"
  <2>1. CASE UNCHANGED stored /\ reply = "not_found"
    BY <1>2, <2>1 DEF Types
  <2>2. CASE \E gone \in SUBSET (stored[f] \cap up) :
               /\ stored' = [stored EXCEPT ![f] = @ \ gone]
               /\ reply = IF gone = stored[f] THEN "ok" ELSE "error"
    BY <1>2, <2>2 DEF Types
  <2> QED
    BY <1>2, <2>1, <2>2 DEF Handle, Delete
<1>3. CASE kind = "read"
  BY <1>3 DEF Handle, Read, Types
<1> QED
  BY <1>1, <1>2, <1>3

-----------------------------------------------------------------------------
(* The invariant is inductive: one lemma per action.                        *)

LEMMA StartStep ==
  ASSUME IndInv, NEW c \in Clients, NEW kind \in Kinds, NEW f \in Fids,
         Start(c, kind, f)
  PROVE  LET k == op'[c] IN
         /\ Idle(c)
         /\ op' = [op EXCEPT ![c] = k]
         /\ \A d \in Clients \ {c} : op'[d] = op[d]
         /\ kind # "write" => f \in acked
         /\ deleting' = IF kind = "delete" THEN deleting \cup {f} ELSE deleting
         /\ UNCHANGED <<cluster, acked, deleted, moves>>
         /\ k \in Frames
         /\ k.kind = kind /\ k.stage = "master" /\ k.fid = f /\ k.locs = <<>>
         /\ k.start = 0 /\ k.offset = 0 /\ k.asked = {}
         /\ k.reply = "none" /\ k.result = "none" /\ k.epoch = 0
         /\ k.gone = (f \in deleted)
<1> DEFINE gone == f \in deleted
           k == Called(f, kind, gone)
<1>1. /\ Idle(c)
      /\ op' = [op EXCEPT ![c] = k]
      /\ kind # "write" => f \in acked
      /\ deleting' = IF kind = "delete" THEN deleting \cup {f} ELSE deleting
      /\ UNCHANGED <<cluster, acked, deleted, moves>>
  BY DEF Start, Called
<1>2. gone \in BOOLEAN /\ (gone => f \in deleted)
  OBVIOUS
<1> HIDE DEF gone
<1>3. /\ k \in Frames
      /\ k.kind = kind /\ k.stage = "master" /\ k.fid = f /\ k.locs = <<>>
      /\ k.start = 0 /\ k.offset = 0 /\ k.asked = {}
         /\ k.reply = "none" /\ k.result = "none" /\ k.epoch = 0 /\ k.gone = gone
  BY <1>2, CalledType
<1> HIDE DEF k
<1>4. /\ op'[c] = k
      /\ \A d \in Clients \ {c} : op'[d] = op[d]
  BY <1>1 DEF IndInv, Types
<1> QED
  BY <1>1, <1>3, <1>4 DEF gone

LEMMA StartInv ==
  ASSUME IndInv, NEW c \in Clients, NEW kind \in Kinds, NEW f \in Fids,
         Start(c, kind, f)
  PROVE  IndInv'
<1> DEFINE k == op'[c]
<1>1. /\ op' = [op EXCEPT ![c] = k]
      /\ kind # "write" => f \in acked
      /\ deleting' = IF kind = "delete" THEN deleting \cup {f} ELSE deleting
      /\ UNCHANGED <<cluster, acked, deleted, moves>>
  BY StartStep
<1>2. \A d \in Clients \ {c} : op'[d] = op[d]
  BY StartStep
<1>3. /\ k \in Frames
      /\ k.kind = kind /\ k.stage = "master" /\ k.fid = f /\ k.locs = <<>>
      /\ k.start = 0 /\ k.offset = 0 /\ k.asked = {}
      /\ k.reply = "none" /\ k.result = "none" /\ k.epoch = 0
      /\ k.gone => f \in deleted
  <2>1. /\ k \in Frames
        /\ k.kind = kind /\ k.stage = "master" /\ k.fid = f /\ k.locs = <<>>
        /\ k.start = 0 /\ k.offset = 0 /\ k.asked = {}
        /\ k.reply = "none" /\ k.result = "none" /\ k.epoch = 0
        /\ k.gone = (f \in deleted)
    BY SMTT(30), StartStep
  <2> QED
    BY Zenon, <2>1
<1> HIDE DEF k
<1>4. op'[c] = k
  BY DEF k
<1>5. Types'
  BY <1>1, <1>3 DEF IndInv, Types, cluster
<1>6. Placed'
  BY <1>1 DEF IndInv, Placed, cluster
<1>7. ClientInv(c)'
  <2>1. Upload(c)' /\ Sweep(c)'
    BY <1>2, <1>3, <1>4 DEF Upload, Uploading, Sweep
  <2>3. Named(c)'
    BY <1>1, <1>2, <1>3, <1>4 DEF Named
  <2>2. Fresh(c)' /\ Evidence(c)' /\ Verdict(c)' /\ Served(c)'
    BY <1>1, <1>2, <1>3, <1>4
    DEF Fresh, Evidence, Verdict, Served, Returned, Listed, IndInv, Types
  <2> QED
    BY <2>1, <2>2, <2>3 DEF ClientInv
<1>8. ASSUME NEW d \in Clients \ {c} PROVE ClientInv(d)'
  <2>1. ~Uploading(c)'
    BY <1>2, <1>3, <1>4 DEF Uploading
  <2>2. Uploading(d) =>
          /\ op[d].fid \notin acked' /\ \A r \in late' : r.fid # op[d].fid
          /\ \A e \in Clients \ {d} : Uploading(e)' => op'[e].fid # op[d].fid
    BY <1>1, <1>2, <1>4, <2>1 DEF IndInv, ClientInv, Upload, Uploading, cluster
  <2> QED
    BY <1>1, <1>2, <1>4, <2>2, Undisturbed DEF IndInv, Types, cluster
<1> QED
  BY <1>5, <1>6, <1>7, <1>8 DEF IndInv

\* What the end of an attempt does to the operation.
LEMMA ConcludeStep ==
  ASSUME IndInv, NEW c \in Clients, op[c].stage = "sent", NEW outcome,
         Conclude(c, outcome),
         outcome \in {"Ok", "FileNotFound", Failed(op[c].kind)}
  PROVE  LET o == op[c]
             n == op'[c]
             f == op[c].fid
         IN
         /\ \/ /\ n \in Frames /\ n.stage = "done" /\ n.kind = o.kind /\ n.fid = f
               /\ n.epoch = o.epoch /\ n.gone = o.gone /\ n.locs = <<>>
               /\ \/ outcome \in {"Ok", "FileNotFound"} /\ n.result = outcome
                  \/ /\ outcome \notin {"Ok", "FileNotFound"}
                     /\ n.result = Failed(o.kind) /\ o.offset + 1 >= Attempts(c, o)
            \/ /\ n \in Frames /\ n.stage = "sent" /\ n.kind = o.kind /\ n.fid = f
               /\ n.epoch = o.epoch /\ n.gone = o.gone /\ n.locs = o.locs
               /\ n.start = o.start /\ n.offset = o.offset + 1 /\ n.reply = "none"
               /\ n.result = "none" /\ n.asked = o.asked \cup {Visit(o.locs, o.start, o.offset + 1)}
               /\ outcome \notin {"Ok", "FileNotFound"}
               /\ o.offset + 1 < Attempts(c, o)
         /\ \A d \in Clients \ {c} : op'[d] = op[d]
         /\ op' \in [Clients -> {op[d] : d \in Clients} \cup {n}]
<1> DEFINE o == op[c]
           n == op'[c]
           f == op[c].fid
<1>0. /\ o \in Frames /\ f \in Fids /\ o.locs \in Seq(Servers)
      /\ o.start \in Nat /\ o.offset \in Nat /\ o.kind \in {"write", "read", "delete"}
      /\ o.offset < Len(o.locs) /\ o.start < Len(o.locs) /\ o.result = "none"
  BY FrameFields DEF IndInv, Types, ClientInv, Sweep, Kinds, Locating
<1>2. /\ n = IF outcome \in {"Ok", "FileNotFound"}
             THEN Finish(o, outcome) ELSE NextReplica(c, o)
      /\ \A d \in Clients \ {c} : op'[d] = op[d]
      /\ op' \in [Clients -> {op[d] : d \in Clients} \cup {n}]
  BY DEF Conclude, IndInv, Types
<1>4. \/ /\ n \in Frames /\ n.stage = "done" /\ n.kind = o.kind /\ n.fid = f
         /\ n.epoch = o.epoch /\ n.gone = o.gone /\ n.locs = <<>>
         /\ \/ outcome \in {"Ok", "FileNotFound"} /\ n.result = outcome
            \/ /\ outcome \notin {"Ok", "FileNotFound"}
               /\ n.result = Failed(o.kind) /\ o.offset + 1 >= Attempts(c, o)
      \/ /\ n \in Frames /\ n.stage = "sent" /\ n.kind = o.kind /\ n.fid = f
         /\ n.epoch = o.epoch /\ n.gone = o.gone /\ n.locs = o.locs
         /\ n.start = o.start /\ n.offset = o.offset + 1 /\ n.reply = "none"
         /\ n.result = "none" /\ n.asked = o.asked \cup {Visit(o.locs, o.start, o.offset + 1)}
         /\ outcome \notin {"Ok", "FileNotFound"}
         /\ o.offset + 1 < Attempts(c, o)
  <2>1. CASE outcome \in {"Ok", "FileNotFound"}
    <3>1. outcome \in Results /\ o.kind \notin Locating
      BY <1>0, <2>1 DEF Results, Locating
    <3>2. n = Finish(o, outcome)
      BY <1>2, <2>1
    <3> HIDE DEF o, n
    <3> QED
      BY <1>0, <2>1, <3>1, <3>2, FinishFields DEF o
  <2>2. CASE outcome \notin {"Ok", "FileNotFound"}
    <3>1. o.kind \in Kinds \ Locating
      BY <1>0 DEF Kinds, Locating
    <3>2. Failed(o.kind) \in Results
      BY <3>1, FailedIsAResult
    <3>3. n = NextReplica(c, o)
      BY <1>2, <2>2
    <3> HIDE DEF o, n
    <3>4. CASE o.offset + 1 >= Attempts(c, o) /\ n = Finish(o, Failed(o.kind))
      BY <1>0, <2>2, <3>1, <3>2, <3>4, FinishFields DEF o
    <3> QED
      BY <1>0, <2>2, <3>1, <3>3, <3>4, NextReplicaFields DEF o
  <2> QED
    BY <2>1, <2>2
<1> QED
  BY <1>2, <1>4

\* An attempt ended with an outcome the reply, or its absence, stands for.
LEMMA ConcludeInv ==
  ASSUME IndInv, NEW c \in Clients, op[c].stage = "sent", NEW outcome,
         Conclude(c, outcome),
         outcome \in {"Ok", "FileNotFound", Failed(op[c].kind)},
         outcome = "Ok" => op[c].reply = "ok",
         outcome = "FileNotFound" => op[c].reply = "not_found",
         outcome \notin {"Ok", "FileNotFound"} =>
           \/ op[c].kind # "read" \/ op[c].fid \in deleting
           \/ Target(op[c]) \notin Healthy,
         \/ late' = late
         \/ /\ outcome = Failed(op[c].kind) /\ op[c].kind # "read"
            /\ late' = late \cup {[kind |-> op[c].kind, fid |-> op[c].fid,
                                   server |-> Target(op[c])]}
  PROVE  IndInv'
<1> DEFINE o == op[c]
           n == op'[c]
           f == op[c].fid
<1>0. /\ o \in Frames /\ f \in Fids /\ o.locs \in Seq(Servers)
      /\ o.start \in Nat /\ o.offset \in Nat /\ o.kind \in {"write", "read", "delete"}
      /\ o.offset < Len(o.locs) /\ o.start < Len(o.locs) /\ o.result = "none"
      /\ o.asked = {Visit(o.locs, o.start, i) : i \in 0 .. o.offset}
  BY FrameFields DEF IndInv, Types, ClientInv, Sweep, Kinds, Locating
<1>1. /\ Target(o) = Visit(o.locs, o.start, o.offset) /\ Target(o) \in Servers
  BY <1>0, VisitListed DEF Target, Visit
<1>2. /\ \A d \in Clients \ {c} : op'[d] = op[d]
      /\ op' \in [Clients -> {op[d] : d \in Clients} \cup {n}]
  BY ConcludeStep
<1>3. /\ acked' = IF o.kind = "write" /\ outcome = "Ok" THEN acked \cup {f} ELSE acked
      /\ deleted' = IF o.kind = "delete" /\ outcome = "Ok"
                    THEN deleted \cup {f} ELSE deleted
      /\ UNCHANGED <<up, holders, stored, assigned, deleting, moves>>
  BY DEF Conclude, counts
<1>4. \/ /\ n \in Frames /\ n.stage = "done" /\ n.kind = o.kind /\ n.fid = f
         /\ n.epoch = o.epoch /\ n.gone = o.gone /\ n.locs = <<>>
         /\ \/ outcome \in {"Ok", "FileNotFound"} /\ n.result = outcome
            \/ /\ outcome \notin {"Ok", "FileNotFound"}
               /\ n.result = Failed(o.kind) /\ o.offset + 1 >= Attempts(c, o)
      \/ /\ n \in Frames /\ n.stage = "sent" /\ n.kind = o.kind /\ n.fid = f
         /\ n.epoch = o.epoch /\ n.gone = o.gone /\ n.locs = o.locs
         /\ n.start = o.start /\ n.offset = o.offset + 1 /\ n.reply = "none"
         /\ n.result = "none" /\ n.asked = o.asked \cup {Visit(o.locs, o.start, o.offset + 1)}
         /\ outcome \notin {"Ok", "FileNotFound"}
         /\ o.offset + 1 < Attempts(c, o)
  BY ConcludeStep
<1>5. Attempts(c, o) \in Nat /\ Len(o.locs) \in Nat /\ Attempts(c, o) <= Len(o.locs)
  BY <1>0 DEF Attempts
<1>6. n.stage = "sent" => o.kind # "write"
  <2>1. o.kind = "write" => Len(o.locs) = 1
    BY DEF IndInv, ClientInv, Upload, Uploading
  <2>2. n.stage = "sent" => o.offset + 1 < Attempts(c, o)
    BY <1>4
  <2> DEFINE a == Attempts(c, o)  m == Len(o.locs)  x == o.offset
  <2>3. a \in Nat /\ m \in Nat /\ x \in Nat /\ a <= m
    BY <1>0, <1>5
  <2> HIDE DEF a, m, x
  <2>4. x + 1 < a => m # 1
    BY <2>3
  <2> QED
    BY <2>1, <2>2, <2>4 DEF a, m, x
<1>7. o.kind = "write" => f \notin acked /\ f \notin deleting /\ f \in assigned
  BY DEF IndInv, Types, ClientInv, Upload, Uploading
<1>8. /\ o.kind # "write" => f \in acked
      /\ o.kind = "delete" => f \in deleting
      /\ o.gone => (o.kind # "write" => f \in deleted)
  BY DEF IndInv, ClientInv, Named
<1>9. Types'
  <2>1. op' \in [Clients -> Frames]
    BY <1>2, <1>4 DEF IndInv, Types
  <2>2. late' \subseteq [kind : {"write", "delete"}, fid : Fids, server : Servers]
    BY <1>0, <1>1 DEF IndInv, Types
  <2> QED
    BY <1>3, <1>7, <1>8, <2>1, <2>2 DEF IndInv, Types
<1>10. Placed'
  <2>1. \A g \in acked' \ deleting' : stored'[g] = holders'
    BY <1>3 DEF IndInv, Placed, ClientInv, Upload, Uploading
  <2>2. \A g \in deleted' : stored'[g] = {}
    BY <1>3 DEF IndInv, Placed, ClientInv, Evidence
  <2>3. ASSUME NEW r \in late'
        PROVE  /\ r.kind = "write" => r.fid \in assigned' \ acked'
               /\ r.kind = "delete" => r.fid \in deleting'
    <3>1. CASE r \in late
      BY <1>3, <3>1 DEF IndInv, Placed, ClientInv, Upload, Uploading
    <3>2. CASE r \notin late
      <4>1. /\ outcome = Failed(o.kind) /\ o.kind # "read"
            /\ r = [kind |-> o.kind, fid |-> f, server |-> Target(o)]
        BY <3>2
      <4>2. acked' = acked
        BY <1>0, <1>3, <4>1, FailedIsAResult DEF Kinds, Locating
      <4> QED
        BY <1>0, <1>3, <1>7, <1>8, <4>1, <4>2
    <3> QED
      BY <3>1, <3>2
  <2> QED
    BY <2>1, <2>2, <2>3 DEF Placed
<1>11. ClientInv(c)'
  <2>1. Upload(c)'
    BY <1>4, <1>6 DEF Upload, Uploading
  <2>2. Named(c)'
    BY <1>3, <1>4, <1>8 DEF Named
  <2>3. Sweep(c)'
    <3>1. CASE n.stage = "done"
      BY <3>1 DEF Sweep
    <3>2. CASE n.stage = "sent"
      <4>1. 0 .. (o.offset + 1) = (0 .. o.offset) \cup {o.offset + 1}
        BY <1>0
      <4>2. n.asked = {Visit(n.locs, n.start, i) : i \in 0 .. n.offset}
        BY <1>0, <1>4, <3>2, <4>1
      <4>3. n.offset < Len(n.locs)
        BY <1>0, <1>4, <1>5, <3>2 DEF Attempts
      <4> QED
        BY <1>0, <1>4, <3>2, <4>2, <4>3 DEF Sweep, Locating
    <3> QED
      BY <1>4, <3>1, <3>2
  <2>4. Fresh(c)'
    <3>1. Listed(<<>>) = {}
      BY DEF Listed
    <3> QED
      BY <1>3, <1>4, <3>1 DEF IndInv, ClientInv, Fresh
  <2>5. Evidence(c)'
    BY <1>4 DEF Evidence
  <2>6. Verdict(c)'
    <3>1. o.kind = "read" => Failed(o.kind) \notin {"Ok", "FileNotFound"}
      BY FailedIsAResult DEF Kinds, Locating
    <3> QED
      BY <1>3, <1>4, <3>1 DEF IndInv, ClientInv, Evidence, Verdict, Returned
  <2>7. Served(c)'
    <3> SUFFICES ASSUME o.kind = "read", f \notin deleting PROVE Served(c)'
      BY <1>3, <1>4 DEF Served
    <3>1. /\ Healthy \subseteq Listed(o.locs)
          /\ \A i \in 0 .. o.offset - 1 : Visit(o.locs, o.start, i) \notin Healthy
      BY DEF IndInv, ClientInv, Served
    <3>2. outcome \notin {"Ok", "FileNotFound"} =>
            \A i \in 0 .. o.offset : Visit(o.locs, o.start, i) \notin Healthy
      BY <1>0, <1>1, <3>1
    <3>3. CASE n.stage = "sent"
      BY <1>0, <1>4, <3>1, <3>2, <3>3 DEF Served
    <3>4. CASE n.stage = "done" /\ outcome \in {"Ok", "FileNotFound"}
      BY <1>3, <1>4, <3>4 DEF Served, IndInv, ClientInv, Evidence
    <3>5. CASE n.stage = "done" /\ outcome \notin {"Ok", "FileNotFound"}
      <4>1. CASE c \in Native
        BY <1>4, <3>5, <4>1 DEF Served
      <4>2. CASE c \notin Native
        <5>1. o.offset = Len(o.locs) - 1
          BY <1>0, <1>4, <3>5, <4>2 DEF Attempts
        <5>2. Listed(o.locs) = {Visit(o.locs, o.start, i) : i \in 0 .. o.offset}
          BY <1>0, <5>1, VisitAll
        <5>3. Healthy = {}
          BY <3>1, <3>2, <3>5, <5>2
        <5> QED
          BY <1>4, <3>5, <5>3 DEF Served
      <4> QED
        BY <4>1, <4>2
    <3> QED
      BY <1>4, <3>3, <3>4, <3>5
  <2> QED
    BY <2>1, <2>2, <2>3, <2>4, <2>5, <2>6, <2>7 DEF ClientInv
<1>12. ASSUME NEW d \in Clients \ {c} PROVE ClientInv(d)'
  <2>1. Uploading(d) =>
          /\ op[d].fid \notin acked' /\ \A r \in late' : r.fid # op[d].fid
          /\ \A e \in Clients \ {d} : Uploading(e)' => op'[e].fid # op[d].fid
    <3> SUFFICES ASSUME Uploading(d)
                 PROVE  /\ op[d].fid \notin acked' /\ \A r \in late' : r.fid # op[d].fid
                        /\ \A e \in Clients \ {d} : Uploading(e)' => op'[e].fid # op[d].fid
      OBVIOUS
    <3>1. /\ op[d].fid \notin acked /\ op[d].fid \notin deleting
          /\ \A r \in late : r.fid # op[d].fid
          /\ \A e \in Clients \ {d} : Uploading(e) => op[e].fid # op[d].fid
      BY DEF IndInv, Types, ClientInv, Upload
    <3>2. f # op[d].fid
      BY <1>8, <3>1 DEF Uploading
    <3>3. \A e \in Clients : Uploading(e)' => Uploading(e) /\ op'[e].fid = op[e].fid
      BY <1>2, <1>4, <1>6 DEF Uploading
    <3> QED
      BY <1>3, <3>1, <3>2, <3>3
  <2> QED
    BY <1>2, <1>3, <2>1, Undisturbed DEF IndInv, Types
<1> QED
  BY <1>9, <1>10, <1>11, <1>12 DEF IndInv

LEMMA ReceiveInv ==
  ASSUME IndInv, NEW c \in Clients, Receive(c)
  PROVE  IndInv'
<1> DEFINE outcome == Outcome(op[c].kind, op[c].reply)
<1>1. op[c] \in Frames /\ op[c].stage = "sent" /\ Conclude(c, outcome) /\ late' = late
  BY DEF Receive, IndInv, Types
<1>2. op[c].reply \in Replies
  BY <1>1, FrameFields DEF Receive
<1>3. /\ outcome \in {"Ok", "FileNotFound", Failed(op[c].kind)}
      /\ outcome = "FileNotFound" => op[c].reply = "not_found" \/ outcome = Failed(op[c].kind)
      /\ outcome = "Ok" => op[c].reply = "ok" \/ outcome = Failed(op[c].kind)
      /\ outcome \notin {"Ok", "FileNotFound"} => op[c].reply # "ok"
  BY DEF Outcome
<1>4. op[c].kind \in Kinds \ Locating
  BY <1>1, FrameFields DEF IndInv, ClientInv, Sweep
<1>5. Failed(op[c].kind) \notin {"Ok", "FileNotFound"}
  BY <1>4, FailedIsAResult
<1>6. outcome \notin {"Ok", "FileNotFound"} =>
        \/ op[c].kind # "read" \/ op[c].fid \in deleting
        \/ Target(op[c]) \notin Healthy
  BY <1>1, <1>2, <1>3 DEF IndInv, ClientInv, Served, Visit, Target, Replies
<1> HIDE DEF outcome
<1> QED
  BY <1>1, <1>3, <1>5, <1>6, ConcludeInv

LEMMA TimeOutInv ==
  ASSUME IndInv, NEW c \in Clients, TimeOut(c)
  PROVE  IndInv'
<1>1. op[c] \in Frames /\ op[c].stage = "sent" /\ Conclude(c, Failed(op[c].kind))
  BY DEF TimeOut, IndInv, Types
<1>2. op[c].kind \in Kinds \ Locating
  BY <1>1, FrameFields DEF IndInv, ClientInv, Sweep
<1>3. Failed(op[c].kind) \notin {"Ok", "FileNotFound"}
  BY <1>2, FailedIsAResult
<1>4. \/ late' = late
      \/ /\ op[c].kind # "read"
         /\ late' = late \cup {[kind |-> op[c].kind, fid |-> op[c].fid,
                                server |-> Target(op[c])]}
  BY DEF TimeOut
<1>5. Target(op[c]) \notin Healthy
  BY DEF TimeOut
<1> QED
  BY <1>1, <1>3, <1>4, <1>5, ConcludeInv

\* The step ends an operation that waited for the master, or answers it without
\* naming a replica to go to.
LEMMA MasterFailsInv ==
  ASSUME IndInv, NEW c \in Clients, MasterFails(c)
  PROVE  IndInv'
<1> DEFINE n == op'[c]
<1>1. /\ op[c] \in Frames /\ op[c].stage = "master" /\ op[c].locs = <<>>
  BY DEF MasterFails, IndInv, Types, ClientInv, Sweep
<1>2. /\ n = Finish(op[c], "MasterFailed")
      /\ op' = [op EXCEPT ![c] = n]
      /\ \A d \in Clients \ {c} : op'[d] = op[d]
      /\ UNCHANGED <<cluster, acked, deleting, deleted, moves>>
  BY DEF MasterFails, IndInv, Types, counts
<1>3. /\ n \in Frames
      /\ n.kind = op[c].kind /\ n.fid = op[c].fid /\ n.epoch = op[c].epoch
      /\ n.gone = op[c].gone /\ n.stage = "done" /\ n.result = "MasterFailed"
      /\ n.locs = <<>>
  BY <1>1, <1>2, FinishFields DEF Results
<1> HIDE DEF n
<1>4. Types'
  BY <1>2, <1>3 DEF IndInv, Types, cluster
<1>5. Placed'
  BY <1>2 DEF IndInv, Placed, cluster
<1>6. ClientInv(c)'
  <2>1. Upload(c)' /\ Sweep(c)' /\ Evidence(c)' /\ Verdict(c)' /\ Served(c)'
    BY <1>3 DEF n, Upload, Uploading, Sweep, Evidence, Verdict, Returned, Served
  <2>2. Named(c)'
    BY <1>1, <1>2, <1>3 DEF n, Named, IndInv, ClientInv
  <2>3. Fresh(c)'
    BY <1>1, <1>2, <1>3 DEF n, Fresh, IndInv, ClientInv, cluster
  <2> QED
    BY <2>1, <2>2, <2>3 DEF ClientInv
<1>7. ASSUME NEW d \in Clients \ {c} PROVE ClientInv(d)'
  <2>1. ~Uploading(c)'
    BY <1>3 DEF n, Uploading
  <2>2. Uploading(d) =>
          /\ op[d].fid \notin acked' /\ \A r \in late' : r.fid # op[d].fid
          /\ \A e \in Clients \ {d} : Uploading(e)' => op'[e].fid # op[d].fid
    BY <1>2, <2>1 DEF IndInv, ClientInv, Upload, Uploading, cluster
  <2> QED
    BY <1>2, <2>2, Undisturbed DEF IndInv, Types, cluster
<1> QED
  BY <1>4, <1>5, <1>6, <1>7 DEF IndInv

\* The upload goes out to the server the master named.
LEMMA AssignedStep ==
  ASSUME IndInv, NEW c \in Clients, NEW s \in holders, NEW f \in Fids,
         Assigned(c, s, f)
  PROVE  LET p == op[c]
             n == op'[c]
         IN
         /\ p.stage = "master" /\ p.kind = "write" /\ p.result = "none"
         /\ f \notin assigned /\ f \notin acked /\ s \in Servers
         /\ \A d \in Clients \ {c} : op'[d] = op[d]
         /\ op' = [op EXCEPT ![c] = n]
         /\ assigned' = assigned \cup {f}
         /\ UNCHANGED <<up, holders, stored, late, acked, deleting, deleted, moves>>
         /\ n \in Frames /\ n.kind = "write" /\ n.fid = f /\ n.epoch = p.epoch
         /\ n.locs = <<s>> /\ n.start = 0 /\ n.offset = 0 /\ n.result = "none"
         /\ n.stage = "sent" /\ n.reply = "none" /\ n.asked = {s}
<1> DEFINE p == op[c]
           o == AnsweredAssign(p, f, <<s>>)
           n == op'[c]
<1>1. /\ p \in Frames /\ p.stage = "master" /\ p.kind = "write"
      /\ p.result = "none" /\ p.start = 0 /\ p.offset = 0 /\ p.asked = {}
      /\ f \notin assigned /\ f \notin acked /\ s \in Servers
  BY DEF Assigned, IndInv, Types, ClientInv, Sweep
<1>2. /\ o \in Frames /\ o.kind = "write" /\ o.fid = f /\ o.locs = <<s>>
      /\ o.start = 0 /\ o.offset = 0 /\ o.epoch = p.epoch
      /\ o.asked = {} /\ o.gone = p.gone /\ o.result = "none"
  <2> DEFINE l == <<s>>
  <2>1. l \in Seq(Servers)
    BY <1>1
  <2> HIDE DEF p, l
  <2>2. o = AnsweredAssign(p, f, l)
    BY DEF l
  <2> HIDE DEF o
  <2>3. /\ o \in Frames /\ o.kind = p.kind /\ o.fid = f /\ o.locs = l
        /\ o.start = p.start /\ o.offset = p.offset /\ o.epoch = p.epoch
        /\ o.asked = p.asked /\ o.gone = p.gone /\ o.result = p.result
    BY <1>1, <2>1, <2>2, AssignFields
  <2> QED
    BY <1>1, <2>3 DEF l
<1>3. [p EXCEPT !.fid = f, !.locs = <<s>>] = o
  BY DEF AnsweredAssign
<1> HIDE DEF o
<1>4. Visit(<<s>>, 0, 0) = s /\ Len(<<s>>) = 1
  BY DEF Visit
<1>5. Target(o) = s
  BY <1>2, <1>4 DEF Target, Visit
<1>6. /\ n = Send(o)
      /\ \A d \in Clients \ {c} : op'[d] = op[d]
      /\ op' = [op EXCEPT ![c] = n]
      /\ assigned' = assigned \cup {f}
      /\ UNCHANGED <<up, holders, stored, late, acked, deleting, deleted, moves>>
  BY <1>3 DEF Assigned, IndInv, Types, counts
<1>7. /\ n \in Frames /\ n.kind = "write" /\ n.fid = f /\ n.epoch = p.epoch
      /\ n.locs = <<s>> /\ n.start = 0 /\ n.offset = 0 /\ n.result = "none"
      /\ n.stage = "sent" /\ n.reply = "none" /\ n.asked = {s}
  BY <1>1, <1>2, <1>5, <1>6, SendFields
<1> QED
  BY <1>1, <1>6, <1>7

\* A fresh file id is in no late request, and on no server.
LEMMA AssignedInv ==
  ASSUME IndInv, NEW c \in Clients, NEW s \in holders, NEW f \in Fids,
         Assigned(c, s, f)
  PROVE  IndInv'
<1> DEFINE p == op[c]
           n == op'[c]
<1>1. f \notin assigned /\ f \notin acked /\ s \in Servers
  BY AssignedStep
<1>4. Visit(<<s>>, 0, 0) = s /\ Len(<<s>>) = 1
  BY DEF Visit
<1>6. /\ \A d \in Clients \ {c} : op'[d] = op[d]
      /\ op' = [op EXCEPT ![c] = n]
      /\ assigned' = assigned \cup {f}
      /\ UNCHANGED <<up, holders, stored, late, acked, deleting, deleted, moves>>
  BY AssignedStep
<1>7. /\ n \in Frames /\ n.kind = "write" /\ n.fid = f /\ n.epoch = p.epoch
      /\ n.locs = <<s>> /\ n.start = 0 /\ n.offset = 0 /\ n.result = "none"
      /\ n.stage = "sent" /\ n.reply = "none" /\ n.asked = {s}
  BY AssignedStep
<1> HIDE DEF p, n
<1>8. Types'
  BY <1>6, <1>7 DEF IndInv, Types
<1>9. Placed'
  BY <1>6 DEF IndInv, Placed
<1>10. \A r \in late : r.fid # f
  BY <1>1 DEF IndInv, Types, Placed
<1>11. \A d \in Clients \ {c} : Uploading(d) => op[d].fid # f
  BY <1>1 DEF IndInv, ClientInv, Upload
<1>12. ClientInv(c)'
  <2>1. Upload(c)'
    BY <1>1, <1>4, <1>6, <1>7, <1>10, <1>11 DEF n, Upload, Uploading
  <2>2. Sweep(c)'
    <3>1. {Visit(<<s>>, 0, i) : i \in 0 .. 0} = {s}
      BY <1>4
    <3> QED
      BY <1>4, <1>7, <3>1 DEF n, Sweep, Locating
  <2>3. Fresh(c)'
    BY <1>6, <1>7 DEF n, p, Fresh, IndInv, ClientInv
  <2>4. Named(c)' /\ Evidence(c)' /\ Verdict(c)' /\ Served(c)'
    BY <1>7 DEF n, Named, Evidence, Verdict, Returned, Served
  <2> QED
    BY <2>1, <2>2, <2>3, <2>4 DEF ClientInv
<1>13. ASSUME NEW d \in Clients \ {c} PROVE ClientInv(d)'
  <2>1. Uploading(d) =>
          /\ op[d].fid \notin acked' /\ \A r \in late' : r.fid # op[d].fid
          /\ \A e \in Clients \ {d} : Uploading(e)' => op'[e].fid # op[d].fid
    BY <1>6, <1>7, <1>11 DEF n, IndInv, ClientInv, Upload, Uploading
  <2> QED
    BY <1>6, <2>1, Undisturbed DEF IndInv, Types
<1> QED
  BY <1>8, <1>9, <1>12, <1>13 DEF IndInv

\* The listing is of this epoch and names every healthy replica.
LEMMA LookedUpStep ==
  ASSUME IndInv, NEW c \in Clients, NEW l \in Listings, LookedUp(c, l)
  PROVE  LET p == op[c]
             n == op'[c]
         IN
         /\ p.stage = "master" /\ p.kind # "write" /\ p.kind \in Kinds
         /\ l \in Seq(Servers) /\ Listed(l) \subseteq holders /\ Healthy \subseteq Listed(l)
         /\ \A d \in Clients \ {c} : op'[d] = op[d]
         /\ op' = [op EXCEPT ![c] = n]
         /\ UNCHANGED <<cluster, acked, deleting, deleted, moves>>
         /\ n \in Frames /\ n.kind = p.kind /\ n.fid = p.fid /\ n.epoch = moves
         /\ n.gone = p.gone
         /\ \/ n.stage = "done" /\ n.kind \in Locating /\ n.result = "Ok" /\ n.locs = l
            \/ n.stage = "done" /\ n.result = "NoReplicasAvailable" /\ l = <<>> /\ n.locs = <<>>
            \/ /\ n.stage = "sent" /\ n.kind \notin Locating /\ l # <<>>
               /\ n.locs = l /\ n.start \in Nat /\ n.start < Len(l) /\ n.offset = 0
               /\ n.reply = "none" /\ n.result = "none"
               /\ n.asked = {Visit(l, n.start, 0)}
<1> DEFINE p == op[c]
           o == AnsweredLookup(p, l, moves)
           n == op'[c]
<1>0. l \in Seq(Servers) /\ Listed(l) \subseteq holders /\ Healthy \subseteq Listed(l)
  BY ListingType DEF IndInv
<1>1. /\ p \in Frames /\ p.stage = "master" /\ p.kind # "write" /\ p.kind \in Kinds
      /\ p.result = "none" /\ p.start = 0 /\ p.offset = 0 /\ p.asked = {}
      /\ moves \in Nat /\ p.fid \in Fids
  <2>1. p \in Frames /\ moves \in Nat
    BY DEF IndInv, Types
  <2>2. o.stage = "master" /\ o.kind # "write"
    BY DEF LookedUp, AnsweredLookup
  <2>3. p.stage = "master" /\ p.kind # "write"
    BY <1>0, <2>1, <2>2, LookupFields
  <2> QED
    BY <2>1, <2>3, FrameFields DEF IndInv, ClientInv, Sweep
<1>3. /\ o \in Frames /\ o.kind = p.kind /\ o.fid = p.fid /\ o.locs = l
      /\ o.start = 0 /\ o.offset = 0 /\ o.epoch = moves
      /\ o.asked = {} /\ o.gone = p.gone /\ o.result = "none"
  <2> HIDE DEF p
  <2>1. /\ o \in Frames /\ o.kind = p.kind /\ o.fid = p.fid /\ o.locs = l
        /\ o.start = p.start /\ o.offset = p.offset /\ o.epoch = moves
        /\ o.asked = p.asked /\ o.gone = p.gone /\ o.result = p.result
    BY SMTT(30), <1>0, <1>1, LookupFields
  <2> QED
    BY <1>1, <2>1
<1>4. [p EXCEPT !.locs = l, !.epoch = moves] = o
  BY DEF AnsweredLookup
<1> HIDE DEF o
<1>5. /\ \/ n = Finish(o, "Ok") /\ o.kind \in Locating
         \/ n = Finish(o, "NoReplicasAvailable") /\ l = <<>>
         \/ /\ o.kind \notin Locating /\ l # <<>>
            /\ \E start \in Starts(c, o, Len(l)) : n = Send(From(o, start))
      /\ \A d \in Clients \ {c} : op'[d] = op[d]
      /\ op' = [op EXCEPT ![c] = n]
      /\ UNCHANGED <<cluster, acked, deleting, deleted, moves>>
  BY <1>4 DEF LookedUp, IndInv, Types, counts, Locating, From
<1>6. /\ n \in Frames /\ n.kind = p.kind /\ n.fid = p.fid /\ n.epoch = moves
      /\ n.gone = p.gone
      /\ \/ n.stage = "done" /\ n.kind \in Locating /\ n.result = "Ok" /\ n.locs = l
         \/ n.stage = "done" /\ n.result = "NoReplicasAvailable" /\ l = <<>> /\ n.locs = <<>>
         \/ /\ n.stage = "sent" /\ n.kind \notin Locating /\ l # <<>>
            /\ n.locs = l /\ n.start \in Nat /\ n.start < Len(l) /\ n.offset = 0
            /\ n.reply = "none" /\ n.result = "none"
            /\ n.asked = {Visit(l, n.start, 0)}
  <2>1. CASE n = Finish(o, "Ok") /\ o.kind \in Locating
    BY <1>3, <2>1, FinishFields DEF Results
  <2>2. CASE n = Finish(o, "NoReplicasAvailable") /\ l = <<>>
    BY <1>3, <2>2, FinishFields DEF Results
  <2>3. ASSUME o.kind \notin Locating, l # <<>>, NEW start \in Starts(c, o, Len(l)),
               n = Send(From(o, start))
        PROVE  /\ n \in Frames /\ n.kind = p.kind /\ n.fid = p.fid /\ n.epoch = moves
               /\ n.gone = p.gone /\ n.stage = "sent" /\ n.kind \notin Locating
               /\ n.locs = l /\ n.start \in Nat /\ n.start < Len(l) /\ n.offset = 0
               /\ n.reply = "none" /\ n.result = "none"
               /\ n.asked = {Visit(l, n.start, 0)}
    <3>1. Len(l) \in Nat /\ Len(l) > 0
      BY <1>0, <2>3
    <3>2. Hash[o.fid] \in Nat
      BY <1>3, HashAssumption DEF Frames
    <3>3. start \in Nat /\ start < Len(l)
      BY <2>3, <3>1, <3>2 DEF Starts
    <3> DEFINE e == From(o, start)
    <3>4. /\ e \in Frames /\ e.kind = p.kind /\ e.fid = p.fid /\ e.locs = l
          /\ e.start = start /\ e.offset = 0 /\ e.epoch = moves /\ e.asked = {}
          /\ e.gone = p.gone /\ e.result = "none"
      <4>1. /\ e \in Frames /\ e.kind = o.kind /\ e.fid = o.fid /\ e.locs = o.locs
            /\ e.start = start /\ e.offset = o.offset /\ e.epoch = o.epoch
            /\ e.asked = o.asked /\ e.gone = o.gone /\ e.result = o.result
        BY Zenon, <1>3, <3>3, FromFields
      <4> QED
        BY Zenon, <1>3, <4>1
    <3> HIDE DEF e
    <3>5. Target(e) = Visit(l, start, 0)
      BY <3>4 DEF Target, Visit
    <3>6. Target(e) \in Servers
      BY <1>0, <2>3, <3>3, <3>5, VisitListed
    <3>7. n = Send(e)
      BY <2>3 DEF e
    <3> HIDE DEF n, p
    <3> QED
      BY <1>3, <2>3, <3>3, <3>4, <3>5, <3>6, <3>7, SendFields
  <2> QED
    BY <1>5, <2>1, <2>2, <2>3
<1> QED
  BY <1>0, <1>1, <1>5, <1>6

LEMMA LookedUpInv ==
  ASSUME IndInv, NEW c \in Clients, NEW l \in Listings, LookedUp(c, l)
  PROVE  IndInv'
<1> DEFINE p == op[c]
           n == op'[c]
<1>0. l \in Seq(Servers) /\ Listed(l) \subseteq holders /\ Healthy \subseteq Listed(l)
  BY LookedUpStep
<1>1. p.stage = "master" /\ p.kind # "write" /\ p.kind \in Kinds
  BY LookedUpStep
<1>5. /\ \A d \in Clients \ {c} : op'[d] = op[d]
      /\ op' = [op EXCEPT ![c] = n]
      /\ UNCHANGED <<cluster, acked, deleting, deleted, moves>>
  BY LookedUpStep
<1>6. /\ n \in Frames /\ n.kind = p.kind /\ n.fid = p.fid /\ n.epoch = moves
      /\ n.gone = p.gone
      /\ \/ n.stage = "done" /\ n.kind \in Locating /\ n.result = "Ok" /\ n.locs = l
         \/ n.stage = "done" /\ n.result = "NoReplicasAvailable" /\ l = <<>> /\ n.locs = <<>>
         \/ /\ n.stage = "sent" /\ n.kind \notin Locating /\ l # <<>>
            /\ n.locs = l /\ n.start \in Nat /\ n.start < Len(l) /\ n.offset = 0
            /\ n.reply = "none" /\ n.result = "none"
            /\ n.asked = {Visit(l, n.start, 0)}
  BY LookedUpStep
<1> HIDE DEF n, p
<1>7. Types'
  BY <1>5, <1>6 DEF IndInv, Types, cluster
<1>8. Placed'
  BY <1>5 DEF IndInv, Placed, cluster
<1>9. ClientInv(c)'
  <2>1. Upload(c)' /\ Evidence(c)' /\ Verdict(c)'
    BY <1>1, <1>6 DEF n, Upload, Uploading, Evidence, Verdict, Returned, Locating
  <2>2. Named(c)'
    BY <1>1, <1>5, <1>6 DEF n, p, Named, IndInv, ClientInv
  <2>3. Sweep(c)'
    BY <1>6 DEF n, Sweep
  <2>4. Fresh(c)'
    <3>1. Listed(<<>>) = {}
      BY DEF Listed
    <3>2. holders' = holders /\ moves' = moves /\ moves \in Nat
      BY <1>5 DEF cluster, IndInv, Types
    <3> QED
      BY <1>1, <1>0, <1>6, <3>1, <3>2 DEF n, Fresh
  <2>5. Served(c)'
    <3>1. l = <<>> => Healthy = {}
      BY <1>0 DEF Listed
    <3> QED
      BY <1>1, <1>0, <1>6, <3>1 DEF n, Served
  <2> QED
    BY <2>1, <2>2, <2>3, <2>4, <2>5 DEF ClientInv
<1>10. ASSUME NEW d \in Clients \ {c} PROVE ClientInv(d)'
  <2>1. Uploading(d) =>
          /\ op[d].fid \notin acked' /\ \A r \in late' : r.fid # op[d].fid
          /\ \A e \in Clients \ {d} : Uploading(e)' => op'[e].fid # op[d].fid
    BY <1>1, <1>5, <1>6 DEF n, IndInv, ClientInv, Upload, Uploading, cluster
  <2> QED
    BY <1>5, <2>1, Undisturbed DEF IndInv, Types, cluster
<1> QED
  BY <1>7, <1>8, <1>9, <1>10 DEF IndInv

\* A reply sets nothing but the frame's reply.
LEMMA ReplyFields ==
  ASSUME NEW o \in Frames, NEW reply \in Replies, NEW e,
         e = [o EXCEPT !.reply = reply]
  PROVE  /\ e \in Frames
         /\ e.kind = o.kind /\ e.stage = o.stage /\ e.fid = o.fid /\ e.locs = o.locs
         /\ e.start = o.start /\ e.offset = o.offset /\ e.reply = reply
         /\ e.result = o.result /\ e.asked = o.asked /\ e.epoch = o.epoch
         /\ e.gone = o.gone
  BY DEF Frames

LEMMA ServeInv ==
  ASSUME IndInv, NEW c \in Clients, Serve(c)
  PROVE  IndInv'
<1> DEFINE o == op[c]
           n == op'[c]
           f == op[c].fid
           s == Target(op[c])
<1>1. PICK reply \in Replies :
        /\ Handle(o.kind, s, f, reply)
        /\ op' = [op EXCEPT ![c].reply = reply]
  BY DEF Serve
<1>2. /\ o \in Frames /\ f \in Fids /\ o.stage = "sent" /\ o.start \in Nat
      /\ o.offset \in Nat /\ o.locs \in Seq(Servers) /\ o.locs # <<>>
      /\ o.kind \in {"write", "delete", "read"}
      /\ UNCHANGED <<up, holders, late, assigned, acked, deleting, deleted, moves>>
  BY FrameFields DEF Serve, IndInv, Types, ClientInv, Sweep, Kinds, Locating, counts
<1>3. s = Visit(o.locs, o.start, o.offset) /\ s \in Servers /\ s \in Listed(o.locs)
  BY <1>2, VisitListed DEF Target, Visit
<1>4. /\ n = [o EXCEPT !.reply = reply]
      /\ \A d \in Clients \ {c} : op'[d] = op[d]
      /\ op' \in [Clients -> {op[d] : d \in Clients} \cup {n}]
  BY <1>1 DEF IndInv, Types
<1>5. /\ n \in Frames /\ n.kind = o.kind /\ n.stage = "sent" /\ n.fid = f
      /\ n.locs = o.locs /\ n.start = o.start /\ n.offset = o.offset
      /\ n.reply = reply /\ n.result = o.result /\ n.asked = o.asked
      /\ n.epoch = o.epoch /\ n.gone = o.gone
  <2> HIDE DEF o, n
  <2> QED
    BY <1>2, <1>4, ReplyFields DEF o
<1>6. /\ stored' \in [Fids -> SUBSET holders]
      /\ \A g \in Fids \ {f} : stored'[g] = stored[g]
      /\ o.kind = "write" =>
           /\ stored[f] \subseteq stored'[f] /\ reply # "not_found"
           /\ reply = "ok" => stored'[f] = holders
      /\ o.kind = "delete" =>
           /\ stored'[f] \subseteq stored[f]
           /\ reply = "ok" => stored'[f] = {}
      /\ o.kind = "read" =>
           /\ stored' = stored
           /\ reply = "ok" => s \in stored[f]
           /\ reply = "not_found" => s \notin stored[f]
           /\ s \in Healthy => reply # "error"
  <2> DEFINE k == o.kind
  <2>1. /\ Handle(k, s, f, reply) /\ k \in {"write", "delete", "read"} /\ f \in Fids
        /\ s \in Servers
    BY <1>1, <1>2, <1>3
  <2> HIDE DEF k, f, s
  <2>2. /\ stored' \in [Fids -> SUBSET holders]
        /\ \A g \in Fids \ {f} : stored'[g] = stored[g]
        /\ k = "write" =>
             /\ stored[f] \subseteq stored'[f] /\ reply # "not_found"
             /\ reply = "ok" => stored'[f] = holders
        /\ k = "delete" =>
             /\ stored'[f] \subseteq stored[f]
             /\ reply = "ok" => stored'[f] = {}
        /\ k = "read" =>
             /\ stored' = stored
             /\ reply = "ok" => s \in stored[f]
             /\ reply = "not_found" => s \notin stored[f]
             /\ s \in Healthy => reply # "error"
    BY <2>1, HandleStores DEF IndInv
  <2> QED
    BY <2>2 DEF k
<1>7. /\ o.kind = "write" => f \notin acked /\ f \in assigned
      /\ o.kind # "write" => f \in acked
      /\ o.kind = "delete" => f \in deleting
      /\ (o.kind # "write" /\ o.gone) => f \in deleted
  BY <1>2 DEF IndInv, ClientInv, Upload, Uploading, Named
<1>8. Types'
  BY <1>2, <1>4, <1>5, <1>6 DEF IndInv, Types
<1>9. Placed'
  <2>1. \A g \in acked' \ deleting' : stored'[g] = holders'
    BY <1>2, <1>6, <1>7 DEF IndInv, Placed, Types
  <2>2. \A g \in deleted' : stored'[g] = {}
    BY <1>2, <1>6, <1>7 DEF IndInv, Placed, Types
  <2> QED
    BY <1>2, <2>1, <2>2 DEF IndInv, Placed
<1>10. o.kind = "read" =>
         /\ reply = "ok" => ~o.gone
         /\ reply = "not_found" => f \in deleting \/ o.epoch # moves
         /\ (f \notin deleting /\ reply \in {"not_found", "error"}) => s \notin Healthy
  <2> SUFFICES ASSUME o.kind = "read"
               PROVE  /\ reply = "ok" => ~o.gone
                      /\ reply = "not_found" => f \in deleting \/ o.epoch # moves
                      /\ (f \notin deleting /\ reply \in {"not_found", "error"})
                           => s \notin Healthy
    OBVIOUS
  <2>1. /\ f \notin deleting => stored[f] = holders
        /\ f \in deleted => stored[f] = {}
    BY <1>7 DEF IndInv, Placed
  <2>2. o.epoch = moves => s \in holders
    BY <1>3 DEF IndInv, ClientInv, Fresh
  <2> QED
    BY <1>6, <1>7, <2>1, <2>2 DEF IndInv, Types
<1>11. ClientInv(c)'
  <2>1. Upload(c)'
    BY <1>2, <1>4, <1>5, <1>6 DEF IndInv, ClientInv, Upload, Uploading
  <2>2. Named(c)' /\ Sweep(c)' /\ Fresh(c)'
    BY <1>2, <1>5 DEF IndInv, ClientInv, Named, Sweep, Fresh
  <2>3. Evidence(c)'
    BY <1>2, <1>5, <1>6, <1>10 DEF Evidence
  <2>4. Verdict(c)'
    BY <1>5 DEF Verdict, Returned
  <2>5. Served(c)'
    BY <1>2, <1>3, <1>5, <1>10 DEF IndInv, ClientInv, Served
  <2> QED
    BY <2>1, <2>2, <2>3, <2>4, <2>5 DEF ClientInv
<1>12. ASSUME NEW d \in Clients \ {c} PROVE ClientInv(d)'
  <2>1. op[d].fid \in Fids
    BY FrameFields DEF IndInv, Types
  <2>2. Uploading(d) =>
          /\ op[d].fid \notin acked' /\ \A r \in late' : r.fid # op[d].fid
          /\ \A e \in Clients \ {d} : Uploading(e)' => op'[e].fid # op[d].fid
          /\ stored[op[d].fid] = holders => stored'[op[d].fid] = holders'
    <3> SUFFICES ASSUME Uploading(d)
                 PROVE  /\ op[d].fid \notin acked'
                        /\ \A r \in late' : r.fid # op[d].fid
                        /\ \A e \in Clients \ {d} :
                             Uploading(e)' => op'[e].fid # op[d].fid
                        /\ stored'[op[d].fid] = stored[op[d].fid]
      BY <1>2
    <3>1. /\ op[d].fid \notin acked /\ \A r \in late : r.fid # op[d].fid
          /\ \A e \in Clients \ {d} : Uploading(e) => op[e].fid # op[d].fid
      BY DEF IndInv, ClientInv, Upload
    <3>2. f # op[d].fid
      BY <1>2, <1>7, <3>1 DEF Uploading
    <3>3. Uploading(c)' => Uploading(c) /\ op'[c].fid = f
      BY <1>2, <1>5 DEF Uploading
    <3>4. \A e \in Clients \ {c} : Uploading(e)' => Uploading(e) /\ op'[e].fid = op[e].fid
      BY <1>4 DEF Uploading
    <3> QED
      BY <1>2, <1>6, <2>1, <3>1, <3>2, <3>3, <3>4
  <2>3. op[d].kind = "delete" =>
          (stored[op[d].fid] = {} => stored'[op[d].fid] = {})
    <3>1. (op[d].kind = "delete" /\ op[d].stage # "idle") => op[d].fid \in acked
      BY DEF IndInv, ClientInv, Named
    <3>2. op[d].kind = "delete" => op[d].stage # "idle"
      BY DEF IndInv, ClientInv, Sweep
    <3> QED
      BY <1>2, <1>6, <1>7, <2>1, <3>1, <3>2
  <2> QED
    BY <1>2, <1>4, <2>2, <2>3, Undisturbed DEF IndInv, Types
<1> QED
  BY <1>8, <1>9, <1>11, <1>12 DEF IndInv

\* A late request never changes a file that was written and is not to be deleted.
LEMMA ServeLateInv ==
  ASSUME IndInv, NEW r \in late, ServeLate(r)
  PROVE  IndInv'
<1>1. /\ r.kind \in {"write", "delete"} /\ r.fid \in Fids /\ r.server \in Servers
      /\ r.kind = "write" => r.fid \in assigned \ acked
      /\ r.kind = "delete" => r.fid \in deleting /\ r.fid \in acked
  BY DEF IndInv, Types, Placed
<1>2. /\ late' \subseteq late
      /\ UNCHANGED <<op, up, holders, assigned, acked, deleting, deleted, moves>>
  BY DEF ServeLate, counts
<1>3. PICK reply \in Replies : Handle(r.kind, r.server, r.fid, reply)
  BY DEF ServeLate
<1>4. /\ stored' \in [Fids -> SUBSET holders]
      /\ \A g \in Fids \ {r.fid} : stored'[g] = stored[g]
      /\ r.kind = "delete" => stored'[r.fid] \subseteq stored[r.fid]
  <2> DEFINE k == r.kind  f == r.fid  s == r.server
  <2>1. /\ k \in {"write", "delete", "read"} /\ f \in Fids /\ s \in Servers
        /\ Handle(k, s, f, reply)
    BY <1>1, <1>3
  <2> HIDE DEF k, f, s
  <2>2. /\ stored' \in [Fids -> SUBSET holders]
        /\ \A g \in Fids \ {f} : stored'[g] = stored[g]
        /\ k = "delete" => stored'[f] \subseteq stored[f]
    BY <2>1, HandleStores DEF IndInv
  <2> QED
    BY <2>2 DEF k, f
<1>5. Types'
  BY <1>2, <1>4 DEF IndInv, Types
<1>6. Placed'
  <2>1. \A g \in acked \ deleting : g # r.fid
    BY <1>1
  <2>2. \A g \in deleted : g \in Fids /\ stored[g] = {} /\ (g = r.fid => r.kind = "delete")
    BY <1>1 DEF IndInv, Types, Placed
  <2>3. \A g \in acked' \ deleting' : stored'[g] = holders'
    BY <1>2, <1>4, <2>1 DEF IndInv, Placed, Types
  <2>4. \A g \in deleted' : stored'[g] = {}
    BY <1>2, <1>4, <2>2
  <2> QED
    BY <1>2, <2>3, <2>4 DEF IndInv, Placed
<1>7. ASSUME NEW d \in Clients PROVE ClientInv(d)'
  <2>1. op[d].fid \in Fids
    BY FrameFields DEF IndInv, Types
  <2>2. Uploading(d) => /\ op[d].fid \notin acked /\ op[d].fid # r.fid
                        /\ \A q \in late : q.fid # op[d].fid
                        /\ \A e \in Clients \ {d} : Uploading(e) => op[e].fid # op[d].fid
    BY DEF IndInv, ClientInv, Upload
  <2>3. \A e \in Clients : Uploading(e)' => Uploading(e) /\ op'[e].fid = op[e].fid
    BY <1>2 DEF Uploading
  <2>4. Uploading(d) =>
          /\ op[d].fid \notin acked' /\ \A q \in late' : q.fid # op[d].fid
          /\ \A e \in Clients \ {d} : Uploading(e)' => op'[e].fid # op[d].fid
          /\ stored[op[d].fid] = holders => stored'[op[d].fid] = holders'
    BY <1>2, <1>4, <2>1, <2>2, <2>3
  <2>5. op[d].kind = "delete" =>
          (stored[op[d].fid] = {} => stored'[op[d].fid] = {})
    <3>1. op[d].kind = "delete" => op[d].fid \in acked
      BY DEF IndInv, ClientInv, Named, Sweep
    <3> QED
      BY <1>1, <1>4, <2>1, <3>1
  <2> QED
    BY <1>2, <2>4, <2>5, Undisturbed DEF IndInv, Types
<1> QED
  BY <1>5, <1>6, <1>7 DEF IndInv

\* Servers come and go without their files.
LEMMA UpInv ==
  ASSUME IndInv, NEW s \in Servers, Crash(s) \/ Restart(s)
  PROVE  IndInv'
<1>1. /\ up' \subseteq Servers
      /\ UNCHANGED <<op, holders, stored, late, assigned, acked, deleting, deleted, moves>>
  BY DEF Crash, Restart, IndInv, Types, counts
<1>2. Types' /\ Placed'
  BY <1>1 DEF IndInv, Types, Placed
<1>3. ASSUME NEW d \in Clients PROVE ClientInv(d)'
  BY <1>1 DEF IndInv, ClientInv, Upload, Uploading, Named, Sweep, Fresh, Evidence,
              Verdict, Returned, Served
<1> QED
  BY <1>2, <1>3 DEF IndInv

\* A replica moves with its files.
LEMMA MoveInv ==
  ASSUME IndInv, NEW s \in Servers, NEW t \in Servers, Move(s, t)
  PROVE  IndInv'
<1>1. /\ holders' = (holders \ {s}) \cup {t} /\ s \in holders /\ s \notin Healthy
      /\ moves \in Nat /\ moves' = moves + 1
      /\ UNCHANGED <<op, up, late, assigned, acked, deleting, deleted>>
      /\ stored \in [Fids -> SUBSET holders]
      /\ stored' \in [Fids -> SUBSET holders']
      /\ \A f \in Fids : /\ stored[f] = holders => stored'[f] = holders'
                         /\ stored[f] = {} => stored'[f] = {}
  BY DEF Move, IndInv, Types
<1>2. Types'
  BY <1>1 DEF IndInv, Types
<1>3. Placed'
  BY <1>1 DEF IndInv, Types, Placed
<1>4. ASSUME NEW d \in Clients PROVE ClientInv(d)'
  <2>1. op[d].fid \in Fids
    BY FrameFields DEF IndInv, Types
  <2>2. Uploading(d) =>
          /\ op[d].fid \notin acked' /\ \A q \in late' : q.fid # op[d].fid
          /\ \A e \in Clients \ {d} : Uploading(e)' => op'[e].fid # op[d].fid
    BY <1>1 DEF IndInv, ClientInv, Upload, Uploading
  <2> QED
    BY <1>1, <2>1, <2>2, Undisturbed DEF IndInv, Types
<1> QED
  BY <1>2, <1>3, <1>4 DEF IndInv

LEMMA StutterInv ==
  ASSUME IndInv, UNCHANGED vars
  PROVE  IndInv'
<1>1. UNCHANGED <<op, up, holders, stored, late, assigned, acked, deleting, deleted, moves>>
  BY DEF vars, cluster, counts
<1> QED
  BY <1>1 DEF IndInv, Types, Placed, ClientInv, Upload, Uploading, Named, Sweep, Fresh,
              Evidence, Verdict, Returned, Served

LEMMA StepInv ==
  ASSUME IndInv, [Next]_vars
  PROVE  IndInv'
<1>1. ASSUME NEW c \in Clients, Application(c) PROVE IndInv'
  BY <1>1, StartInv DEF Application
<1>2. ASSUME NEW c \in Clients, Master(c) PROVE IndInv'
  BY <1>2, MasterFailsInv, AssignedInv, LookedUpInv DEF Master
<1>3. ASSUME NEW c \in Clients, Volume(c) PROVE IndInv'
  BY <1>3, ReceiveInv, TimeOutInv DEF Volume
<1>4. ASSUME NEW c \in Clients, Serve(c) PROVE IndInv'
  BY <1>4, ServeInv
<1>5. ASSUME NEW r \in late, ServeLate(r) PROVE IndInv'
  BY <1>5, ServeLateInv
<1>6. ASSUME NEW s \in Servers, Crash(s) \/ Restart(s) PROVE IndInv'
  BY <1>6, UpInv
<1>7. ASSUME NEW s \in Servers, NEW t \in Servers, Move(s, t) PROVE IndInv'
  BY <1>7, MoveInv
<1>8. CASE UNCHANGED vars
  BY <1>8, StutterInv
<1> QED
  BY <1>1, <1>2, <1>3, <1>4, <1>5, <1>6, <1>7, <1>8 DEF Next

\* The state of the operations and the cluster is always as IndInv says.
THEOREM Invariance == Spec => []IndInv
<1>1. Init => IndInv
  BY InitInv
<1>2. IndInv /\ [Next]_vars => IndInv'
  BY StepInv
<1> QED
  BY <1>1, <1>2, PTL DEF Spec

-----------------------------------------------------------------------------
(* What follows from the invariant.                                         *)

\* Every variable keeps its type: frames are well-formed, an attempt goes to a
\* replica of the list, and only files that were handed out are known.
THEOREM TypeCorrect == Spec => []TypeOK
<1>1. IndInv => TypeOK
  <2> SUFFICES ASSUME IndInv PROVE TypeOK
    OBVIOUS
  <2>1. ASSUME NEW c \in Clients
        PROVE  /\ op[c].kind \in Kinds /\ op[c].fid \in Fids
               /\ op[c].stage \in {"idle", "master", "sent", "done"}
               /\ op[c].locs \in Seq(Servers) /\ op[c].asked \subseteq Servers
               /\ op[c].reply \in {"none"} \cup Replies /\ op[c].result \in Results
               /\ op[c].stage = "sent" => op[c].offset < Len(op[c].locs)
    <3>1. op[c] \in Frames
      BY DEF IndInv, Types
    <3> QED
      BY <3>1, FrameFields DEF IndInv, ClientInv, Sweep, Stages
  <2>2. /\ up \subseteq Servers /\ holders \subseteq Servers
        /\ stored \in [Fids -> SUBSET Servers]
        /\ late \subseteq [kind : {"write", "delete"}, fid : Fids, server : Servers]
        /\ deleted \subseteq deleting /\ deleting \subseteq acked /\ acked \subseteq assigned
    BY DEF IndInv, Types
  <2> QED
    BY <2>1, <2>2 DEF TypeOK
<1> QED
  BY <1>1, Invariance, PTL

\* A write that returned Ok has put its file on every replica, and crashes, moves
\* and late requests leave it there until its deletion is asked for.
THEOREM AckedWriteStays == Spec => []AckedWriteIsOnEveryReplica
<1>1. IndInv => AckedWriteIsOnEveryReplica
  BY DEF IndInv, Placed, AckedWriteIsOnEveryReplica
<1> QED
  BY <1>1, Invariance, PTL

\* No read that starts after a delete returned Ok finds the file.
THEOREM DeletedStaysDeleted == Spec => []DeletedFileIsNeverRead
<1>1. IndInv => DeletedFileIsNeverRead
  BY DEF IndInv, ClientInv, Verdict, DeletedFileIsNeverRead
<1> QED
  BY <1>1, Invariance, PTL

\* A read reports FileNotFound only of a file somebody deletes, or when the volume
\* moved after the master's answer.
THEOREM AbsenceIsReal == Spec => []AbsenceIsNeverInvented
<1>1. IndInv => AbsenceIsNeverInvented
  BY DEF IndInv, ClientInv, Verdict, AbsenceIsNeverInvented
<1> QED
  BY <1>1, Invariance, PTL

-----------------------------------------------------------------------------
(* Giving up.                                                               *)

\* The step in which a core client gives up without a definite answer is the end of
\* an attempt at the last replica of its list: by then it has asked all of them.
LEMMA GiveUpStep ==
  ASSUME IndInv, [Next]_vars, NEW c \in Clients \ Native, ~GaveUp(c), GaveUp(c)'
  PROVE  op[c].asked = Listed(op[c].locs)
<1> DEFINE o == op[c]
           n == op'[c]
<1>1. n.stage = "done" /\ o # n
      /\ \/ n.kind = "read" /\ n.result = "DownloadFailed"
         \/ n.kind = "delete" /\ n.result = "DeleteFailed"
  BY DEF GaveUp, Returned
<1>2. ASSUME NEW outcome, op[c].stage = "sent", Conclude(c, outcome),
             outcome \in {"Ok", "FileNotFound", Failed(op[c].kind)}
      PROVE  op[c].asked = Listed(op[c].locs)
  <2>1. n.result # "Ok" /\ n.result # "FileNotFound"
    BY <1>1
  <2>2. o.offset + 1 >= Attempts(c, o)
    BY <1>1, <1>2, <2>1, ConcludeStep
  <2>3. /\ o.locs \in Seq(Servers) /\ o.start \in Nat /\ o.offset \in Nat
        /\ o.offset < Len(o.locs) /\ o.start < Len(o.locs)
        /\ o.asked = {Visit(o.locs, o.start, i) : i \in 0 .. o.offset}
    BY <1>2, FrameFields DEF IndInv, Types, ClientInv, Sweep
  <2>4. o.offset = Len(o.locs) - 1
    BY <2>2, <2>3 DEF Attempts
  <2> QED
    BY <2>3, <2>4, VisitAll
<1>3. ASSUME NEW d \in Clients, Volume(d) PROVE op[c].asked = Listed(op[c].locs)
  <2>1. PICK outcome : /\ op[d].stage = "sent" /\ Conclude(d, outcome)
                       /\ outcome \in {"Ok", "FileNotFound", Failed(op[d].kind)}
    BY <1>3 DEF Volume, Receive, TimeOut, Outcome
  <2>2. d = c
    BY <1>1, <2>1, ConcludeStep
  <2> QED
    BY <1>2, <2>1, <2>2
<1>4. ASSUME NEW d \in Clients, Application(d) PROVE FALSE
  <2>1. PICK kind \in Kinds, f \in Fids : Start(d, kind, f)
    BY <1>4 DEF Application
  <2>2. op'[c] = op[c] \/ op'[c].stage = "master"
    BY <2>1, StartStep
  <2> QED
    BY <1>1, <2>2
<1>5. ASSUME NEW d \in Clients, Master(d) PROVE FALSE
  <2>1. ASSUME MasterFails(d) PROVE FALSE
    <3>1. op' = [op EXCEPT ![d] = Finish(op[d], "MasterFailed")] /\ op[d] \in Frames
      BY <2>1 DEF MasterFails, IndInv, Types
    <3>2. op'[c] = op[c] \/ op'[c].result = "MasterFailed"
      BY <3>1, FinishFields DEF IndInv, Types, Results
    <3> QED
      BY <1>1, <3>2
  <2>2. ASSUME NEW s \in holders, NEW f \in Fids, Assigned(d, s, f) PROVE FALSE
    <3>1. op'[c] = op[c] \/ op'[c].stage = "sent"
      BY <2>2 DEF Assigned, Send, IndInv, Types
    <3> QED
      BY <1>1, <3>1
  <2>3. ASSUME NEW l \in Listings, LookedUp(d, l) PROVE FALSE
    <3>1. op'[c] = op[c] \/ op'[c].stage = "sent"
                         \/ op'[c].result \in {"Ok", "NoReplicasAvailable"}
      BY <2>3, LookedUpStep
    <3> QED
      BY <1>1, <3>1
  <2> QED
    BY <1>5, <2>1, <2>2, <2>3 DEF Master
<1>6. ASSUME NEW d \in Clients, Serve(d) PROVE FALSE
  <2>1. op[d].stage = "sent" /\ (op'[c] = op[c] \/ (d = c /\ op'[c].stage = op[c].stage))
    BY <1>6 DEF Serve, IndInv, Types, Frames
  <2> QED
    BY <1>1, <2>1
<1>7. CASE UNCHANGED op
  BY <1>1, <1>7
<1> QED
  BY <1>3, <1>4, <1>5, <1>6, <1>7
  DEF Next, ServeLate, Crash, Restart, Move, vars

\* A read or delete of a core client that fails for want of an answer has asked
\* every replica the master listed (download_impl's and delete's loop).
THEOREM AsksEveryReplica == Spec => GivesUpOnlyAfterEveryReplica
<1>1. IndInv /\ [Next]_vars =>
        [\A c \in Clients \ Native :
           (~GaveUp(c) /\ GaveUp(c)') => op[c].asked = Listed(op[c].locs)]_vars
  BY GiveUpStep
<1> QED
  BY <1>1, Invariance, PTL DEF Spec, GivesUpOnlyAfterEveryReplica

-----------------------------------------------------------------------------
(* FileOps implements FileStore.                                            *)

AbsFile == [f \in Fids |-> Knowledge(f)]
AbsRequests == [c \in Clients |-> AbsRequest(op[c])]

\* What is known of a file of which these are so.
Known(isAcked, isDeleting, isDeleted) ==
  IF isDeleted THEN "deleted"
  ELSE IF isDeleting THEN "doubtful"
  ELSE IF isAcked THEN "written" ELSE "unwritten"

LEMMA KnowledgeIsKnown ==
  ASSUME NEW f, deleted \subseteq deleting, deleting \subseteq acked
  PROVE  Knowledge(f) = Known(f \in acked, f \in deleting, f \in deleted)
<1>1. CASE f \in deleted
  BY <1>1 DEF Knowledge, Known
<1>2. CASE f \notin deleted /\ f \in deleting
  BY <1>2 DEF Knowledge, Known
<1>3. CASE f \notin deleted /\ f \notin deleting /\ f \in acked
  BY <1>3 DEF Knowledge, Known
<1>4. CASE f \notin deleted /\ f \notin deleting /\ f \notin acked
  BY <1>4 DEF Knowledge, Known
<1> QED
  BY <1>1, <1>2, <1>3, <1>4

Requests ==
  [phase : {"none", "running", "ok", "not_found", "failed"}, kind : Kinds,
   fids : SUBSET Fids, gone : BOOLEAN, moved : BOOLEAN]

LEMMA AbsRequestType ==
  ASSUME NEW o \in Frames
  PROVE  AbsRequest(o) \in Requests
<1>1. AbsPhase(o) \in {"none", "running", "ok", "not_found", "failed"}
  BY DEF AbsPhase
<1> QED
  BY <1>1, FrameFields DEF AbsRequest, Requests

LEMMA EndFields ==
  ASSUME NEW r \in Requests, NEW phase
  PROVE  [r EXCEPT !.phase = phase, !.moved = FALSE] =
           [phase |-> phase, kind |-> r.kind, fids |-> r.fids,
            gone |-> r.gone, moved |-> FALSE]
<1> DEFINE e == [r EXCEPT !.phase = phase, !.moved = FALSE]
<1>1. DOMAIN e = {"phase", "kind", "fids", "gone", "moved"}
  BY DEF Requests
<1>2. /\ e.phase = phase /\ e.kind = r.kind /\ e.fids = r.fids
      /\ e.gone = r.gone /\ e.moved = FALSE
  BY DEF Requests
<1>3. e = [x \in DOMAIN e |-> e[x]]
  OBVIOUS
<1> HIDE DEF e
<1>4. e = [phase |-> phase, kind |-> r.kind, fids |-> r.fids, gone |-> r.gone,
           moved |-> FALSE]
  BY <1>1, <1>2, <1>3
<1> QED
  BY <1>4 DEF e

Ended(R, c, phase) == [R EXCEPT ![c].phase = phase, ![c].moved = FALSE]

\* A request that ends: only its phase changes, and no move matters any more.
LEMMA EndMaps ==
  ASSUME NEW R \in [Clients -> Requests], NEW S, NEW c \in Clients, NEW phase,
         S = [d \in Clients |-> S[d]],
         \A d \in Clients \ {c} : S[d] = R[d],
         S[c] = [phase |-> phase, kind |-> R[c].kind, fids |-> R[c].fids,
                 gone |-> R[c].gone, moved |-> FALSE]
  PROVE  S = Ended(R, c, phase)
<1>1. [R[c] EXCEPT !.phase = phase, !.moved = FALSE] = S[c]
  BY EndFields
<1>2. Ended(R, c, phase) = [d \in Clients |-> IF d = c THEN S[c] ELSE R[d]]
  BY <1>1 DEF Ended
<1> QED
  BY <1>2

\* What the application knows is unchanged by most steps.
LEMMA KnowledgeStays ==
  UNCHANGED <<acked, deleting, deleted>> => AbsFile' = AbsFile
  BY DEF AbsFile, Knowledge

LEMMA InitMaps == IndInv /\ Init => Store!Init
<1> SUFFICES ASSUME IndInv, Init PROVE Store!Init
  OBVIOUS
<1>1. ASSUME NEW f \in Fids PROVE Knowledge(f) = "unwritten"
  BY DEF Knowledge, Init
<1>2. ASSUME NEW c \in Clients
      PROVE  AbsRequest(op[c]) = Store!Request("none", "read", {}, FALSE)
  BY DEF Init, NoOp, AbsRequest, AbsPhase, Store!Request
<1> QED
  BY <1>1, <1>2 DEF Store!Init

LEMMA StartMaps ==
  ASSUME IndInv, NEW c \in Clients, NEW kind \in Kinds, NEW f \in Fids,
         Start(c, kind, f)
  PROVE  Store!Next
<1> DEFINE k == op'[c]
<1>1. /\ Idle(c) /\ k.kind = kind /\ k.stage = "master" /\ k.fid = f
      /\ k.result = "none" /\ k.gone = (f \in deleted)
      /\ \A d \in Clients \ {c} : op'[d] = op[d]
      /\ kind # "write" => f \in acked
      /\ deleting' = IF kind = "delete" THEN deleting \cup {f} ELSE deleting
      /\ UNCHANGED <<acked, deleted, moves>>
  BY StartStep
<1>2. AbsRequests[c].phase # "running"
  BY <1>1 DEF AbsRequests, AbsRequest, AbsPhase, Idle
<1>3. \A d \in Clients \ {c} : AbsRequests'[d] = AbsRequests[d]
  BY <1>1 DEF AbsRequests, AbsRequest
<1>4. CASE kind = "write"
  <2>1. AbsRequests'[c] = Store!Request("running", "write", {}, FALSE)
    BY <1>1, <1>4 DEF AbsRequests, AbsRequest, AbsPhase, Store!Request
  <2>2. AbsFile' = AbsFile
    BY <1>1, <1>4, KnowledgeStays
  <2>3. AbsRequests' = [AbsRequests EXCEPT ![c] = Store!Request("running", "write", {}, FALSE)]
    BY <1>3, <2>1 DEF AbsRequests
  <2>4. Store!BeginWrite(c)
    BY <1>2, <2>2, <2>3 DEF Store!BeginWrite, AbsFile, AbsRequests
  <2> QED
    BY <2>4 DEF Store!Next
<1>5. CASE kind # "write"
  <2> DEFINE gone == AbsFile[f] = "deleted"
  <2>1. gone <=> f \in deleted
    BY KnowledgeIsKnown DEF AbsFile, Known, IndInv, Types
  <2>2. AbsRequests'[c] = Store!Request("running", kind, {f}, gone)
    BY <1>1, <1>5, <2>1 DEF AbsRequests, AbsRequest, AbsPhase, Store!Request
  <2>3. AbsRequests' = [AbsRequests EXCEPT ![c] = Store!Request("running", kind, {f}, gone)]
    BY <1>3, <2>2 DEF AbsRequests
  <2>4. AbsFile[f] # "unwritten"
    BY <1>1, <1>5 DEF AbsFile, Knowledge
  <2>5. AbsFile' = [AbsFile EXCEPT ![f] =
                      IF kind = "delete" /\ @ = "written" THEN "doubtful" ELSE @]
    <3>1. CASE kind # "delete"
      <4>1. AbsFile' = AbsFile
        BY <1>1, <3>1, KnowledgeStays
      <4> QED
        BY <3>1, <4>1 DEF AbsFile
    <3>2. CASE kind = "delete"
      <4>1. ASSUME NEW g \in Fids \ {f} PROVE AbsFile'[g] = AbsFile[g]
        BY <1>1, <3>2 DEF AbsFile, Knowledge
      <4>2. AbsFile'[f] = IF AbsFile[f] = "written" THEN "doubtful" ELSE AbsFile[f]
        <5>1. CASE f \in deleted
          BY <1>1, <3>2, <5>1 DEF AbsFile, Knowledge, IndInv, Types
        <5>2. CASE f \notin deleted
          <6>1. AbsFile'[f] = "doubtful"
            BY <1>1, <3>2, <5>2 DEF AbsFile, Knowledge
          <6>2. AbsFile[f] \in {"written", "doubtful"}
            BY <1>1, <1>5, <5>2 DEF AbsFile, Knowledge
          <6> QED
            BY <6>1, <6>2
        <5> QED
          BY <5>1, <5>2
      <4>3. AbsFile' = [g \in Fids |-> AbsFile'[g]] /\ AbsFile = [g \in Fids |-> AbsFile[g]]
        BY DEF AbsFile
      <4> HIDE DEF AbsFile
      <4> QED
        BY <3>2, <4>1, <4>2, <4>3
    <3> QED
      BY <3>1, <3>2
  <2>6. Store!Begin(c, kind, f)
    BY <1>2, <2>3, <2>4, <2>5 DEF Store!Begin, AbsFile, AbsRequests
  <2> QED
    BY <1>5, <2>6 DEF Store!Next, Store!Kinds, Kinds, Locating
<1> QED
  BY <1>4, <1>5

\* A step that leaves the application's knowledge, the epoch and what an
\* operation amounts to alone is no step of FileStore.
LEMMA Stutters ==
  ASSUME UNCHANGED <<acked, deleting, deleted>>,
         \A c \in Clients : AbsRequest(op[c])' = AbsRequest(op[c])
  PROVE  UNCHANGED Store!vars
<1>1. AbsFile' = AbsFile
  BY KnowledgeStays
<1>2. AbsRequests' = AbsRequests
  BY DEF AbsRequests
<1> QED
  BY <1>1, <1>2 DEF Store!vars, AbsFile, AbsRequests

LEMMA OtherRequests ==
  ASSUME moves' = moves, NEW d \in Clients, op'[d] = op[d]
  PROVE  AbsRequest(op[d])' = AbsRequest(op[d])
  BY DEF AbsRequest

\* The end of an operation is the end of its request.
LEMMA DoneMaps ==
  ASSUME IndInv, NEW c \in Clients, op[c].stage \in {"master", "sent"},
         op[c].result = "none", op'[c].kind = op[c].kind, op'[c].fid = op[c].fid,
         op'[c].gone = op[c].gone, op'[c].stage = "done",
         op'[c].result = "Ok" => op[c].kind # "write",
         \A d \in Clients \ {c} : op'[d] = op[d], moves' = moves
  PROVE  Store!End(c, AbsPhase(op'[c]))
<1> DEFINE R == AbsRequests
           S == AbsRequests'
           phase == AbsPhase(op'[c])
<1>1. R \in [Clients -> Requests]
  BY AbsRequestType DEF AbsRequests, IndInv, Types
<1>2. R[c].phase = "running"
  BY DEF AbsRequests, AbsRequest, AbsPhase
<1>3. S = [d \in Clients |-> S[d]]
  BY DEF AbsRequests
<1>4. \A d \in Clients \ {c} : S[d] = R[d]
  BY OtherRequests DEF AbsRequests
<1>5. S[c] = [phase |-> phase, kind |-> R[c].kind, fids |-> R[c].fids,
              gone |-> R[c].gone, moved |-> FALSE]
  BY DEF AbsRequests, AbsRequest
<1> HIDE DEF R, S, phase
<1>6. S = Ended(R, c, phase)
  BY <1>1, <1>3, <1>4, <1>5, EndMaps
<1> QED
  BY <1>2, <1>6 DEF Store!End, Ended, AbsRequests, R, S, phase

LEMMA MasterFailsMaps ==
  ASSUME IndInv, NEW c \in Clients, MasterFails(c)
  PROVE  Store!Next
<1>1. /\ op[c] \in Frames /\ op[c].stage = "master" /\ op[c].result = "none"
      /\ op' = [op EXCEPT ![c] = Finish(op[c], "MasterFailed")]
      /\ \A d \in Clients \ {c} : op'[d] = op[d]
      /\ UNCHANGED <<acked, deleting, deleted, moves>>
  BY DEF MasterFails, IndInv, Types, ClientInv, Sweep, counts
<1>2. /\ op'[c].kind = op[c].kind /\ op'[c].fid = op[c].fid /\ op'[c].gone = op[c].gone
      /\ op'[c].stage = "done" /\ op'[c].result = "MasterFailed"
  BY <1>1, FinishFields DEF IndInv, Types, Results
<1>3. Store!End(c, "failed")
  BY <1>1, <1>2, DoneMaps DEF AbsPhase
<1>4. AbsFile' = AbsFile
  BY <1>1, KnowledgeStays
<1> QED
  BY <1>3, <1>4 DEF Store!Next, Store!Ends, Store!Fails, AbsFile

LEMMA AssignedMaps ==
  ASSUME IndInv, NEW c \in Clients, NEW s \in holders, NEW f \in Fids,
         Assigned(c, s, f)
  PROVE  UNCHANGED Store!vars
<1>1. /\ op[c].stage = "master" /\ op[c].kind = "write" /\ op[c].result = "none"
      /\ op'[c].stage = "sent" /\ op'[c].kind = "write" /\ op'[c].result = "none"
      /\ \A d \in Clients \ {c} : op'[d] = op[d]
      /\ UNCHANGED <<acked, deleting, deleted, moves>>
  BY AssignedStep
<1>2. AbsRequest(op[c])' = AbsRequest(op[c])
  BY <1>1 DEF AbsRequest, AbsPhase
<1> QED
  BY <1>1, <1>2, OtherRequests, Stutters

LEMMA LookedUpMaps ==
  ASSUME IndInv, NEW c \in Clients, NEW l \in Listings, LookedUp(c, l)
  PROVE  Store!Next \/ UNCHANGED Store!vars
<1> DEFINE n == op'[c]
<1>1. /\ op[c].stage = "master" /\ op[c].result = "none" /\ op[c].kind # "write"
      /\ n.kind = op[c].kind /\ n.fid = op[c].fid /\ n.gone = op[c].gone
      /\ n.epoch = moves
      /\ \A d \in Clients \ {c} : op'[d] = op[d]
      /\ UNCHANGED <<acked, deleting, deleted, moves>>
      /\ \/ n.stage = "done" /\ n.kind \in Locating /\ n.result = "Ok"
         \/ n.stage = "done" /\ n.result = "NoReplicasAvailable"
         \/ n.stage = "sent" /\ n.result = "none"
  BY LookedUpStep DEF IndInv, ClientInv, Sweep
<1>2. AbsFile' = AbsFile
  BY <1>1, KnowledgeStays
<1>3. CASE n.stage = "done" /\ n.kind \in Locating /\ n.result = "Ok"
  <2>1. Store!End(c, "ok")
    BY <1>1, <1>3, DoneMaps DEF AbsPhase
  <2>2. AbsRequests[c].kind \in {"lookup", "url"}
    BY <1>1, <1>3 DEF AbsRequests, AbsRequest, Locating
  <2> QED
    BY <1>2, <2>1, <2>2
    DEF Store!Next, Store!Ends, Store!LocationsFound, AbsFile, AbsRequests
<1>4. CASE n.stage = "done" /\ n.result = "NoReplicasAvailable"
  <2>1. Store!End(c, "failed")
    BY <1>1, <1>4, DoneMaps DEF AbsPhase
  <2> QED
    BY <1>2, <2>1 DEF Store!Next, Store!Ends, Store!Fails, AbsFile
<1>5. CASE n.stage = "sent" /\ n.result = "none"
  <2>1. AbsRequest(op[c])' = AbsRequest(op[c])
    BY <1>1, <1>5 DEF AbsRequest, AbsPhase
  <2> QED
    BY <1>1, <2>1, OtherRequests, Stutters
<1> QED
  BY <1>1, <1>3, <1>4, <1>5

\* A server's reply is seen by nobody yet.
LEMMA ServeMaps ==
  ASSUME IndInv, NEW c \in Clients, Serve(c)
  PROVE  UNCHANGED Store!vars
<1>1. PICK reply \in Replies : op' = [op EXCEPT ![c].reply = reply]
  BY DEF Serve
<1>2. UNCHANGED <<acked, deleting, deleted, moves>>
  BY DEF Serve, counts
<1>3. /\ op[c] \in Frames /\ op'[c] = [op[c] EXCEPT !.reply = reply]
      /\ \A d \in Clients \ {c} : op'[d] = op[d]
  BY <1>1 DEF IndInv, Types
<1>4. /\ op'[c].kind = op[c].kind /\ op'[c].stage = op[c].stage /\ op'[c].fid = op[c].fid
      /\ op'[c].result = op[c].result /\ op'[c].epoch = op[c].epoch
      /\ op'[c].gone = op[c].gone
  BY <1>3, ReplyFields
<1>5. AbsRequest(op[c])' = AbsRequest(op[c])
  BY <1>2, <1>4 DEF AbsRequest, AbsPhase
<1> QED
  BY <1>2, <1>3, <1>5, OtherRequests, Stutters

LEMMA MovedFields ==
  ASSUME NEW r \in Requests
  PROVE  [r EXCEPT !.moved = TRUE] =
           [phase |-> r.phase, kind |-> r.kind, fids |-> r.fids, gone |-> r.gone,
            moved |-> TRUE]
<1> DEFINE e == [r EXCEPT !.moved = TRUE]
<1>1. DOMAIN e = {"phase", "kind", "fids", "gone", "moved"}
  BY DEF Requests
<1>2. /\ e.phase = r.phase /\ e.kind = r.kind /\ e.fids = r.fids
      /\ e.gone = r.gone /\ e.moved = TRUE
  BY DEF Requests
<1>3. e = [x \in DOMAIN e |-> e[x]]
  OBVIOUS
<1> HIDE DEF e
<1>4. e = [phase |-> r.phase, kind |-> r.kind, fids |-> r.fids, gone |-> r.gone,
           moved |-> TRUE]
  BY <1>1, <1>2, <1>3
<1> QED
  BY <1>4 DEF e

\* Every running request that named a file is a request whose volume moved.
LEMMA MoveMaps ==
  ASSUME IndInv, NEW s \in Servers, NEW t \in Servers, Move(s, t)
  PROVE  Store!Next
<1> DEFINE S == {c \in Clients : op[c].kind # "write" /\ op[c].stage = "sent"}
<1>1. /\ moves' = moves + 1 /\ moves \in Nat
      /\ UNCHANGED <<op, acked, deleting, deleted>>
  BY DEF Move, IndInv, Types
<1>2. ASSUME NEW c \in S PROVE AbsRequests[c].phase = "running"
  <2>1. c \in Clients /\ op[c].stage = "sent" /\ op[c].result = "none"
    BY <1>2 DEF IndInv, ClientInv, Sweep
  <2>2. AbsRequest(op[c]).phase = "running"
    BY <2>1 DEF AbsRequest, AbsPhase
  <2> QED
    BY <2>1, <2>2 DEF AbsRequests
<1>3. ASSUME NEW c \in Clients \ S PROVE AbsRequest(op[c])' = AbsRequest(op[c])
  BY <1>1, <1>3 DEF AbsRequest
<1>4. ASSUME NEW c \in S
      PROVE  AbsRequest(op[c])' = [AbsRequest(op[c]) EXCEPT !.moved = TRUE]
  <2>1. op[c].epoch \in Nat /\ op[c].epoch <= moves
    BY FrameFields DEF IndInv, Types, ClientInv, Fresh
  <2>2. op[c].epoch # moves + 1
    BY <1>1, <2>1
  <2> DEFINE r == AbsRequest(op[c])
  <2>3. r \in Requests
    BY AbsRequestType DEF IndInv, Types
  <2>4. AbsRequest(op[c])' =
          [phase |-> r.phase, kind |-> r.kind, fids |-> r.fids, gone |-> r.gone,
           moved |-> TRUE]
    BY <1>1, <2>2 DEF AbsRequest
  <2> HIDE DEF r
  <2>5. AbsRequest(op[c])' = [r EXCEPT !.moved = TRUE]
    BY <2>3, <2>4, MovedFields
  <2> QED
    BY <2>5 DEF r
<1>5. AbsRequests' =
        [c \in Clients |-> IF c \in S THEN [AbsRequests[c] EXCEPT !.moved = TRUE]
                           ELSE AbsRequests[c]]
  BY <1>3, <1>4 DEF AbsRequests
<1>6. AbsFile' = AbsFile
  BY <1>1, KnowledgeStays
<1> HIDE DEF S
<1>7. S \in SUBSET Clients
  BY DEF S
<1>8. Store!Move(S)
  BY <1>2, <1>5, <1>6, <1>7 DEF Store!Move, AbsFile, AbsRequests
<1> QED
  BY <1>7, <1>8 DEF Store!Next

\* A late request, a crash and a restart are out of the application's sight.
LEMMA ClusterMaps ==
  ASSUME UNCHANGED <<op, acked, deleting, deleted, moves>>
  PROVE  UNCHANGED Store!vars
<1>1. \A c \in Clients : AbsRequest(op[c])' = AbsRequest(op[c])
  BY DEF AbsRequest
<1> QED
  BY <1>1, Stutters

Wrote(R, c, f) == [R EXCEPT ![c].phase = "ok", ![c].fids = {f}]

\* A request to write that succeeds: its phase and its file change.
LEMMA WroteFields ==
  ASSUME NEW R \in [Clients -> Requests], NEW S, NEW c \in Clients, NEW f,
         S = [d \in Clients |-> S[d]],
         \A d \in Clients \ {c} : S[d] = R[d],
         S[c] = [phase |-> "ok", kind |-> R[c].kind, fids |-> {f},
                 gone |-> R[c].gone, moved |-> R[c].moved]
  PROVE  S = Wrote(R, c, f)
<1> DEFINE r == R[c]
           e == [r EXCEPT !.phase = "ok", !.fids = {f}]
<1>1. r \in Requests
  OBVIOUS
<1>2. e = S[c]
  <2> HIDE DEF r
  <2>1. DOMAIN e = {"phase", "kind", "fids", "gone", "moved"}
    BY <1>1 DEF Requests
  <2>2. /\ e.phase = "ok" /\ e.kind = r.kind /\ e.fids = {f}
        /\ e.gone = r.gone /\ e.moved = r.moved
    BY <1>1 DEF Requests
  <2>3. e = [x \in DOMAIN e |-> e[x]]
    OBVIOUS
  <2> HIDE DEF e
  <2>4. e = [phase |-> "ok", kind |-> r.kind, fids |-> {f}, gone |-> r.gone,
             moved |-> r.moved]
    BY <2>1, <2>2, <2>3
  <2> QED
    BY <2>4 DEF r
<1>3. Wrote(R, c, f) = [d \in Clients |-> IF d = c THEN e ELSE R[d]]
  BY DEF Wrote
<1> HIDE DEF e
<1> QED
  BY <1>2, <1>3

\* A write that returns names its file for the first time.
LEMMA WriteMaps ==
  ASSUME IndInv, NEW c \in Clients, op[c].stage = "sent", op[c].result = "none",
         op[c].kind = "write", op'[c].kind = "write", op'[c].fid = op[c].fid,
         op'[c].stage = "done", op'[c].result = "Ok",
         \A d \in Clients \ {c} : op'[d] = op[d], moves' = moves,
         acked' = acked \cup {op[c].fid}, deleting' = deleting, deleted' = deleted
  PROVE  Store!WriteSucceeds(c, op[c].fid)
<1> DEFINE R == AbsRequests
           S == AbsRequests'
           f == op[c].fid
<1>1. f \in Fids /\ f \notin acked /\ f \notin deleting /\ f \notin deleted
  BY FrameFields DEF IndInv, Types, ClientInv, Upload, Uploading
<1>2. R[c] = [phase |-> "running", kind |-> "write", fids |-> {}, gone |-> FALSE,
              moved |-> FALSE]
  BY DEF AbsRequests, AbsRequest, AbsPhase
<1>3. S[c] = [phase |-> "ok", kind |-> "write", fids |-> {f}, gone |-> FALSE,
              moved |-> FALSE]
  BY DEF AbsRequests, AbsRequest, AbsPhase
<1>4. \A d \in Clients \ {c} : S[d] = R[d]
  BY OtherRequests DEF AbsRequests
<1>5. R = [d \in Clients |-> R[d]] /\ S = [d \in Clients |-> S[d]]
  BY DEF AbsRequests
<1>6. AbsFile[f] = "unwritten"
  BY <1>1 DEF AbsFile, Knowledge
<1>7. AbsFile' = [AbsFile EXCEPT ![f] = "written"]
  <2>1. ASSUME NEW g \in Fids \ {f} PROVE AbsFile'[g] = AbsFile[g]
    BY DEF AbsFile, Knowledge
  <2>2. AbsFile'[f] = "written"
    BY <1>1 DEF AbsFile, Knowledge
  <2>3. AbsFile = [g \in Fids |-> AbsFile[g]] /\ AbsFile' = [g \in Fids |-> AbsFile'[g]]
    BY DEF AbsFile
  <2> HIDE DEF AbsFile
  <2> QED
    BY <1>1, <2>1, <2>2, <2>3
<1>8. R[c].phase = "running" /\ R[c].kind = "write"
  BY <1>2
<1>10. R \in [Clients -> Requests]
  BY AbsRequestType DEF AbsRequests, IndInv, Types
<1> HIDE DEF R, S, f
<1>9. S = Wrote(R, c, f)
  <2>1. S[c] = [phase |-> "ok", kind |-> R[c].kind, fids |-> {f},
                gone |-> R[c].gone, moved |-> R[c].moved]
    BY <1>2, <1>3
  <2> QED
    BY <1>4, <1>5, <1>10, <2>1, WroteFields
<1> QED
  BY <1>6, <1>7, <1>8, <1>9 DEF Store!WriteSucceeds, Wrote, AbsFile, AbsRequests, R, S, f

\* A delete that returns Ok leaves no file.
LEMMA DeleteMaps ==
  ASSUME IndInv, NEW c \in Clients, op[c].stage = "sent", op[c].result = "none",
         op[c].kind = "delete", op'[c].kind = "delete", op'[c].fid = op[c].fid,
         op'[c].gone = op[c].gone, op'[c].stage = "done", op'[c].result = "Ok",
         \A d \in Clients \ {c} : op'[d] = op[d], moves' = moves,
         deleted' = deleted \cup {op[c].fid}, deleting' = deleting, acked' = acked
  PROVE  Store!DeleteSucceeds(c)
<1> DEFINE f == op[c].fid
<1>1. Store!End(c, "ok")
  BY DoneMaps DEF AbsPhase
<1>2. AbsRequests[c].kind = "delete" /\ AbsRequests[c].fids = {f}
  BY DEF AbsRequests, AbsRequest
<1>3. f \in deleting
  BY DEF IndInv, ClientInv, Named
<1>4. AbsFile' = [g \in Fids |-> IF g \in {f} THEN "deleted" ELSE AbsFile[g]]
  <2>1. ASSUME NEW g \in Fids \ {f} PROVE AbsFile'[g] = AbsFile[g]
    BY DEF AbsFile, Knowledge
  <2>2. f \in Fids => AbsFile'[f] = "deleted"
    BY <1>3 DEF AbsFile, Knowledge
  <2>3. AbsFile' = [g \in Fids |-> AbsFile'[g]]
    BY DEF AbsFile
  <2> HIDE DEF AbsFile, f
  <2> QED
    BY <2>1, <2>2, <2>3
<1> QED
  BY <1>1, <1>2, <1>4 DEF Store!DeleteSucceeds, AbsFile, AbsRequests

\* An attempt that ends is no step of the request unless the operation ends with it.
LEMMA ConcludeMaps ==
  ASSUME IndInv, NEW c \in Clients, op[c].stage = "sent", NEW outcome,
         Conclude(c, outcome),
         outcome \in {"Ok", "FileNotFound", Failed(op[c].kind)},
         outcome = "Ok" => op[c].reply = "ok",
         outcome = "FileNotFound" => op[c].reply = "not_found" /\ op[c].kind # "write"
  PROVE  Store!Next \/ UNCHANGED Store!vars
<1> DEFINE o == op[c]
           n == op'[c]
           f == op[c].fid
<1>1. /\ o \in Frames /\ f \in Fids /\ o.result = "none"
      /\ o.kind \in {"write", "read", "delete"} /\ o.kind \in Kinds \ Locating
  BY FrameFields DEF IndInv, Types, ClientInv, Sweep, Kinds, Locating
<1>2. /\ n.kind = o.kind /\ n.fid = f /\ n.gone = o.gone /\ n.epoch = o.epoch
      /\ \/ /\ n.stage = "done"
            /\ \/ outcome \in {"Ok", "FileNotFound"} /\ n.result = outcome
               \/ outcome \notin {"Ok", "FileNotFound"} /\ n.result = Failed(o.kind)
         \/ /\ n.stage = "sent" /\ n.result = "none"
            /\ outcome \notin {"Ok", "FileNotFound"}
      /\ \A d \in Clients \ {c} : op'[d] = op[d]
  BY ConcludeStep
<1>3. /\ acked' = IF o.kind = "write" /\ outcome = "Ok" THEN acked \cup {f} ELSE acked
      /\ deleted' = IF o.kind = "delete" /\ outcome = "Ok"
                    THEN deleted \cup {f} ELSE deleted
      /\ deleting' = deleting /\ moves' = moves
  BY DEF Conclude, counts
<1>4. Failed(o.kind) \notin {"Ok", "FileNotFound"}
  BY <1>1, FailedIsAResult
<1>5. CASE n.stage = "done" /\ outcome = "Ok"
  <2>1. CASE o.kind = "write"
    <3>1. Store!WriteSucceeds(c, f)
      BY <1>1, <1>2, <1>3, <1>5, <2>1, WriteMaps
    <3> QED
      BY <1>1, <3>1 DEF Store!Next, Store!Ends
  <2>2. CASE o.kind = "delete"
    <3>1. Store!DeleteSucceeds(c)
      BY <1>1, <1>2, <1>3, <1>5, <2>2, DeleteMaps
    <3> QED
      BY <3>1 DEF Store!Next, Store!Ends
  <2>3. CASE o.kind = "read"
    <3>1. Store!End(c, "ok")
      BY <1>1, <1>2, <1>3, <1>5, <2>3, DoneMaps DEF AbsPhase
    <3>2. ~o.gone
      BY <1>5, <2>3 DEF IndInv, ClientInv, Evidence
    <3>3. AbsRequests[c].kind = "read" /\ ~AbsRequests[c].gone
      BY <2>3, <3>2 DEF AbsRequests, AbsRequest
    <3>4. AbsFile' = AbsFile
      BY <1>3, <2>3, KnowledgeStays
    <3> QED
      BY <3>1, <3>3, <3>4
      DEF Store!Next, Store!Ends, Store!ReadSucceeds, AbsFile, AbsRequests
  <2> QED
    BY <1>1, <2>1, <2>2, <2>3
<1>6. CASE n.stage = "done" /\ outcome = "FileNotFound"
  <2>1. Store!End(c, "not_found")
    BY <1>1, <1>2, <1>3, <1>6, DoneMaps DEF AbsPhase
  <2>2. f \in deleting \/ (o.kind = "read" /\ o.epoch # moves)
    BY <1>1, <1>6 DEF IndInv, ClientInv, Evidence, Named
  <2>3. /\ AbsRequests[c].kind \in {"read", "delete"}
        /\ AbsRequests[c].fids = {f}
        /\ AbsRequests[c].moved <=> o.epoch # moves
    BY <1>1, <1>6 DEF AbsRequests, AbsRequest
  <2>4. f \in deleting => AbsFile[f] # "written"
    BY <1>1, KnowledgeIsKnown DEF AbsFile, Known, IndInv, Types
  <2>5. AbsFile' = AbsFile
    BY <1>3, <1>6, KnowledgeStays
  <2>6. AbsRequests[c].moved \/ \A g \in AbsRequests[c].fids : AbsFile[g] # "written"
    BY <2>2, <2>3, <2>4
  <2> QED
    BY <2>1, <2>3, <2>5, <2>6
    DEF Store!Next, Store!Ends, Store!Misses, AbsFile, AbsRequests
<1>7. CASE n.stage = "done" /\ outcome \notin {"Ok", "FileNotFound"}
  <2>1. AbsPhase(n) = "failed" /\ n.result # "Ok"
    BY <1>2, <1>4, <1>7 DEF AbsPhase
  <2>2. Store!End(c, "failed")
    BY <1>1, <1>2, <1>3, <1>7, <2>1, DoneMaps
  <2>3. AbsFile' = AbsFile
    BY <1>3, <1>7, KnowledgeStays
  <2> QED
    BY <2>2, <2>3 DEF Store!Next, Store!Ends, Store!Fails, AbsFile
<1>8. CASE n.stage = "sent"
  <2>1. AbsRequest(op[c])' = AbsRequest(op[c])
    BY <1>1, <1>2, <1>3, <1>8 DEF AbsRequest, AbsPhase
  <2>2. UNCHANGED <<acked, deleting, deleted>>
    BY <1>2, <1>3, <1>8
  <2> QED
    BY <1>2, <1>3, <2>1, <2>2, OtherRequests, Stutters
<1> QED
  BY <1>2, <1>5, <1>6, <1>7, <1>8

LEMMA StepMaps ==
  ASSUME IndInv, [Next]_vars
  PROVE  Store!Next \/ UNCHANGED Store!vars
<1>1. ASSUME NEW c \in Clients, Application(c) PROVE Store!Next
  BY <1>1, StartMaps DEF Application
<1>2. ASSUME NEW c \in Clients, Master(c) PROVE Store!Next \/ UNCHANGED Store!vars
  BY <1>2, MasterFailsMaps, AssignedMaps, LookedUpMaps DEF Master
<1>3. ASSUME NEW c \in Clients, Volume(c) PROVE Store!Next \/ UNCHANGED Store!vars
  <2>1. CASE Receive(c)
    <3> DEFINE outcome == Outcome(op[c].kind, op[c].reply)
    <3>1. op[c].stage = "sent" /\ Conclude(c, outcome)
      BY <2>1 DEF Receive
    <3>2. op[c].kind \in Kinds \ Locating
      BY <3>1, FrameFields DEF IndInv, Types, ClientInv, Sweep
    <3>3. Failed(op[c].kind) \notin {"Ok", "FileNotFound"}
      BY <3>2, FailedIsAResult
    <3>4. /\ outcome \in {"Ok", "FileNotFound", Failed(op[c].kind)}
          /\ outcome = "Ok" => op[c].reply = "ok"
          /\ outcome = "FileNotFound" => op[c].reply = "not_found" /\ op[c].kind # "write"
      BY <3>3 DEF Outcome
    <3> HIDE DEF outcome
    <3> QED
      BY <3>1, <3>4, ConcludeMaps
  <2>2. CASE TimeOut(c)
    <3>1. op[c].stage = "sent" /\ Conclude(c, Failed(op[c].kind))
      BY <2>2 DEF TimeOut
    <3>2. op[c].kind \in Kinds \ Locating
      BY <3>1, FrameFields DEF IndInv, Types, ClientInv, Sweep
    <3> QED
      BY <3>1, <3>2, FailedIsAResult, ConcludeMaps
  <2> QED
    BY <1>3, <2>1, <2>2 DEF Volume
<1>4. ASSUME NEW c \in Clients, Serve(c) PROVE UNCHANGED Store!vars
  BY <1>4, ServeMaps
<1>5. ASSUME NEW s \in Servers, NEW t \in Servers, Move(s, t) PROVE Store!Next
  BY <1>5, MoveMaps
<1>6. CASE UNCHANGED <<op, acked, deleting, deleted, moves>>
  BY <1>6, ClusterMaps
<1> QED
  BY <1>1, <1>2, <1>3, <1>4, <1>5, <1>6
  DEF Next, ServeLate, Crash, Restart, vars, counts

\* The operations implement FileStore: whatever crashes, moves, times out or comes
\* late, what the application sees is a behaviour of the promise.
THEOREM ImplementsFileStore == Spec => KeepsStorePromise
<1>1. Init => Store!Init
  BY InitInv, InitMaps
<1>2. IndInv /\ [Next]_vars => [Store!Next]_(Store!vars)
  BY StepMaps
<1> QED
  BY <1>1, <1>2, Invariance, PTL DEF Spec, KeepsStorePromise, Store!Safety
=============================================================================
