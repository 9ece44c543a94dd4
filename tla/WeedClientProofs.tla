-------------------------- MODULE WeedClientProofs --------------------------
(***************************************************************************)
(* Proofs about WeedClient, from those about its two halves: the invariants *)
(* of HaMaster and of FileOps hold of the composition, and together they    *)
(* give the end-to-end promise.                                             *)
(***************************************************************************)
EXTENDS WeedClient, HaMasterProofs

\* The invariants of the file half, with what is proved about them.
FP == INSTANCE FileOpsProofs WITH
        Clients <- Callers, Servers <- Replicas, Healthy <- HealthyReplicas,
        Native <- {}, Hash <- [f \in Fids |-> 0], MaxOps <- MaxCalls, MaxMoves <- 0

\* An operation reports a failed master call only for a call that did fail.
Linked(c) ==
  op[c].result = "MasterFailed" => call[c].phase = "done" /\ call[c].last # "Ok"

\* The masters' half, the files' half, that the volume stays, and the link.
ClientInv ==
  /\ IndInv
  /\ FP!IndInv
  /\ moves = 0
  /\ \A c \in Callers : Linked(c)

-----------------------------------------------------------------------------
(* Each step is a step of the masters' half and of the files' half.         *)

\* The assumptions of FileOps, for the constants it is instantiated with.
LEMMA FileOpsAssumptions ==
  /\ Replicas \subseteq Replicas /\ FP!IsFiniteSet(Replicas)
  /\ HealthyReplicas \subseteq Replicas
  /\ {} \subseteq Callers
  /\ Fids # {}
  /\ [f \in Fids |-> 0] \in [Fids -> Nat]
  /\ MaxCalls \in Nat /\ MaxCrashes \in Nat /\ 0 \in Nat
  BY ReplicasAssumption, FidsAssumption, MaxCrashesAssumption, MaxCallsAssumption
  DEF FP!IsFiniteSet, IsFiniteSet

\* The two instances of FileOps are the same.
LEMMA SameActions ==
  ASSUME NEW c \in Callers
  PROVE  /\ \A kind, f : F!Start(c, kind, f) => FP!Start(c, kind, f)
         /\ F!MasterFails(c) => FP!MasterFails(c)
         /\ \A s, f : F!Assigned(c, s, f) => FP!Assigned(c, s, f)
         /\ \A l : F!LookedUp(c, l) => FP!LookedUp(c, l)
         /\ F!Volume(c) => FP!Volume(c)
         /\ F!Serve(c) => FP!Serve(c)
<1>1. \A kind, f : F!Start(c, kind, f) => FP!Start(c, kind, f)
  BY Zenon
  DEF F!Start, FP!Start, F!NoOp, FP!NoOp, F!Idle, FP!Idle, F!cluster, FP!cluster
<1>2. F!MasterFails(c) => FP!MasterFails(c)
  BY Zenon
  DEF F!MasterFails, FP!MasterFails, F!Finish, FP!Finish, F!Locating, FP!Locating,
      F!cluster, FP!cluster, F!counts, FP!counts
<1>3. \A s, f : F!Assigned(c, s, f) => FP!Assigned(c, s, f)
  BY Zenon
  DEF F!Assigned, FP!Assigned, F!Send, FP!Send, F!Target, FP!Target, F!counts, FP!counts
<1>4. \A l : F!LookedUp(c, l) => FP!LookedUp(c, l)
  BY Zenon
  DEF F!LookedUp, FP!LookedUp, F!Finish, FP!Finish, F!Locating, FP!Locating, F!Send,
      FP!Send, F!Target, FP!Target, F!Starts, FP!Starts, F!cluster, FP!cluster,
      F!counts, FP!counts
<1>5. F!Volume(c) => FP!Volume(c)
  BY Zenon
  DEF F!Volume, FP!Volume, F!Receive, FP!Receive, F!TimeOut, FP!TimeOut, F!Outcome,
      FP!Outcome, F!Conclude, FP!Conclude, F!Target, FP!Target, F!Failed, FP!Failed,
      F!Finish, FP!Finish, F!Locating, FP!Locating, F!NextReplica, FP!NextReplica,
      F!Attempts, FP!Attempts, F!Send, FP!Send, F!counts, FP!counts
<1>6. F!Serve(c) => FP!Serve(c)
  BY Zenon
  DEF F!Serve, FP!Serve, F!Target, FP!Target, F!Replies, FP!Replies, F!Handle, FP!Handle,
      F!Write, FP!Write, F!Delete, FP!Delete, F!Read, FP!Read, F!counts, FP!counts
<1> QED
  BY <1>1, <1>2, <1>3, <1>4, <1>5, <1>6

LEMMA SameStoreActions ==
  /\ \A r : F!ServeLate(r) => FP!ServeLate(r)
  /\ \A s : F!Crash(s) => FP!Crash(s)
  /\ \A s : F!Restart(s) => FP!Restart(s)
<1>1. \A r : F!ServeLate(r) => FP!ServeLate(r)
  BY Zenon
  DEF F!ServeLate, FP!ServeLate, F!Replies, FP!Replies, F!Handle, FP!Handle,
      F!Write, FP!Write, F!Delete, FP!Delete, F!Read, FP!Read, F!counts, FP!counts
<1>2. \A s : F!Crash(s) => FP!Crash(s)
  BY Zenon DEF F!Crash, FP!Crash
<1>3. \A s : F!Restart(s) => FP!Restart(s)
  BY Zenon DEF F!Restart, FP!Restart, F!counts, FP!counts
<1> QED
  BY Zenon, <1>1, <1>2, <1>3

\* The steps of the masters' half.
LEMMA MasterSteps ==
  ASSUME [NextClient]_allVars
  PROVE  [Next]_vars
<1>1. ASSUME NEW c \in Callers, NEW kind \in F!Kinds, NEW f \in Fids, Execute(c, kind, f)
      PROVE  Next
  BY <1>1 DEF Execute, Next, MasterOp, Ops
<1>2. ASSUME NEW c \in Callers, MasterReply(c) PROVE Next
  BY <1>2 DEF MasterReply, Next
<1>3. CASE Cluster \/ \E c \in Callers : VolumeReply(c)
  BY <1>3 DEF Cluster, VolumeReply
<1>4. CASE UNCHANGED allVars
  BY <1>4 DEF allVars
<1> QED
  BY <1>1, <1>2, <1>3, <1>4 DEF NextClient

\* The steps of the files' half, of either instance.
LEMMA FileSteps ==
  ASSUME [NextClient]_allVars
  PROVE  [F!Next]_(F!vars) /\ [FP!Next]_(FP!vars)
<1>1. ASSUME NEW c \in Callers, NEW kind \in F!Kinds, NEW f \in Fids, Execute(c, kind, f)
      PROVE  F!Next /\ FP!Next
  <2>1. F!Start(c, kind, f)
    BY <1>1 DEF Execute
  <2>2. kind \in FP!Kinds
    BY DEF F!Kinds, FP!Kinds, F!Locating, FP!Locating
  <2> QED
    BY <2>1, <2>2, SameActions DEF F!Next, FP!Next, F!Application, FP!Application
<1>2. ASSUME NEW c \in Callers, MasterReply(c)
      PROVE  (F!Next /\ FP!Next) \/ UNCHANGED files
  <2>1. CASE UNCHANGED files
    BY <2>1
  <2>2. CASE F!MasterFails(c)
    BY <2>2, SameActions DEF F!Next, FP!Next, F!Master, FP!Master
  <2>3. ASSUME NEW s \in Replicas, NEW f \in Fids, F!Assigned(c, s, f)
        PROVE  F!Next /\ FP!Next
    <3>1. s \in holders
      BY <2>3 DEF F!Assigned
    <3> QED
      BY <2>3, <3>1, SameActions DEF F!Next, FP!Next, F!Master, FP!Master
  <2>4. ASSUME NEW l \in F!Listings, F!LookedUp(c, l)
        PROVE  F!Next /\ FP!Next
    <3>1. l \in FP!Listings
      BY Zenon DEF F!Listings, FP!Listings, F!Cardinality, FP!Cardinality
    <3> QED
      BY <2>4, <3>1, SameActions DEF F!Next, FP!Next, F!Master, FP!Master
  <2> QED
    BY <1>2, <2>1, <2>2, <2>3, <2>4 DEF MasterReply, CarryOn
<1>3. ASSUME NEW c \in Callers, VolumeReply(c) PROVE F!Next /\ FP!Next
  BY <1>3, SameActions DEF VolumeReply, F!Next, FP!Next
<1>4. CASE Cluster
  <2>1. ASSUME NEW c \in Callers, F!Serve(c) PROVE F!Next /\ FP!Next
    BY <2>1, SameActions DEF F!Next, FP!Next
  <2>2. ASSUME NEW r \in late, F!ServeLate(r) PROVE F!Next /\ FP!Next
    <3>1. FP!ServeLate(r)
      BY Zenon, <2>2, SameStoreActions
    <3> QED
      BY <2>2, <3>1 DEF F!Next, FP!Next
  <2>3. ASSUME NEW s \in Replicas, F!Crash(s) \/ F!Restart(s) PROVE F!Next /\ FP!Next
    <3>1. FP!Crash(s) \/ FP!Restart(s)
      BY Zenon, <2>3, SameStoreActions
    <3> QED
      BY <2>3, <3>1 DEF F!Next, FP!Next
  <2> QED
    BY <1>4, <2>1, <2>2, <2>3 DEF Cluster
<1>5. CASE UNCHANGED allVars
  BY <1>5 DEF allVars, files, cluster, F!vars, FP!vars, F!cluster, FP!cluster,
              F!counts, FP!counts
<1>6. UNCHANGED files => UNCHANGED F!vars /\ UNCHANGED FP!vars
  BY DEF files, cluster, F!vars, FP!vars, F!cluster, FP!cluster, F!counts, FP!counts
<1> QED
  BY <1>1, <1>2, <1>3, <1>4, <1>5, <1>6 DEF NextClient

LEMMA FileInvStep ==
  ASSUME FP!IndInv, [NextClient]_allVars
  PROVE  FP!IndInv'
  BY FileSteps, FP!StepInv, FileOpsAssumptions

\* No step of the composition moves a replica.
LEMMA NothingMoves ==
  ASSUME [NextClient]_allVars
  PROVE  moves' = moves
<1>1. ASSUME NEW c \in Callers, NEW kind \in F!Kinds, NEW f \in Fids, Execute(c, kind, f)
      PROVE  moves' = moves
  BY <1>1 DEF Execute, F!Start
<1>2. ASSUME NEW c \in Callers, MasterReply(c) PROVE moves' = moves
  BY <1>2 DEF MasterReply, CarryOn, files, F!MasterFails, F!Assigned, F!LookedUp, F!counts
<1>3. ASSUME NEW c \in Callers, VolumeReply(c) PROVE moves' = moves
  BY <1>3 DEF VolumeReply, F!Volume, F!Receive, F!TimeOut, F!Conclude, F!counts
<1>4. CASE Cluster
  BY <1>4 DEF Cluster, F!Serve, F!ServeLate, F!Crash, F!Restart, F!counts
<1>5. CASE UNCHANGED allVars
  BY <1>5 DEF allVars, files
<1> QED
  BY <1>1, <1>2, <1>3, <1>4, <1>5 DEF NextClient

-----------------------------------------------------------------------------
(* The link between the halves.                                             *)

\* A call whose attempt has ended waits for the next one or is over.
LEMMA SettleEnds ==
  ASSUME IndInv, NEW c \in Callers, Settle(c), ~Waiting(c)'
  PROVE  call'[c].phase = "done"
<1>1. ASSUME NEW reply, Conclude(c, reply)
      PROVE  call'[c].phase = "done"
  <2> DEFINE k == [call[c] EXCEPT !.phase = "done",
                                  !.last = Outcome(call[c].op, reply)]
  <2>1. call[c] \in Frame /\ call'[c] = k
    BY <1>1 DEF Conclude, IndInv, TypeOK
  <2> QED
    BY <2>1 DEF Frame
<1>2. ASSUME NEW reply, FailOver(c, reply)
      PROVE  call'[c].phase = "done"
  <2> DEFINE outcome == Outcome(call[c].op, reply)
             k == [call[c] EXCEPT !.last = outcome]
  <2>1. /\ call[c] \in Frame /\ call[c].phase = "waiting" /\ call[c].round < Rounds
        /\ call'[c] = NextAttempt(k)
    BY <1>2 DEF FailOver, IndInv, TypeOK, Swept, Waiting
  <2>2. outcome \in Outcomes
    BY <2>1, OutcomeType, FrameFields
  <2>3. k \in Frame /\ k.phase = "waiting" /\ k.round = call[c].round
    BY <2>1, <2>2, FrameFields DEF Frame
  <2> HIDE DEF k
  <2> QED
    BY <2>1, <2>3, NextAttemptCases DEF Waiting
<1> QED
  BY <1>1, <1>2 DEF Settle

\* A caller's steps leave the other callers' calls and operations alone.
LEMMA OtherCallers ==
  ASSUME ClientInv, NEW c \in Callers, NEW d \in Callers, c # d,
         \/ \E kind \in F!Kinds, f \in Fids : Execute(d, kind, f)
         \/ MasterReply(d) \/ VolumeReply(d)
  PROVE  call'[c] = call[c] /\ op'[c] = op[c]
<1>1. call \in [Callers -> Frame] /\ op \in [Callers -> FP!Frames]
  BY DEF ClientInv, IndInv, TypeOK, FP!IndInv, FP!Types
<1>2. CASE \E kind \in F!Kinds, f \in Fids : Execute(d, kind, f)
  BY <1>1, <1>2 DEF Execute, Begin, F!Start
<1>3. CASE MasterReply(d)
  <2>1. call'[c] = call[c]
    BY <1>1, <1>3 DEF MasterReply, Settle, Conclude, FailOver
  <2>2. op'[c] = op[c]
    BY <1>1, <1>3 DEF MasterReply, CarryOn, files, F!MasterFails, F!Assigned, F!LookedUp
  <2> QED
    BY <2>1, <2>2
<1>4. CASE VolumeReply(d)
  BY <1>1, <1>4 DEF VolumeReply, vars, F!Volume, F!Receive, F!TimeOut, F!Conclude
<1> QED
  BY <1>2, <1>3, <1>4

\* What the replicas answer is never reported as a failed master call.
LEMMA VolumeResults ==
  ASSUME ClientInv, NEW c \in Callers, VolumeReply(c)
  PROVE  op'[c].result # "MasterFailed"
<1>1. FP!Volume(c)
  BY SameActions DEF VolumeReply
<1>2. op[c] \in FP!Frames /\ op[c].stage = "sent"
  BY <1>1 DEF FP!Volume, FP!Receive, FP!TimeOut, ClientInv, FP!IndInv, FP!Types
<1>3. op[c].kind \in FP!Kinds \ FP!Locating
  BY <1>2, FP!FrameFields, FileOpsAssumptions DEF ClientInv, FP!IndInv, FP!ClientInv, FP!Sweep
<1>4. PICK outcome \in {"Ok", "FileNotFound", FP!Failed(op[c].kind)} :
        FP!Conclude(c, outcome)
  BY <1>1 DEF FP!Volume, FP!Receive, FP!TimeOut, FP!Outcome
<1>5. FP!Failed(op[c].kind) # "MasterFailed"
  BY <1>3, FP!FailedIsAResult, FileOpsAssumptions
<1>6. \/ op'[c].result \in {"Ok", "FileNotFound", "none"}
      \/ op'[c].result = FP!Failed(op[c].kind)
  BY <1>2, <1>4, FP!ConcludeStep, FileOpsAssumptions DEF ClientInv
<1> QED
  BY <1>5, <1>6

LEMMA LinkedStep ==
  ASSUME ClientInv, [NextClient]_allVars, NEW c \in Callers
  PROVE  Linked(c)'
<1>0. /\ Linked(c) /\ IndInv /\ FP!IndInv
      /\ call \in [Callers -> Frame] /\ op \in [Callers -> FP!Frames]
  BY DEF ClientInv, IndInv, TypeOK, FP!IndInv, FP!Types
<1>1. ASSUME NEW d \in Callers, d # c,
             \/ \E kind \in F!Kinds, f \in Fids : Execute(d, kind, f)
             \/ MasterReply(d) \/ VolumeReply(d)
      PROVE  Linked(c)'
  BY <1>0, <1>1, OtherCallers DEF Linked
<1>2. ASSUME NEW kind \in F!Kinds, NEW f \in Fids, Execute(c, kind, f)
      PROVE  Linked(c)'
  <2>1. kind \in FP!Kinds /\ FP!Start(c, kind, f)
    BY <1>2, SameActions DEF Execute, F!Kinds, FP!Kinds, F!Locating, FP!Locating
  <2>2. op'[c].result = "none"
    BY <1>0, <2>1, FP!StartStep, FileOpsAssumptions
  <2> QED
    BY <2>2 DEF Linked
<1>3. CASE MasterReply(c)
  <2>1. CASE Waiting(c)' /\ UNCHANGED files
    <3>1. call[c].phase = "waiting"
      BY <1>3 DEF MasterReply, Settle, Conclude, FailOver
    <3> QED
      BY <1>0, <2>1, <3>1 DEF Linked, files
  <2>2. ASSUME NEW s \in Replicas, NEW f \in Fids, F!Assigned(c, s, f)
        PROVE  Linked(c)'
    <3>1. s \in holders /\ FP!Assigned(c, s, f)
      BY <2>2, SameActions DEF F!Assigned
    <3>2. op'[c].result = "none"
      BY <1>0, <3>1, FP!AssignedStep, FileOpsAssumptions
    <3> QED
      BY <3>2 DEF Linked
  <2>3. ASSUME NEW l \in F!Listings, F!LookedUp(c, l)
        PROVE  Linked(c)'
    <3>1. l \in FP!Listings /\ FP!LookedUp(c, l)
      BY Zenon, <2>3, SameActions
      DEF F!Listings, FP!Listings, F!Cardinality, FP!Cardinality
    <3>2. op'[c].result \in {"Ok", "NoReplicasAvailable", "none"}
      BY <1>0, <3>1, FP!LookedUpStep, FileOpsAssumptions
    <3> QED
      BY <3>2 DEF Linked
  <2>4. CASE ~Waiting(c)' /\ call'[c].last # "Ok"
    BY <1>0, <1>3, <2>4, SettleEnds DEF MasterReply, Linked
  <2> QED
    BY <1>3, <2>1, <2>2, <2>3, <2>4 DEF MasterReply, CarryOn
<1>4. CASE VolumeReply(c)
  BY <1>4, VolumeResults DEF Linked
<1>5. CASE Cluster
  <2>1. ASSUME NEW d \in Callers, F!Serve(d), UNCHANGED vars
        PROVE  Linked(c)'
    <3>1. PICK reply \in F!Replies : op' = [op EXCEPT ![d].reply = reply]
      BY <2>1 DEF F!Serve
    <3>2. reply \in FP!Replies
      BY DEF F!Replies, FP!Replies
    <3> DEFINE e == [op[d] EXCEPT !.reply = reply]
    <3>3. op[d] \in FP!Frames /\ op' = [op EXCEPT ![d] = e]
      BY <1>0, <3>1
    <3>4. e.result = op[d].result
      BY <3>2, <3>3, FP!ReplyFields, FileOpsAssumptions
    <3> HIDE DEF e
    <3>5. op'[c].result = op[c].result
      BY <1>0, <3>3, <3>4
    <3> QED
      BY <1>0, <2>1, <3>5 DEF Linked, vars
  <2>2. CASE UNCHANGED op /\ UNCHANGED vars
    BY <1>0, <2>2 DEF Linked, vars
  <2> QED
    BY <1>5, <2>1, <2>2 DEF Cluster, F!ServeLate, F!Crash, F!Restart
<1>6. CASE UNCHANGED allVars
  BY <1>0, <1>6 DEF Linked, allVars, files, vars
<1> QED
  BY <1>1, <1>2, <1>3, <1>4, <1>5, <1>6 DEF NextClient

LEMMA InitClientInv == InitClient => ClientInv
<1> SUFFICES ASSUME InitClient PROVE ClientInv
  OBVIOUS
<1>1. IndInv
  BY InitInv DEF InitClient
<1>2. FP!Init /\ F!Init
  BY DEF InitClient, F!Init, FP!Init, F!NoOp, FP!NoOp
<1>3. FP!IndInv
  BY <1>2, FP!InitInv, FileOpsAssumptions
<1>4. ASSUME NEW c \in Callers PROVE Linked(c)
  BY <1>2, <1>4 DEF F!Init, F!NoOp, Linked
<1> QED
  BY <1>1, <1>2, <1>3, <1>4 DEF ClientInv, F!Init

LEMMA StepClientInv == ClientInv /\ [NextClient]_allVars => ClientInv'
<1> SUFFICES ASSUME ClientInv, [NextClient]_allVars PROVE ClientInv'
  OBVIOUS
<1>1. IndInv'
  BY MasterSteps, StepInv DEF ClientInv
<1>2. FP!IndInv'
  BY FileInvStep DEF ClientInv
<1>3. moves' = 0
  BY NothingMoves DEF ClientInv
<1>4. \A c \in Callers : Linked(c)'
  BY LinkedStep
<1> QED
  BY <1>1, <1>2, <1>3, <1>4 DEF ClientInv

-----------------------------------------------------------------------------
(* Theorems.                                                                *)

\* Both halves keep their invariants when they are run as one client, and an
\* operation that reports a failed master call follows one.
THEOREM ClientInvariance == SpecClient => []ClientInv
  BY InitClientInv, StepClientInv, PTL DEF SpecClient

\* The masters' half keeps its order of failover under every use the
\* operations make of it.
THEOREM ClientListOrder == SpecClient => []FailoverKeepsListOrder
<1>1. ClientInv => FailoverKeepsListOrder
  BY ListOrderKept DEF ClientInv
<1> QED
  BY ClientInvariance, <1>1, PTL

\* One healthy master is enough for the master call of every operation.
THEOREM ClientOneHealthy == SpecClient => []OneHealthyMasterIsEnough
<1>1. ClientInv => OneHealthyMasterIsEnough
  BY HealthyMasterSuffices DEF ClientInv
<1> QED
  BY ClientInvariance, <1>1, PTL

\* The end-to-end promise: a read fails only at a file whose deletion was asked
\* for, or because a master denied the volume, if one master and one replica
\* are healthy.
THEOREM ReadsAreServed == SpecClient => []WrittenFileIsServed
<1>1. ClientInv => WrittenFileIsServed
  <2> SUFFICES ASSUME ClientInv, Healthy # {}, HealthyReplicas # {},
                      NEW c \in Callers, op[c].stage = "done",
                      op[c].kind = "read", op[c].result # "Ok",
                      op[c].fid \notin deleting
               PROVE  call[c].last = "VolumeNotFound"
    BY DEF WrittenFileIsServed
  <2>1. op[c].result = "MasterFailed"
    <3>1. FP!Served(c) /\ FP!Fresh(c) /\ op[c].epoch \in Nat
      BY DEF ClientInv, FP!IndInv, FP!ClientInv, FP!Types, FP!Frames
    <3>2. op[c].epoch = moves
      BY <3>1 DEF ClientInv, FP!Fresh
    <3> QED
      BY <3>1, <3>2 DEF FP!Served
  <2>2. call[c].phase = "done" /\ call[c].last # "Ok"
    BY <2>1 DEF ClientInv, Linked
  <2>3. ~GaveUp(c)
    BY HealthyMasterSuffices DEF ClientInv, OneHealthyMasterIsEnough
  <2> QED
    BY <2>2, <2>3 DEF GaveUp, Terminal
<1> QED
  BY ClientInvariance, <1>1, PTL

\* The operations over the real sweep are operations over what FileOps assumes
\* of the masters, in every step (its fairness stays with the runs).
THEOREM ImplementsFileOpsSafely == SpecClient => F!Init /\ [][F!Next]_(F!vars)
<1>1. InitClient => F!Init
  BY DEF InitClient
<1>2. [NextClient]_allVars => [F!Next]_(F!vars)
  BY FileSteps
<1> QED
  BY <1>1, <1>2, PTL DEF SpecClient

\* What FileOps promises of files holds over the real sweep: an acknowledged write is
\* on every replica and a file deleted for good is never read.
THEOREM FilePromisesHold ==
  SpecClient => []F!AckedWriteIsOnEveryReplica /\ []F!DeletedFileIsNeverRead
<1>1. ClientInv => F!AckedWriteIsOnEveryReplica
  BY DEF ClientInv, FP!IndInv, FP!Placed, F!AckedWriteIsOnEveryReplica
<1>2. ClientInv => F!DeletedFileIsNeverRead
  BY DEF ClientInv, FP!IndInv, FP!ClientInv, FP!Verdict, F!DeletedFileIsNeverRead,
         F!Returned, FP!Returned
<1> QED
  BY ClientInvariance, <1>1, <1>2, PTL

\* The whole client keeps the promise of FileStore: over real sweeps and real replicas,
\* what the application sees of its files is a behaviour of the abstract store.
THEOREM ClientKeepsStorePromise ==
  SpecClient => FP!Store!Init /\ [][FP!Store!Next]_(FP!Store!vars)
<1>1. InitClient => FP!Store!Init
  <2>1. InitClient => FP!Init /\ FP!IndInv
    BY InitClientInv DEF InitClient, ClientInv, F!Init, FP!Init, F!NoOp, FP!NoOp
  <2> QED
    BY <2>1, FP!InitMaps, FileOpsAssumptions
<1>2. ClientInv /\ [NextClient]_allVars => [FP!Store!Next]_(FP!Store!vars)
  BY FileSteps, FP!StepMaps, FileOpsAssumptions DEF ClientInv
<1> QED
  BY ClientInvariance, <1>1, <1>2, PTL DEF SpecClient
=============================================================================
