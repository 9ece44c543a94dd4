----------------------------- MODULE WeedClient -----------------------------
(***************************************************************************)
(* The async client facade (WeedClient, src/src/client.rs): the composition *)
(* of the master half (HaMaster) with the file operations (FileOps). One    *)
(* WeedClient, cloned or shared by several callers, holds one               *)
(* HaMasterClient and one HttpVolumeClient. Every operation begins with a   *)
(* call of the first; when that call returns, its result becomes the        *)
(* locations of the operation or its error.                                 *)
(***************************************************************************)
EXTENDS HaMaster, FiniteSets

CONSTANTS Fids,            \* file ids the masters may assign
          Replicas,        \* the servers that hold the volume
          HealthyReplicas, \* replicas assumed to stay up and answer
          MaxCrashes       \* bound of the model: server crashes

ASSUME ReplicasAssumption == IsFiniteSet(Replicas) /\ HealthyReplicas \subseteq Replicas
ASSUME FidsAssumption == Fids # {}
ASSUME MaxCrashesAssumption == MaxCrashes \in Nat

VARIABLES op, up, holders, stored, late, assigned, acked, deleting, deleted,
          ops, crashes, moves   \* as in FileOps

cluster == <<up, holders, stored, late, assigned>>
files == <<op, cluster, acked, deleting, deleted, ops, crashes, moves>>
allVars == <<vars, files>>

\* Here the volume stays where it is and no caller is a native client.
F == INSTANCE FileOps WITH
       Clients <- Callers, Servers <- Replicas, Healthy <- HealthyReplicas,
       Native <- {}, Hash <- [f \in Fids |-> 0], MaxOps <- MaxCalls, MaxMoves <- 0

\* write calls assign, everything else lookup.
MasterOp(kind) == IF kind = "write" THEN "assign" ELSE "lookup"

\* The masters never run out of file ids.
IdsLeft ==
  LET asking == {c \in Callers : op[c].stage = "master" /\ op[c].kind = "write"}
  IN  Cardinality(assigned) + Cardinality(asking) < Cardinality(Fids)

\* An operation of the facade is called and its first master request goes out.
Execute(c, kind, f) ==
  /\ kind = "write" => IdsLeft
  /\ F!Start(c, kind, f)
  /\ Begin(c, MasterOp(kind))

\* The rest of the operation, from the result of its master call.
CarryOn(c) ==
  \/ Waiting(c)' /\ UNCHANGED files
  \/ /\ ~Waiting(c)' /\ call'[c].last = "Ok"
     /\ \/ \E s \in Replicas, f \in Fids : F!Assigned(c, s, f)
        \/ \E l \in F!Listings : F!LookedUp(c, l)
  \/ ~Waiting(c)' /\ call'[c].last # "Ok" /\ F!MasterFails(c)

\* A master replies, or its request times out. The volume exists: a healthy
\* master does not say otherwise.
MasterReply(c) ==
  /\ Settle(c)
  /\ call'[c].last = "VolumeNotFound" => Index(call[c]) \notin Healthy
  /\ CarryOn(c)

VolumeReply(c) == F!Volume(c) /\ UNCHANGED vars

Cluster ==
  /\ \/ \E c \in Callers : F!Serve(c)
     \/ \E r \in late : F!ServeLate(r)
     \/ \E s \in Replicas : F!Crash(s) \/ F!Restart(s)
  /\ UNCHANGED vars

InitClient == Init /\ F!Init

NextClient ==
  \/ \E c \in Callers :
       \/ \E kind \in F!Kinds, f \in Fids : Execute(c, kind, f)
       \/ MasterReply(c) \/ VolumeReply(c)
  \/ Cluster

\* Each caller's request in flight ends, and a healthy server serves.
FairnessClient ==
  \A c \in Callers :
    /\ WF_allVars(MasterReply(c)) /\ WF_allVars(VolumeReply(c))
    /\ WF_allVars(F!Serve(c) /\ F!Target(op[c]) \in HealthyReplicas
                    /\ UNCHANGED vars)

SpecClient == InitClient /\ [][NextClient]_allVars /\ FairnessClient

-----------------------------------------------------------------------------
(* Properties                                                               *)

\* End to end: with one healthy master and one healthy replica, a written file
\* that nobody deletes can be read, whichever other masters fail and whatever the
\* other replicas do, unless a master denies that the volume exists. A master that
\* answers with locations is taken to name the healthy replica (F!Listings).
WrittenFileIsServed ==
  (Healthy # {} /\ HealthyReplicas # {}) =>
    \A c \in Callers :
      (op[c].stage = "done" /\ op[c].kind = "read" /\ op[c].result # "Ok") =>
        op[c].fid \in deleting \/ call[c].last = "VolumeNotFound"

\* Every operation ends: sweep and replicas together are finite.
EveryOperationEnds == F!EveryOperationEnds

\* What the masters answer to HaMaster is what FileOps assumed of them: the
\* operations over the real sweep implement the operations over the assumption.
ImplementsFileOps == F!Spec
=============================================================================
