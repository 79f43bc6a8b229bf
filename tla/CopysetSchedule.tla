--------------------------- MODULE CopysetSchedule ---------------------------
(***************************************************************************)
(* Copyset configuration changes, scheduled by the MDS and executed by     *)
(* the metaservers, for one copyset.                                       *)
(*                                                                         *)
(* Each metaserver's heartbeat thread (src/metaserver/heartbeat.cpp) loops: *)
(* BuildRequest snapshots the copyset, SendHeartbeat calls the MDS it      *)
(* believes in service and fails over to the next one on an error, and     *)
(* ExecTasks runs ExecOneTask for each CopySetConf in the response.  For a *)
(* leader's report the MDS calls Coordinator::CopySetHeartbeat             *)
(* (src/mds/schedule/coordinator.cpp), which dispatches the pending        *)
(* operator unless it was planned on another epoch.                        *)
(*                                                                         *)
(* Not in this repository, and over-approximated here:                     *)
(*  - the schedulers, which plan an operator on the MDS's topology record; *)
(*  - OperatorController::ApplyOperator, which may order, wait or drop;    *)
(*  - the heartbeat manager, which updates the record from a leader's      *)
(*    report and may answer any report from a metaserver outside the       *)
(*    record with that record (which makes it purge its copy);             *)
(*  - braft: one configuration change at a time, committed later with the  *)
(*    conf epoch incremented; only the leader may change the configuration.*)
(***************************************************************************)
EXTENDS Naturals, FiniteSets

CONSTANTS
  Metaservers,   \* metaservers that may hold a replica
  InitPeers,     \* the copyset's first configuration
  MdsEps,        \* mdsEps_: number of MDS endpoints, indices 0 .. MdsEps-1
  MaxEpoch,      \* bound: no operator is planned at this epoch or later
  MaxMdsRestarts \* bound on MDS restarts and failovers

ASSUME InitPeers \subseteq Metaservers /\ InitPeers # {}
       /\ MdsEps \in Nat \ {0} /\ MaxEpoch \in Nat /\ MaxMdsRestarts \in Nat

\* pb::mds::heartbeat::ConfigChangeType
TRANSFER_LEADER == "TRANSFER_LEADER"
ADD_PEER == "ADD_PEER"
REMOVE_PEER == "REMOVE_PEER"
CHANGE_PEER == "CHANGE_PEER"
ChangeTypes == {TRANSFER_LEADER, ADD_PEER, REMOVE_PEER, CHANGE_PEER}
NONE == "NONE"

\* UNINITIALIZE_ID for an absent metaserver.
NoPeer == "none"

MdsIdx == 0 .. MdsEps - 1

\* No configuration change in progress.
NoChange == [type |-> NONE, target |-> NoPeer, newPeers |-> {}]

\* An operator of OperatorController: its step and the epoch it was
\* planned on.
Operators == [type : ChangeTypes, target : Metaservers,
              old : Metaservers \cup {NoPeer}, startEpoch : Nat]
NoOp == [type |-> NONE, target |-> NoPeer, old |-> NoPeer, startEpoch |-> 0]

\* A CopySetConf of a heartbeat response.  A conf built by the
\* coordinator carries the operator's startEpoch as a history field
\* (planned); a record conf from the heartbeat manager has type NONE.
Confs == [type : ChangeTypes \cup {NONE}, target : Metaservers \cup {NoPeer},
          old : Metaservers \cup {NoPeer}, epoch : Nat,
          peers : SUBSET Metaservers, planned : Nat]

VARIABLES
  peers,       \* braft: the committed configuration
  epoch,       \* braft: the conf epoch of the committed configuration
  leader,      \* braft: the leader replica
  changing,    \* braft: the configuration being changed to, or NoChange
  hosted,      \* metaservers holding a copyset node
  hbPc,        \* heartbeat thread: "build" | "send" | "exec"
  report,      \* the CopySetInfos of the last request: none or one
  resp,        \* the CopySetConfs of the last response
  inService,   \* inServiceIndex_
  activeMds,   \* the MDS endpoint that serves heartbeats
  op,          \* OperatorController: the operator on the copyset, or NoOp
  record,      \* topology record of the copyset: [epoch, peers]
  mdsRestarts,
  applied      \* history: every change ExecOneTask started on the copyset

vars == <<peers, epoch, leader, changing, hosted, hbPc, report, resp,
          inService, activeMds, op, record, mdsRestarts, applied>>
raftVars == <<peers, epoch, leader, changing, hosted>>
mdsVars == <<activeMds, op, record, mdsRestarts>>

Init ==
  /\ peers = InitPeers
  /\ epoch = 1
  /\ leader \in InitPeers
  /\ changing = NoChange
  /\ hosted = InitPeers
  /\ hbPc = [m \in Metaservers |-> "build"]
  /\ report = [m \in Metaservers |-> {}]
  /\ resp = [m \in Metaservers |-> {}]
  /\ inService = [m \in Metaservers |-> 0]
  /\ activeMds \in MdsIdx
  /\ op = NoOp
  /\ record = [epoch |-> 1, peers |-> InitPeers]
  /\ mdsRestarts = 0
  /\ applied = {}
-----------------------------------------------------------------------------
(* The metaserver's heartbeat thread *)

\* GatherCopysetConfChange: the change the node is making, if any.
ConfChange(m) ==
  IF m = leader
  THEN [type |-> changing.type, target |-> changing.target]
  ELSE [type |-> NONE, target |-> NoPeer]

\* BuildRequest with BuildCopysetInfo for the copyset, when this
\* metaserver holds a node of it (GetAllCopysets).
BuildRequest(m) ==
  /\ hbPc[m] = "build"
  /\ report' = [report EXCEPT ![m] =
       IF m \in hosted
       THEN {[isLeader |-> m = leader, epoch |-> epoch, peers |-> peers,
              change |-> ConfChange(m)]}
       ELSE {}]
  /\ hbPc' = [hbPc EXCEPT ![m] = "send"]
  /\ UNCHANGED <<raftVars, resp, inService, mdsVars, applied>>

\* Coordinator::MetaserverGoingToAdd: the pending operator adds m.
MetaserverGoingToAdd(m) ==
  /\ op # NoOp
  /\ op.type \in {ADD_PEER, CHANGE_PEER}
  /\ op.target = m

\* The CopySetConf BuildCopySetConf makes of the ordered operator, for the
\* copyset as the leader reported it.
BuildCopySetConf(info) ==
  [type |-> op.type, target |-> op.target, old |-> op.old,
   epoch |-> info.epoch, peers |-> info.peers, planned |-> op.startEpoch]

\* The CopySetConfs of the response to m.
Respond(m, confs) == resp' = [resp EXCEPT ![m] = confs]

\* Mutant: the startEpoch check of CopySetHeartbeat dropped.
CopySetHeartbeatNoEpochCheck(m, info) ==
  \/ /\ op = NoOp
     /\ Respond(m, {})
     /\ UNCHANGED op
  \/ /\ op # NoOp
     /\ \/ /\ Respond(m, {})
           /\ UNCHANGED op
        \/ /\ Respond(m, {})
           /\ op' = NoOp
        \/ /\ Respond(m, {BuildCopySetConf(info)})
           /\ UNCHANGED op

\* Coordinator::CopySetHeartbeat for a leader's report: op' and the confs
\* of the response.  ApplyOperator (not in this repository) may order the
\* operator, keep waiting, or finish it.  An ordered operator planned on
\* another epoch than the reported one is stale and removed.
CopySetHeartbeat(m, info) ==
  \/ /\ op = NoOp
     /\ Respond(m, {})
     /\ UNCHANGED op
  \/ /\ op # NoOp
     /\ \/ /\ Respond(m, {})
           /\ UNCHANGED op
        \/ /\ Respond(m, {})
           /\ op' = NoOp
        \/ /\ info.epoch # op.startEpoch
           /\ Respond(m, {})
           /\ op' = NoOp
        \/ /\ info.epoch = op.startEpoch
           /\ Respond(m, {BuildCopySetConf(info)})
           /\ UNCHANGED op

\* The record of the copyset as the heartbeat manager (not in this
\* repository) sends it to a metaserver outside that record.
RecordConf ==
  [type |-> NONE, target |-> NoPeer, old |-> NoPeer,
   epoch |-> record.epoch, peers |-> record.peers, planned |-> 0]

\* The MDS serving a heartbeat.  A leader's report updates the record when
\* its epoch is newer, then goes to the coordinator.  A report from a
\* metaserver outside the record, and not about to be added, may be
\* answered with the record.
MdsHeartbeat(m) ==
  \/ /\ report[m] = {}
     /\ Respond(m, {})
     /\ UNCHANGED <<op, record>>
  \/ \E info \in report[m] :
     /\ info.isLeader
     /\ record' = IF info.epoch > record.epoch
                  THEN [epoch |-> info.epoch, peers |-> info.peers]
                  ELSE record
     /\ CopySetHeartbeat(m, info)
  \/ \E info \in report[m] :
     /\ ~info.isLeader
     /\ \/ /\ m \notin record.peers
           /\ ~MetaserverGoingToAdd(m)
           /\ Respond(m, {RecordConf})
        \/ Respond(m, {})
     /\ UNCHANGED <<op, record>>

\* Mutant: the failover index is not taken modulo the endpoint count.
SendHeartbeatNoWrap(m) ==
  /\ hbPc[m] = "send"
  /\ \/ /\ inService[m] = activeMds
        /\ MdsHeartbeat(m)
        /\ hbPc' = [hbPc EXCEPT ![m] = "exec"]
        /\ UNCHANGED inService
     \/ /\ \/ inService' = [inService EXCEPT ![m] = @ + 1]
           \/ UNCHANGED inService
        /\ hbPc' = [hbPc EXCEPT ![m] = "build"]
        /\ UNCHANGED <<resp, op, record>>
  /\ UNCHANGED <<raftVars, report, activeMds, mdsRestarts, applied>>

\* Mutant: no error code moves inServiceIndex_.
SendHeartbeatNoFailover(m) ==
  /\ hbPc[m] = "send"
  /\ \/ /\ inService[m] = activeMds
        /\ MdsHeartbeat(m)
        /\ hbPc' = [hbPc EXCEPT ![m] = "exec"]
     \/ hbPc' = [hbPc EXCEPT ![m] = "build"] /\ UNCHANGED <<resp, op, record>>
  /\ UNCHANGED <<raftVars, report, inService, activeMds, mdsRestarts, applied>>

\* SendHeartbeat.  The MDS at inServiceIndex_ answers, or the call fails:
\* EHOSTDOWN, ETIMEDOUT, ELOGOFF and ERPCTIMEDOUT move inServiceIndex_
\* to the next endpoint, any other error keeps it; HeartbeatWorker then
\* sleeps and builds a new request.
SendHeartbeat(m) ==
  /\ hbPc[m] = "send"
  /\ \/ /\ inService[m] = activeMds
        /\ MdsHeartbeat(m)
        /\ hbPc' = [hbPc EXCEPT ![m] = "exec"]
        /\ UNCHANGED inService
     \/ /\ \/ inService' = [inService EXCEPT ![m] = (@ + 1) % MdsEps]
           \/ UNCHANGED inService
        /\ hbPc' = [hbPc EXCEPT ![m] = "build"]
        /\ UNCHANGED <<resp, op, record>>
  /\ UNCHANGED <<raftVars, report, activeMds, mdsRestarts, applied>>
\* HeartbeatTaskExecutor::NeedPurge: the MDS has no record of the copyset,
\* or its record does not name this metaserver.
NeedPurge(m, conf) ==
  \/ conf.epoch = 0 /\ conf.peers = {}
  \/ m \notin conf.peers

\* The configuration a Do* call asks braft for.  DoChangePeer builds it
\* from the conf's peers, not from the node's own configuration.
NewPeers(conf) ==
  CASE conf.type = ADD_PEER    -> peers \cup {conf.target}
    [] conf.type = REMOVE_PEER -> peers \ {conf.target}
    [] conf.type = CHANGE_PEER -> (conf.peers \ {conf.old}) \cup {conf.target}

\* DoTransferLeader, DoAddPeer, DoRemovePeer, DoChangePeer on the node of m.
\* braft accepts only on the leader with no change in progress, and a
\* transfer only to a member; otherwise the call fails and is logged.
DoConfigChange(m, conf) ==
  IF m = leader /\ changing = NoChange
     /\ (conf.type = TRANSFER_LEADER => conf.target \in peers)
  THEN /\ IF conf.type = TRANSFER_LEADER
          THEN /\ leader' = conf.target
               /\ UNCHANGED changing
          ELSE /\ changing' = [type |-> conf.type, target |-> conf.target,
                               newPeers |-> NewPeers(conf)]
               /\ UNCHANGED leader
       /\ applied' = applied \cup
            {[type |-> conf.type, planned |-> conf.planned, at |-> epoch,
              base |-> conf.peers, actual |-> peers]}
       /\ UNCHANGED <<peers, epoch, hosted>>
  ELSE UNCHANGED <<raftVars, applied>>

\* Mutant: ExecOneTask without the epoch check.
ExecOneTaskNoEpochCheck(m, conf) ==
  \/ /\ m \notin hosted
     /\ UNCHANGED <<raftVars, applied>>
  \/ /\ m \in hosted
     /\ NeedPurge(m, conf)
     /\ hosted' \in {hosted \ {m}, hosted}
     /\ UNCHANGED <<peers, epoch, leader, changing, applied>>
  \/ /\ m \in hosted
     /\ ~NeedPurge(m, conf)
     /\ \/ /\ conf.type = NONE
           /\ UNCHANGED <<raftVars, applied>>
        \/ /\ conf.type # NONE
           /\ DoConfigChange(m, conf)

\* HeartbeatTaskExecutor::ExecOneTask: a missing copyset is skipped, a
\* purge (DoPurgeCopyset, which may fail) comes before the epoch check, a
\* conf of another epoch is refused, a conf without a type does nothing.
ExecOneTask(m, conf) ==
  \/ /\ m \notin hosted
     /\ UNCHANGED <<raftVars, applied>>
  \/ /\ m \in hosted
     /\ NeedPurge(m, conf)
     /\ hosted' \in {hosted \ {m}, hosted}
     /\ UNCHANGED <<peers, epoch, leader, changing, applied>>
  \/ /\ m \in hosted
     /\ ~NeedPurge(m, conf)
     /\ \/ /\ conf.epoch # epoch
           /\ UNCHANGED <<raftVars, applied>>
        \/ /\ conf.epoch = epoch
           /\ conf.type = NONE
           /\ UNCHANGED <<raftVars, applied>>
        \/ /\ conf.epoch = epoch
           /\ conf.type # NONE
           /\ DoConfigChange(m, conf)

\* ExecTasks on the response (at most one conf: one copyset), then
\* WaitForNextExcution.
ExecTasks(m) ==
  /\ hbPc[m] = "exec"
  /\ \/ /\ resp[m] = {}
        /\ UNCHANGED <<raftVars, applied>>
     \/ \E conf \in resp[m] : ExecOneTask(m, conf)
  /\ hbPc' = [hbPc EXCEPT ![m] = "build"]
  /\ resp' = [resp EXCEPT ![m] = {}]
  /\ UNCHANGED <<report, inService, mdsVars>>

-----------------------------------------------------------------------------
(* The environment: braft, the schedulers and the MDS process *)

\* braft commits the configuration change: the conf epoch is incremented
\* and a leader outside the new configuration steps down for a member.
RaftCommit ==
  /\ changing # NoChange
  /\ peers' = changing.newPeers
  /\ epoch' = epoch + 1
  /\ changing' = NoChange
  /\ hosted' = hosted \cup changing.newPeers
  /\ leader' \in IF leader \in changing.newPeers THEN {leader}
                 ELSE changing.newPeers
  /\ UNCHANGED <<hbPc, report, resp, inService, mdsVars, applied>>

\* The operators the schedulers may plan on the record: a transfer to a
\* member, an add of a non-member, a removal that leaves a member, a
\* change of a member for a non-member.
PlannableOps ==
  LET e == record.epoch
      mem == record.peers
      nonMem == Metaservers \ record.peers
  IN  {[type |-> TRANSFER_LEADER, target |-> t, old |-> NoPeer,
        startEpoch |-> e] : t \in mem}
      \cup {[type |-> ADD_PEER, target |-> t, old |-> NoPeer,
             startEpoch |-> e] : t \in nonMem}
      \cup {[type |-> REMOVE_PEER, target |-> t, old |-> NoPeer,
             startEpoch |-> e] : t \in IF Cardinality(mem) > 1 THEN mem ELSE {}}
      \cup {[type |-> CHANGE_PEER, target |-> t, old |-> o,
             startEpoch |-> e] : t \in nonMem, o \in mem}

\* A scheduler of the MDS plans an operator on its record.
PlanOperator ==
  /\ op = NoOp
  /\ record.epoch < MaxEpoch
  /\ op' \in PlannableOps
  /\ UNCHANGED <<raftVars, hbPc, report, resp, inService, activeMds,
                 record, mdsRestarts, applied>>

\* The MDS restarts or another MDS takes over: OperatorController is in
\* memory and starts empty; the topology record is persisted.
MdsRestart ==
  /\ mdsRestarts < MaxMdsRestarts
  /\ activeMds' \in MdsIdx
  /\ op' = NoOp
  /\ mdsRestarts' = mdsRestarts + 1
  /\ UNCHANGED <<raftVars, hbPc, report, resp, inService, record, applied>>

Next ==
  \/ \E m \in Metaservers :
       BuildRequest(m) \/ SendHeartbeat(m) \/ ExecTasks(m)
  \/ RaftCommit
  \/ PlanOperator
  \/ MdsRestart

Spec == Init /\ [][Next]_vars

\* The heartbeat thread runs forever.  A call to the serving MDS
\* eventually succeeds, and a call to an endpoint that serves nothing
\* eventually fails with a code that moves inServiceIndex_ (brpc reports
\* EHOSTDOWN once the connection to a dead server is marked failed).
HeartbeatFairness ==
  \A m \in Metaservers :
    /\ WF_vars(BuildRequest(m))
    /\ WF_vars(ExecTasks(m))
    /\ SF_vars(SendHeartbeat(m) /\ hbPc'[m] = "exec")
    /\ SF_vars(SendHeartbeat(m) /\ inService[m] # activeMds
                                /\ inService'[m] # inService[m])

SpecFailover == Spec /\ HeartbeatFairness

-----------------------------------------------------------------------------
(* Properties *)

Reports ==
  [isLeader : BOOLEAN, epoch : Nat, peers : SUBSET Metaservers,
   change : [type : ChangeTypes \cup {NONE},
             target : Metaservers \cup {NoPeer}]]

TypeOK ==
  /\ peers \subseteq Metaservers /\ peers # {}
  /\ epoch \in Nat /\ leader \in peers
  /\ changing \in {NoChange} \cup [type : ChangeTypes \ {TRANSFER_LEADER},
                                  target : Metaservers,
                                  newPeers : SUBSET Metaservers]
  /\ hosted \subseteq Metaservers
  /\ hbPc \in [Metaservers -> {"build", "send", "exec"}]
  /\ \A m \in Metaservers : report[m] \subseteq Reports /\ Cardinality(report[m]) <= 1
  /\ \A m \in Metaservers : resp[m] \subseteq Confs /\ Cardinality(resp[m]) <= 1
  /\ inService \in [Metaservers -> MdsIdx]
  /\ activeMds \in MdsIdx
  /\ op \in {NoOp} \cup Operators
  /\ record \in [epoch : Nat, peers : SUBSET Metaservers]
  /\ mdsRestarts \in 0 .. MaxMdsRestarts

\* Every configuration change a metaserver starts on its copyset is the
\* one its operator was planned for: it runs at the conf epoch the
\* operator was planned on (Coordinator::CopySetHeartbeat's startEpoch
\* check on the MDS, ExecOneTask's epoch check on the metaserver), and
\* DoChangePeer builds the new configuration from the peers the copyset
\* really has.
ChangesMatchPlan ==
  \A c \in applied : c.planned = c.at /\ c.base = c.actual

\* After any number of MDS failovers, every metaserver's heartbeat keeps
\* reaching the MDS in service: SendHeartbeat's failover walks
\* mdsEps_ round to it.
HeartbeatsReachMds ==
  \A m \in Metaservers : []<>(hbPc[m] = "exec")
=============================================================================
