------------------------- MODULE TopologyRegistration -------------------------
(***************************************************************************)
(* Metaserver and server registration in the MDS                          *)
(* (src/mds/topology/topology_manager.cpp): RegistMetaServer,              *)
(* RegistServer, DeleteMetaServer and DeleteServer run on concurrent RPC   *)
(* threads.  RegistMetaServer holds a NameLock on the metaserver's         *)
(* ip:port, which orders it against other registrations of that address    *)
(* only; every other handler takes no lock.  Each handler is a sequence of *)
(* separate calls on the Topology store, and the steps of the model are    *)
(* those calls.                                                            *)
(*                                                                         *)
(* The Topology store (topology.cpp) is not in this repository.  Its       *)
(* lookups read the current maps; AddMetaServer fails when the server is   *)
(* gone; Remove* deletes the item.  A metaserver goes OFFLINE when its     *)
(* heartbeats stop, and the scheduler may place copysets on an online      *)
(* metaserver; both come from outside this file and are environment steps. *)
(***************************************************************************)
EXTENDS Naturals, FiniteSets

CONSTANTS
  Handlers,     \* concurrent RPC threads
  Addrs,        \* ip:port endpoints of the metaserver processes
  MaxMsIds,     \* bound: metaserver ids 1 .. MaxMsIds
  MaxServerIds, \* bound: server ids 1 .. MaxServerIds
  MaxCalls,     \* bound on registration and deletion requests
  NoId          \* UNINITIALIZE_ID: the id of a default-constructed item

ASSUME MaxMsIds \in Nat /\ MaxServerIds \in Nat /\ MaxCalls \in Nat
ASSUME NoId \notin Nat

MsIds == 1 .. MaxMsIds
ServerIds == 1 .. MaxServerIds
\* A metaserver record: id, endpoint, server and OnlineState.
MetaServers == [id : MsIds, addr : Addrs, server : ServerIds,
                state : {"ONLINE", "OFFLINE"}]
Servers == [id : ServerIds, addr : Addrs]
Codes == {"none", "OK", "EXIST", "INTERNAL_ERROR", "SERVER_NOT_FOUND",
          "ALLOCATE_ID_FAIL", "IP_PORT_DUPLICATED"}
NoAddr == "noaddr"

VARIABLES
  servers,      \* Topology: registered servers
  metaservers,  \* Topology: registered metaservers
  withCopyset,  \* Topology: metaservers that hold a copyset
  nextMsId,     \* Topology: AllocateMetaServerId
  nextServerId, \* Topology: AllocateServerId
  lock,         \* registMsMutex_: the handler holding each ip:port
  pc,           \* a handler's position
  addr,         \* the endpoint a registration is for
  cand,         \* RegistMetaServer: list[0], or the id being added
  srv,          \* RegistMetaServer: the server found for the endpoint
  resp,         \* the handler's last response: status code and id
  calls

vars == <<servers, metaservers, withCopyset, nextMsId, nextServerId, lock, pc,
          addr, cand, srv, resp, calls>>
storeVars == <<servers, metaservers, withCopyset, nextMsId, nextServerId>>
NoResp == [op |-> "none", code |-> "none", id |-> NoId]
\* The positions inside RegistMetaServer, where the NameLock is held.
MsPcs == {"msList", "msGet", "msServer", "msAlloc", "msAdd"}

MsIdsOf(S) == {m.id : m \in S}

Init ==
  /\ servers = {}
  /\ metaservers = {}
  /\ withCopyset = {}
  /\ nextMsId = 1
  /\ nextServerId = 1
  /\ lock = [a \in Addrs |-> NoAddr]
  /\ pc = [h \in Handlers |-> "idle"]
  /\ addr = [h \in Handlers |-> NoAddr]
  /\ cand = [h \in Handlers |-> NoId]
  /\ srv = [h \in Handlers |-> NoId]
  /\ resp = [h \in Handlers |-> NoResp]
  /\ calls = 0

\* Return from a handler with a status code and id; RegistMetaServer's
\* NameLockGuard releases the endpoint.
Reply(h, code, id) ==
  /\ resp' = [resp EXCEPT ![h] =
                [op |-> IF pc[h] \in MsPcs THEN "RegistMetaServer"
                                           ELSE "RegistServer",
                 code |-> code, id |-> id]]
  /\ pc' = [pc EXCEPT ![h] = "idle"]
  /\ lock' = IF pc[h] \in MsPcs THEN [lock EXCEPT ![addr[h]] = NoAddr]
             ELSE lock

\* RegistMetaServer for the endpoint a takes the NameLock on ip:port.
MsStart(h, a) ==
  /\ pc[h] = "idle"
  /\ calls < MaxCalls
  /\ lock[a] = NoAddr
  /\ lock' = [lock EXCEPT ![a] = h]
  /\ addr' = [addr EXCEPT ![h] = a]
  /\ resp' = [resp EXCEPT ![h] = NoResp]
  /\ pc' = [pc EXCEPT ![h] = "msList"]
  /\ calls' = calls + 1
  /\ UNCHANGED <<storeVars, cand, srv>>

\* GetMetaServerInCluster: the metaservers on this ip:port that are not
\* OFFLINE.  One of them means a duplicated register: TOPO_METASERVER_EXIST
\* if GetCopySetsInMetaServer finds copysets on it, otherwise its id and
\* token are returned.  More than one is TOPO_INTERNAL_ERROR.
MsList(h) ==
  LET list == {m \in metaservers : m.addr = addr[h] /\ m.state # "OFFLINE"}
  IN  /\ pc[h] = "msList"
      /\ \/ /\ Cardinality(list) = 1
            /\ \E m \in list :
                 IF m.id \in withCopyset
                 THEN Reply(h, "EXIST", NoId) /\ UNCHANGED cand
                 ELSE /\ cand' = [cand EXCEPT ![h] = m.id]
                      /\ pc' = [pc EXCEPT ![h] = "msGet"]
                      /\ UNCHANGED <<lock, resp>>
         \/ /\ Cardinality(list) > 1
            /\ Reply(h, "INTERNAL_ERROR", NoId)
            /\ UNCHANGED cand
         \/ /\ list = {}
            /\ pc' = [pc EXCEPT ![h] = "msServer"]
            /\ UNCHANGED <<lock, resp, cand>>
      /\ UNCHANGED <<storeVars, addr, srv, calls>>

\* The duplicated register: topology_->GetMetaServer(list[0], &ms), whose
\* result is not tested, then TOPO_OK with ms.GetId().  A metaserver
\* removed since the list was read leaves ms default-constructed.
MsGet(h) ==
  /\ pc[h] = "msGet"
  /\ Reply(h, "OK", IF cand[h] \in MsIdsOf(metaservers) THEN cand[h] ELSE NoId)
  /\ UNCHANGED <<storeVars, addr, cand, srv, calls>>

\* FindServerByHostIpPort: the server on this ip:port, or
\* TOPO_SERVER_NOT_FOUND.  With two such servers either may be found.
MsServer(h) ==
  LET found == {s \in servers : s.addr = addr[h]}
  IN  /\ pc[h] = "msServer"
      /\ \/ /\ found = {}
            /\ Reply(h, "SERVER_NOT_FOUND", NoId)
            /\ UNCHANGED srv
         \/ /\ \E s \in found : srv' = [srv EXCEPT ![h] = s.id]
            /\ pc' = [pc EXCEPT ![h] = "msAlloc"]
            /\ UNCHANGED <<lock, resp>>
      /\ UNCHANGED <<storeVars, addr, cand, calls>>

\* AllocateMetaServerId (TOPO_ALLOCATE_ID_FAIL once the ids are used up),
\* AllocateToken, GetServer (TOPO_SERVER_NOT_FOUND if it was deleted) and
\* the external ip test, which a request with another external ip fails.
MsAlloc(h) ==
  /\ pc[h] = "msAlloc"
  /\ \/ /\ nextMsId > MaxMsIds
        /\ Reply(h, "ALLOCATE_ID_FAIL", NoId)
        /\ UNCHANGED <<nextMsId, cand>>
     \/ /\ nextMsId <= MaxMsIds
        /\ nextMsId' = nextMsId + 1
        /\ \/ /\ srv[h] \notin {s.id : s \in servers}
              /\ Reply(h, "SERVER_NOT_FOUND", NoId)
              /\ UNCHANGED cand
           \/ /\ srv[h] \in {s.id : s \in servers}
              /\ Reply(h, "INTERNAL_ERROR", NoId)
              /\ UNCHANGED cand
           \/ /\ srv[h] \in {s.id : s \in servers}
              /\ cand' = [cand EXCEPT ![h] = nextMsId]
              /\ pc' = [pc EXCEPT ![h] = "msAdd"]
              /\ UNCHANGED <<lock, resp>>
  /\ UNCHANGED <<servers, metaservers, withCopyset, nextServerId, addr, srv,
                 calls>>

\* AddMetaServer of the new ONLINE metaserver; the store refuses it when
\* its server is gone, and the handler returns that code.
MsAdd(h) ==
  /\ pc[h] = "msAdd"
  /\ \/ /\ srv[h] \in {s.id : s \in servers}
        /\ metaservers' = metaservers \cup
             {[id |-> cand[h], addr |-> addr[h], server |-> srv[h],
               state |-> "ONLINE"]}
        /\ Reply(h, "OK", cand[h])
     \/ /\ srv[h] \notin {s.id : s \in servers}
        /\ Reply(h, "SERVER_NOT_FOUND", NoId)
        /\ UNCHANGED metaservers
  /\ UNCHANGED <<servers, withCopyset, nextMsId, nextServerId, addr, cand,
                 srv, calls>>

\* RegistServer for endpoint a (pool and zone lookups always succeed in
\* this model): FindServerByHostIpPort on the internal and the external
\* endpoint, TOPO_IP_PORT_DUPLICATED if either is taken.  No lock is held.
ServerCheck(h, a) ==
  /\ pc[h] = "idle"
  /\ calls < MaxCalls
  /\ calls' = calls + 1
  /\ addr' = [addr EXCEPT ![h] = a]
  /\ \/ /\ \E s \in servers : s.addr = a
        /\ Reply(h, "IP_PORT_DUPLICATED", NoId)
     \/ /\ \A s \in servers : s.addr # a
        /\ resp' = [resp EXCEPT ![h] = NoResp]
        /\ pc' = [pc EXCEPT ![h] = "srvAdd"]
        /\ UNCHANGED lock
  /\ UNCHANGED <<storeVars, cand, srv>>

\* RegistServer: AllocateServerId (TOPO_ALLOCATE_ID_FAIL once the ids are
\* used up), then AddServer.
ServerAdd(h) ==
  /\ pc[h] = "srvAdd"
  /\ \/ /\ nextServerId > MaxServerIds
        /\ Reply(h, "ALLOCATE_ID_FAIL", NoId)
        /\ UNCHANGED <<servers, nextServerId>>
     \/ /\ nextServerId <= MaxServerIds
        /\ servers' = servers \cup {[id |-> nextServerId, addr |-> addr[h]]}
        /\ nextServerId' = nextServerId + 1
        /\ Reply(h, "OK", NoId)
  /\ UNCHANGED <<metaservers, withCopyset, nextMsId, addr, cand, srv, calls>>

\* DeleteMetaServer: topology_->RemoveMetaServer, whatever its state.
DeleteMetaServer(id) ==
  /\ calls < MaxCalls
  /\ calls' = calls + 1
  /\ metaservers' = {m \in metaservers : m.id # id}
  /\ UNCHANGED <<servers, withCopyset, nextMsId, nextServerId, lock, pc, addr,
                 cand, srv, resp>>

\* DeleteServer: the loop over the server's metaservers removes each
\* OFFLINE one and stops with TOPO_CANNOT_REMOVE_NOT_OFFLINE at the first
\* one that is not, so it may remove some of them only; when all are
\* OFFLINE, RemoveServer follows.
DeleteServer(s) ==
  LET own == {m \in metaservers : m.server = s.id}
      offline == {m \in own : m.state = "OFFLINE"}
  IN  /\ calls < MaxCalls
      /\ calls' = calls + 1
      /\ \/ /\ own = offline
            /\ metaservers' = metaservers \ own
            /\ servers' = servers \ {s}
         \/ /\ own # offline
            /\ \E removed \in SUBSET offline :
                 metaservers' = metaservers \ removed
            /\ UNCHANGED servers
      /\ UNCHANGED <<withCopyset, nextMsId, nextServerId, lock, pc, addr,
                     cand, srv, resp>>

\* Environment: a metaserver's heartbeats stop and it is marked OFFLINE.
GoOffline(m) ==
  /\ m.state = "ONLINE"
  /\ metaservers' = (metaservers \ {m}) \cup {[m EXCEPT !.state = "OFFLINE"]}
  /\ UNCHANGED <<servers, withCopyset, nextMsId, nextServerId, lock, pc, addr,
                 cand, srv, resp, calls>>

\* Environment: the scheduler places a copyset on an online metaserver.
PlaceCopyset(m) ==
  /\ m.state = "ONLINE"
  /\ m.id \notin withCopyset
  /\ withCopyset' = withCopyset \cup {m.id}
  /\ UNCHANGED <<servers, metaservers, nextMsId, nextServerId, lock, pc, addr,
                 cand, srv, resp, calls>>

\* Every request was served.
Done ==
  /\ calls = MaxCalls
  /\ \A h \in Handlers : pc[h] = "idle"
  /\ UNCHANGED vars

Next ==
  \/ \E h \in Handlers :
       \/ \E a \in Addrs : MsStart(h, a) \/ ServerCheck(h, a)
       \/ MsList(h) \/ MsGet(h) \/ MsServer(h) \/ MsAlloc(h) \/ MsAdd(h)
       \/ ServerAdd(h)
  \/ \E id \in MsIds : DeleteMetaServer(id)
  \/ \E s \in servers : DeleteServer(s)
  \/ \E m \in metaservers : GoOffline(m) \/ PlaceCopyset(m)
  \/ Done

Spec == Init /\ [][Next]_vars

-----------------------------------------------------------------------------
(* Properties *)

TypeOK ==
  /\ servers \subseteq Servers /\ metaservers \subseteq MetaServers
  /\ withCopyset \subseteq MsIds
  /\ nextMsId \in 1 .. MaxMsIds + 1 /\ nextServerId \in 1 .. MaxServerIds + 1
  /\ lock \in [Addrs -> Handlers \cup {NoAddr}]
  /\ addr \in [Handlers -> Addrs \cup {NoAddr}]
  /\ cand \in [Handlers -> MsIds \cup {NoId}]
  /\ srv \in [Handlers -> ServerIds \cup {NoId}]
  /\ resp \in [Handlers -> [op : {"none", "RegistMetaServer", "RegistServer"},
                             code : Codes, id : MsIds \cup {NoId}]]
  /\ calls \in 0 .. MaxCalls

\* RegistMetaServer answers a duplicated register with TOPO_OK and the
\* registered metaserver's id and token "to promise the idempotence of the
\* interface": a TOPO_OK registration always names a real metaserver id,
\* never UNINITIALIZE_ID.
RegistOkHasId ==
  \A h \in Handlers :
    resp[h].op = "RegistMetaServer" /\ resp[h].code = "OK" => resp[h].id # NoId
=============================================================================
