--------------------------- MODULE EngineNetworks ---------------------------
(***************************************************************************)
(* The node engine's networks (internal/engine network.go,                 *)
(* network_recovery.go, intents.go and the container handlers that use     *)
(* them): records on disk, and the bridges, firewall tables, veths and     *)
(* namespaces that must agree with them.                                   *)
(*                                                                         *)
(* One handler runs at a time (Backend.mu).  It goes through its steps in  *)
(* the order of the code; each can fail, the node can die between two of   *)
(* them, and the host can reboot, which leaves only the disk.              *)
(***************************************************************************)
EXTENDS Naturals, Sequences, FiniteSets

CONSTANTS Nets, Internal,   \* networks, and those without a way out
          Boxes, Guests,    \* containers, and those that are workers
          Nothing,
          MaxOps            \* bound: handlers begun

ASSUME NetworksAssumption ==
  Internal \subseteq Nets /\ Guests \subseteq Boxes /\ MaxOps \in Nat

VARIABLES
  netRecord, \* networks/ID.json: its endpoints, and whether the firewall's
             \* hash was saved
  boxRecord, \* tasks/ID: no directory, an empty one, or the networks recorded
  native,    \* containers that containerd has
  bridge,    \* "bare": made, but without the alias that marks it as owned
  table,     \* networks with their nft table
  link,      \* the veth of a container on a network
  namespace, \* "unsaved": its identity is not the recorded one
  task,      \* containers with a running task
  handler,   \* what the engine is doing, and its next step
  node,      \* the node daemon
  ops

onDisk == <<netRecord, boxRecord, native>>
inKernel == <<bridge, table, link, namespace, task>>
netVars == <<netRecord, boxRecord, native, bridge, table, link, namespace, task,
             handler, node, ops>>

Marks == {"none", "bare", "owned"}
NetRecords == [members : SUBSET Boxes, hash : BOOLEAN]
BoxRecords == [at : {"none", "empty", "saved"}, nets : SUBSET Nets]

\* Nothing stands for a file that is not there, and for no network or container.
ASSUME AbsentNetworkAssumption == Nothing \notin NetRecords \cup Nets \cup Boxes

Handlers == {"createNetwork", "removeNetwork", "connect", "disconnect", "create",
             "clear", "delete", "start", "rebuild", "rehouse"}
HandlerSteps == {"netRecord", "hash", "member", "unmember", "unrecord",
          "mkdir", "record", "rmrecord", "rmdir", "endpoint", "unendpoint",
          "native", "unnative", "task", "stop",
          "bridge", "own", "unbridge", "table", "untable",
          "link", "alias", "unlink", "netns", "identify", "dropns",
          "leave", "unhook", "rejoin", "nothing"}
NoHandler == [by |-> "idle", do |-> "nothing", net |-> Nothing, box |-> Nothing]

NetworksTypeOK ==
  /\ netRecord \in [Nets -> NetRecords \cup {Nothing}]
  /\ boxRecord \in [Boxes -> BoxRecords]
  /\ native \subseteq Boxes /\ table \subseteq Nets /\ task \subseteq Boxes
  /\ bridge \in [Nets -> Marks] /\ link \in [Nets -> [Boxes -> Marks]]
  /\ namespace \in [Boxes -> {"none", "unsaved", "saved"}]
  /\ handler \in [by : Handlers \cup {"idle"}, do : HandlerSteps, net : Nets \cup {Nothing},
                  box : Boxes \cup {Nothing}]
  /\ node \in {"down", "opening", "up"} /\ ops \in 0..MaxOps

NetworksInit ==
  /\ netRecord = [n \in Nets |-> Nothing]
  /\ boxRecord = [b \in Boxes |-> [at |-> "none", nets |-> {}]]
  /\ native = {} /\ table = {} /\ task = {}
  /\ bridge = [n \in Nets |-> "none"]
  /\ link = [n \in Nets |-> [b \in Boxes |-> "none"]]
  /\ namespace = [b \in Boxes |-> "none"]
  /\ handler = NoHandler /\ node = "up" /\ ops = 0

Recorded(b) == boxRecord[b].at = "saved"
NetsOf(b) == boxRecord[b].nets
Members(n) == IF netRecord[n] = Nothing THEN {} ELSE netRecord[n].members

-----------------------------------------------------------------------------
\* The steps of each handler, in the order of the code.

\* materializeNetwork: the hash is saved once the firewall is in place.
Materialize == <<"bridge", "own", "table", "hash">>

\* createNetwork: "intent is durable before host mutation".
CreateNetworkSteps == <<"netRecord">> \o Materialize

\* removeNetwork.
RemoveNetworkSteps == <<"unbridge", "untable", "unrecord">>

\* newNamespace.
NamespaceSteps == <<"netns", "identify">>

\* materializeEndpoint: the veth exists before it has the owner's alias.
EndpointSteps == <<"link", "alias">>

\* Mutant: the interface is made before it is recorded.
ConnectSteps_LinkFirst == EndpointSteps \o <<"member", "endpoint">>

\* connect: network record, container record, interface.
ConnectSteps == <<"member", "endpoint">> \o EndpointSteps

\* disconnect: interface, network record, container record.
DisconnectSteps == <<"unlink", "unmember", "unendpoint">>

\* create.
CreateSteps == <<"mkdir", "record">> \o NamespaceSteps \o ConnectSteps \o <<"native">>

\* cancelCreation, and its clearIntent: os.RemoveAll empties the directory
\* before removing it.
ClearIntent == <<"unnative", "leave", "dropns", "rmrecord", "rmdir">>

\* DELETE of a container: task, networks, namespace, containerd, records.
DeleteSteps == <<"stop", "leave", "dropns", "unnative", "rmrecord", "rmdir">>

\* refreshWorkerNamespace, then the task: a guest starts in a fresh namespace.
StartSteps == <<"unhook", "dropns">> \o NamespaceSteps \o <<"rejoin", "task">>

\* recoverNetworks: a network, and a container's namespace, made anew.
RebuildSteps == <<"untable">> \o Materialize
RehouseSteps == <<"unhook">> \o NamespaceSteps \o <<"rejoin">>

StepsOf(by) ==
  CASE by = "createNetwork" -> CreateNetworkSteps
    [] by = "removeNetwork" -> RemoveNetworkSteps
    [] by = "connect" -> ConnectSteps
    [] by = "disconnect" -> DisconnectSteps
    [] by = "create" -> CreateSteps
    [] by = "clear" -> ClearIntent
    [] by = "delete" -> DeleteSteps
    [] by = "start" -> StartSteps
    [] by = "rebuild" -> RebuildSteps
    [] by = "rehouse" -> RehouseSteps

\* "leave" (removeNamespace), "unhook" and "rejoin" go through the networks of
\* the container and come back for the next one.
LoopsOf(by) ==
  CASE by \in {"clear", "delete"} -> {DisconnectSteps \o <<"leave">>}
    [] by \in {"start", "rehouse"} -> {<<"unlink", "unhook">>, EndpointSteps \o <<"rejoin">>}
    [] OTHER -> {}

Remaining(i) ==
  CASE i.do = "leave" -> {n \in Nets : i.box \in Members(n)}
    [] i.do = "unhook" -> {n \in NetsOf(i.box) : link[n][i.box] # "none"}
    [] i.do = "rejoin" -> {n \in NetsOf(i.box) : link[n][i.box] = "none"}

-----------------------------------------------------------------------------
\* Requests, from a product that uses an internal network only once its creation
\* was answered (Manager.CreateKataWorkerNetwork); the network of the proxies is
\* adopted by name, even half made (Manager.EnsureEgressNetwork).
Confirmed(n) == netRecord[n] # Nothing /\ netRecord[n].hash
Usable(n) == netRecord[n] # Nothing /\ (n \in Internal => Confirmed(n))

\* connect's refusals: a worker has one network, and that has no way out.
MayJoin(b, n) ==
  /\ n \notin NetsOf(b)
  /\ b \in Guests => n \in Internal /\ NetsOf(b) = {}

Serve(by, do, n, b) ==
  /\ node = "up" /\ handler = NoHandler /\ ops < MaxOps /\ ops' = ops + 1
  /\ handler' = [by |-> by, do |-> do, net |-> n, box |-> b]
  /\ UNCHANGED <<netRecord, boxRecord, native, bridge, table, link, namespace,
                 task, node>>

CreateNetwork(n) ==
  netRecord[n] = Nothing /\ Serve("createNetwork", "netRecord", n, Nothing)

RemoveNetwork(n) ==
  /\ netRecord[n] # Nothing /\ Members(n) = {}
  /\ Serve("removeNetwork", "unbridge", n, Nothing)

CreateBox(n, b) ==
  /\ boxRecord[b].at = "none" /\ Usable(n) /\ MayJoin(b, n)
  /\ Serve("create", "mkdir", n, b)

Connect(n, b) ==
  /\ b \in native /\ Usable(n) /\ MayJoin(b, n)
  /\ Serve("connect", ConnectSteps[1], n, b)

Disconnect(n, b) ==
  b \in native /\ b \in Members(n) /\ Serve("disconnect", "unlink", n, b)

\* start: a guest needs its one recorded endpoint.
Start(b) ==
  /\ b \in native \ task
  /\ b \in Guests => /\ Cardinality(NetsOf(b)) = 1
                     /\ \A n \in NetsOf(b) : n \in Internal /\ b \in Members(n)
  /\ Serve("start", IF b \in Guests THEN "unhook" ELSE "task", Nothing, b)

Delete(b) == b \in native /\ Serve("delete", "stop", Nothing, b)

Open ==
  /\ node = "down" /\ node' = "opening" /\ ops < MaxOps /\ ops' = ops + 1
  /\ UNCHANGED <<netRecord, boxRecord, native, bridge, table, link, namespace,
                 task, handler>>

-----------------------------------------------------------------------------
\* What a step refuses: ip cannot make what exists, and nothing is deleted
\* that lacks the owner's mark or the recorded identity (deleteEndpointLink,
\* removeNetwork, dropNamespace).
Possible(i) ==
  /\ i.do = "bridge" => bridge[i.net] = "none"
  /\ i.do = "netns" => namespace[i.box] = "none"
  /\ i.do = "link" => /\ link[i.net][i.box] = "none" /\ bridge[i.net] # "none"
                      /\ namespace[i.box] # "none"
  /\ i.do = "unlink" => link[i.net][i.box] # "bare"
  /\ i.do = "unbridge" => bridge[i.net] # "bare"
  /\ i.do = "dropns" => namespace[i.box] # "unsaved"

\* saveNetwork, and the removal of its file.
WriteNetwork(i) ==
  /\ \/ i.do = "netRecord" /\ netRecord' = [netRecord EXCEPT ![i.net] =
                                              [members |-> {}, hash |-> FALSE]]
     \/ i.do = "hash" /\ netRecord' = [netRecord EXCEPT ![i.net].hash = TRUE]
     \/ i.do = "member" /\ netRecord' = [netRecord EXCEPT ![i.net].members = @ \cup {i.box}]
     \/ i.do = "unmember" /\ netRecord' = [netRecord EXCEPT ![i.net].members = @ \ {i.box}]
     \/ i.do = "unrecord" /\ netRecord' = [netRecord EXCEPT ![i.net] = Nothing]
  /\ UNCHANGED <<boxRecord, native, inKernel>>

\* save: the directory, then the record; disconnect finds no container to
\* update once containerd has none.
WriteBox(i) ==
  /\ \/ i.do \in {"mkdir", "rmrecord"} /\ boxRecord' = [boxRecord EXCEPT ![i.box] =
                                              [at |-> "empty", nets |-> {}]]
     \/ i.do = "record" /\ boxRecord' = [boxRecord EXCEPT ![i.box].at = "saved"]
     \/ i.do = "rmdir" /\ boxRecord' = [boxRecord EXCEPT ![i.box].at = "none"]
     \/ i.do = "endpoint" /\ boxRecord' = [boxRecord EXCEPT ![i.box].nets = @ \cup {i.net}]
     \/ i.do = "unendpoint" /\ boxRecord' = [boxRecord EXCEPT ![i.box].nets =
                                 IF i.box \in native THEN @ \ {i.net} ELSE @]
  /\ UNCHANGED <<netRecord, native, inKernel>>

\* containerd.
Containerd(i) ==
  /\ \/ i.do = "native" /\ native' = native \cup {i.box} /\ UNCHANGED task
     \/ i.do = "unnative" /\ native' = native \ {i.box} /\ UNCHANGED task
     \/ i.do = "task" /\ task' = task \cup {i.box} /\ UNCHANGED native
     \/ i.do = "stop" /\ task' = task \ {i.box} /\ UNCHANGED native
  /\ UNCHANGED <<netRecord, boxRecord, bridge, table, link, namespace>>

\* ip and nft on a network's bridge and table.
Bridges(i) ==
  /\ \/ i.do = "bridge" /\ bridge' = [bridge EXCEPT ![i.net] = "bare"] /\ UNCHANGED table
     \/ i.do = "own" /\ bridge' = [bridge EXCEPT ![i.net] = "owned"] /\ UNCHANGED table
     \/ i.do = "unbridge" /\ bridge' = [bridge EXCEPT ![i.net] = "none"] /\ UNCHANGED table
     \/ i.do = "table" /\ table' = table \cup {i.net} /\ UNCHANGED bridge
     \/ i.do = "untable" /\ table' = table \ {i.net} /\ UNCHANGED bridge
  /\ UNCHANGED <<onDisk, link, namespace, task>>

\* ip on a container's veths and namespace, which takes its veths with it.
Links(i) ==
  /\ \/ i.do = "link" /\ link' = [link EXCEPT ![i.net][i.box] = "bare"] /\ UNCHANGED namespace
     \/ i.do = "alias" /\ link' = [link EXCEPT ![i.net][i.box] = "owned"] /\ UNCHANGED namespace
     \/ i.do = "unlink" /\ link' = [link EXCEPT ![i.net][i.box] = "none"] /\ UNCHANGED namespace
     \/ i.do = "netns" /\ namespace' = [namespace EXCEPT ![i.box] = "unsaved"] /\ UNCHANGED link
     \/ i.do = "identify" /\ namespace' = [namespace EXCEPT ![i.box] = "saved"] /\ UNCHANGED link
     \/ /\ i.do = "dropns" /\ namespace' = [namespace EXCEPT ![i.box] = "none"]
        /\ link' = [n \in Nets |-> [link[n] EXCEPT ![i.box] = "none"]]
  /\ UNCHANGED <<onDisk, bridge, table, task>>

\* The step after this one, in the handler or in a loop of it; the handler
\* ends with its last step.
Advance ==
  LET q == StepsOf(handler.by) IN
  \/ handler.do = q[Len(q)] /\ handler' = NoHandler
  \/ \E p \in {q} \cup LoopsOf(handler.by) : \E k \in 1..(Len(p) - 1) :
       handler.do = p[k] /\ handler' = [handler EXCEPT !.do = p[k + 1]]

Execute ==
  /\ handler # NoHandler /\ Possible(handler)
  /\ \/ WriteNetwork(handler) \/ WriteBox(handler) \/ Containerd(handler)
     \/ Bridges(handler) \/ Links(handler)
  /\ Advance /\ UNCHANGED <<node, ops>>

\* The next network of a loop, or the step after the loop.
NextNetwork ==
  /\ handler.do \in {"leave", "unhook", "rejoin"}
  /\ \/ Remaining(handler) = {} /\ Advance
     \/ \E n \in Remaining(handler) :
          handler' = [handler EXCEPT !.net = n,
                        !.do = IF handler.do = "rejoin" THEN "link" ELSE "unlink"]
  /\ UNCHANGED <<netRecord, boxRecord, native, bridge, table, link, namespace,
                 task, node, ops>>

\* A step fails: create undoes what it made once its record is saved, Open is not
\* served, anything else is left as it is.  A creation that containerd did not
\* answer "may have committed".
Fail ==
  /\ handler # NoHandler
  /\ \/ native' = native
     \/ handler.do = "native" /\ native' = native \cup {handler.box}
  /\ handler' = IF handler.by # "create" \/ handler.do \in {"mkdir", "record"}
                THEN NoHandler
                ELSE [handler EXCEPT !.by = "clear",
                        !.do = IF handler.box \in native' THEN "unnative" ELSE "leave"]
  /\ node' = IF node = "opening" THEN "down" ELSE node
  /\ UNCHANGED <<netRecord, boxRecord, bridge, table, link, namespace, task, ops>>

-----------------------------------------------------------------------------
\* recoverIntents: containers that containerd does not have.
Intents == {b \in Boxes : boxRecord[b].at # "none" /\ b \notin native}

\* recoverNetworks: networks and namespaces that a reboot took.
Unbuilt == {n \in Nets : netRecord[n] # Nothing /\ bridge[n] = "none"}
Homeless == {b \in native : namespace[b] = "none"}

\* Mutant: an existing bridge is taken as it is.
Verified_Always(n) == TRUE

\* verifyNetwork, skipped for a network whose hash was never saved.
Verified(n) == netRecord[n] # Nothing /\ netRecord[n].hash =>
                 bridge[n] = "owned" /\ n \in table

\* An absent network is rebuilt only if it is idle and its members are known.
Rebuildable(n) ==
  /\ Members(n) \subseteq native \ task
  /\ n \in table => netRecord[n].hash

\* Mutant: the namespaces of all containers are made anew.
Lost_All == native

\* The containers whose namespace is made anew.
Lost == Homeless

\* Open's recovery begins with the next object to reconcile, or ends with an
\* error, which is NodeDies.
Reconcile ==
  /\ node = "opening" /\ handler = NoHandler
  /\ \A b \in Boxes : boxRecord[b].at # "empty"
  /\ \/ \E b \in Intents :
          handler' = [by |-> "clear", do |-> "leave", net |-> Nothing, box |-> b]
     \/ /\ Intents = {}
        /\ \E n \in Unbuilt :
             /\ Rebuildable(n)
             /\ handler' = [by |-> "rebuild", net |-> n, box |-> Nothing,
                            do |-> IF n \in table THEN "untable" ELSE "bridge"]
     \/ /\ Intents = {} /\ Unbuilt = {} /\ \A n \in Nets : Verified(n)
        /\ \A b \in native : namespace[b] # "unsaved"
        /\ \E b \in Lost :
             /\ b \in task => namespace[b] # "none"
             /\ \A n \in NetsOf(b) : b \in Members(n)
             /\ handler' = [by |-> "rehouse", do |-> "unhook", net |-> Nothing, box |-> b]
  /\ UNCHANGED <<netRecord, boxRecord, native, bridge, table, link, namespace,
                 task, node, ops>>

\* Nothing is left to reconcile: the node serves.
Recovered ==
  /\ node = "opening" /\ handler = NoHandler
  /\ Intents = {} /\ Unbuilt = {} /\ \A n \in Nets : Verified(n)
  /\ \A b \in native : namespace[b] = "saved"
  /\ node' = "up"
  /\ UNCHANGED <<netRecord, boxRecord, native, bridge, table, link, namespace,
                 task, handler, ops>>

NodeDies ==
  /\ node # "down" /\ node' = "down" /\ handler' = NoHandler
  /\ UNCHANGED <<netRecord, boxRecord, native, bridge, table, link, namespace,
                 task, ops>>

\* Bridges, tables, veths, namespaces and tasks do not survive a reboot.
HostReboots ==
  /\ node' = "down" /\ handler' = NoHandler /\ bridge # [n \in Nets |-> "none"]
  /\ bridge' = [n \in Nets |-> "none"] /\ table' = {} /\ task' = {}
  /\ link' = [n \in Nets |-> [b \in Boxes |-> "none"]]
  /\ namespace' = [b \in Boxes |-> "none"]
  /\ UNCHANGED <<onDisk, ops>>

TaskExits(b) ==
  /\ b \in task /\ task' = task \ {b}
  /\ UNCHANGED <<onDisk, bridge, table, link, namespace, handler, node, ops>>

-----------------------------------------------------------------------------
NetworksNext ==
  \/ \E n \in Nets : CreateNetwork(n) \/ RemoveNetwork(n)
  \/ \E n \in Nets, b \in Boxes : CreateBox(n, b) \/ Connect(n, b) \/ Disconnect(n, b)
  \/ \E b \in Boxes : Start(b) \/ Delete(b) \/ TaskExits(b)
  \/ Open \/ Execute \/ NextNetwork \/ Fail \/ Reconcile \/ Recovered \/ NodeDies \/ HostReboots

NetworksSpec == NetworksInit /\ [][NetworksNext]_netVars

-----------------------------------------------------------------------------
\* A running worker has no interface but on an internal bridge that carries
\* its firewall, whatever was interrupted or rebuilt before (network.go
\* networkRecord, materializeNetwork).
GuestBehindFirewall ==
  \A b \in Guests \cap task : \A n \in Nets :
    link[n][b] # "none" => n \in Internal /\ bridge[n] = "owned" /\ n \in table

\* What the kernel or containerd holds has a record that a later recovery or
\* deletion finds it by (network.go createNetwork, connect; intents.go).
LeftoversAreRecorded ==
  /\ \A n \in Nets : bridge[n] # "none" \/ n \in table => netRecord[n] # Nothing
  /\ \A n \in Nets, b \in Boxes : link[n][b] # "none" => b \in Members(n)
  /\ \A b \in Boxes : namespace[b] # "none" \/ b \in native => Recorded(b)
  /\ task \subseteq native

\* A restart of the node leaves the network of a running task alone
\* (recovery.go recover, network_recovery.go recoverNetworks).
RestartSparesTasks ==
  [][node = "opening" => \A b \in task \cap task' :
       /\ namespace'[b] = namespace[b]
       /\ \A n \in Nets : link[n][b] # "none" =>
            <<link[n][b], bridge[n], n \in table>>'
              = <<link[n][b], bridge[n], n \in table>>]_netVars
=============================================================================
