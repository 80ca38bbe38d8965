------------------------------- MODULE MCNode -------------------------------
(***************************************************************************)
(* The two ledgers of a node, admission and networks, which share no       *)
(* state: a behaviour picks one of them at the start and explores it.      *)
(* Admission has room for one of two allocations; there are an internal    *)
(* and an outer network, a worker on the one and its proxy on either.      *)
(***************************************************************************)
EXTENDS MCKataAdmission, EngineNetworks

CONSTANTS inner, outer, guest, proxy

VARIABLE ledger

NodeInit == ledger \in {"admission", "networks"} /\ Init /\ NetworksInit

NodeNext ==
  /\ UNCHANGED ledger
  /\ \/ ledger = "admission" /\ Next /\ UNCHANGED netVars
     \/ ledger = "networks" /\ NetworksNext /\ UNCHANGED vars

nodeVars == <<ledger, vars, netVars>>

NodeSpec == NodeInit /\ [][NodeNext]_nodeVars

\* Every variable of both ledgers has its type.
NodeTypeOK == TypeOK /\ NetworksTypeOK
=============================================================================
