----------------------------- MODULE MCServices -----------------------------
(***************************************************************************)
(* One instance for the services that share no state: a behaviour picks    *)
(* one of them at the start and explores it, and the others keep their     *)
(* initial state.                                                          *)
(***************************************************************************)
EXTENDS ProfileVault, EngineTasks, WorkerEgress, ProxyContainers, TLC

CONSTANTS api, sub, site, ip, pub, cdn, lan

\* Names, and a literal of a private address.
MCLiterals == {ip}
MCAbove == [h \in Hosts |-> IF h = sub THEN {api} ELSE {}]
MCLiteralAddr == [h \in Literals |-> lan]
Only(h) == [name |-> h, exact |-> TRUE]
AndBelow(h) == [name |-> h, exact |-> FALSE]

\* Policies of the host: none; an allowlist by default deny; a list of rules.
OpenPolicy ==
  [allowDomains |-> {}, denyDomains |-> {}, allowCIDRs |-> {}, denyCIDRs |-> {},
   allowPorts |-> {}, denyPorts |-> {}, blockPrivate |-> FALSE, defaultDeny |-> FALSE]
MCPolicies ==
  {OpenPolicy,
   [OpenPolicy EXCEPT !.allowDomains = {Only(api), AndBelow(site)},
                      !.denyCIDRs = {cdn}, !.defaultDeny = TRUE],
   [OpenPolicy EXCEPT !.allowCIDRs = {pub}, !.denyDomains = {AndBelow(sub)},
                      !.allowPorts = {443}]}

Wish(preset, domains, noInternet) ==
  [preset |-> preset, domains |-> domains, noInternet |-> noInternet]
MCWishes ==
  {Wish("", {}, FALSE), Wish("", {AndBelow(api)}, FALSE), Wish("api", {Only(api)}, FALSE),
   Wish("offline", {}, FALSE), Wish("dependencies", {}, FALSE),
   Wish("api", {Only(api)}, TRUE)}

VARIABLE service

ServicesInit ==
  /\ service \in {"vault", "tasks", "egress", "proxy"}
  /\ VaultInit /\ TasksInit /\ EgressInit /\ ProxyInit
  /\ service # "vault" => plain = Absent /\ vault = Absent
  /\ service # "egress" => policy = OpenPolicy
  /\ service # "proxy" => box = NoBox /\ \A o \in Owners : print[o] = 0

ServicesNext ==
  /\ UNCHANGED service
  /\ \/ service = "vault" /\ VaultNext
       /\ UNCHANGED <<tasksVars, egressVars, proxyVars>>
     \/ service = "tasks" /\ TasksNext
       /\ UNCHANGED <<vaultVars, egressVars, proxyVars>>
     \/ service = "egress" /\ EgressNext
       /\ UNCHANGED <<vaultVars, tasksVars, proxyVars>>
     \/ service = "proxy" /\ ProxyNext
       /\ UNCHANGED <<vaultVars, tasksVars, egressVars>>

ServicesSpec ==
  ServicesInit /\
    [][ServicesNext]_<<service, vaultVars, tasksVars, egressVars, proxyVars>>

\* Every variable of every service has its type.
ServicesTypeOK ==
  VaultTypeOK /\ TasksTypeOK /\ EgressTypeOK /\ ProxyTypeOK

\* The processes of the services are named alike, so one permutation does.
Symmetry == Permutations(Callers)
=============================================================================
