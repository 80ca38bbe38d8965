---------------------------- MODULE WorkerEgress ----------------------------
(***************************************************************************)
(* How a worker reaches the network: the plan its launch makes from the    *)
(* host's policy (cmd/run.go, pkg/cxd launch), the proxy container that    *)
(* enforces it (workeregress.Ensure, cmd ensureProxyContainer), the        *)
(* worker's network to which that proxy is attached and pinned             *)
(* (sandbox.Manager, network.Manager), and the connections the proxy makes *)
(* for it (authproxy forward.go, networkpolicy dialer.go).                 *)
(*                                                                         *)
(* Policy proxies are named by their rules and never replaced; the host's  *)
(* policy, the proxies and the DNS change at any time.                     *)
(***************************************************************************)
EXTENDS NetworkPolicy

CONSTANTS Workers,
          Policies,    \* host policies that the configuration may hold
          Wishes,      \* what launches ask for
          Launchers,   \* "cli" and "product"
          NoPlan,
          MaxProxies   \* bound: egress proxies at a time

ASSUME EgressAssumption ==
  /\ Policies \subseteq Rules /\ Wishes \subseteq Requests
  /\ Launchers \subseteq {"cli", "product"} /\ MaxProxies \in Nat

VARIABLES
  policy,    \* the host's egress policy, as configured now
  proxies,   \* egress proxy containers
  plan,      \* what a worker's launch decided
  at,        \* how far a worker has come
  attached,  \* the egress proxies on a worker's network, by name
  flow       \* a connection through a proxy

egressVars == <<policy, proxies, plan, at, attached, flow>>

\* The shared proxy, and workeregress.Name.
Shared == <<"http">>
Name(r) == <<"policy", r>>

Plans == [via : {<<>>, Shared} \cup ({"policy"} \X Rules), rules : Rules,
          ceiling : Policies, named : SUBSET Domains]
ASSUME NoPlanAssumption == NoPlan \notin Plans

NoFlow == [stage |-> "none", worker |-> NoPlan, host |-> NoPlan, port |-> 0, answer |-> {},
           address |-> NoPlan]

EgressTypeOK ==
  /\ policy \in Policies
  /\ \A p \in proxies :
       /\ DOMAIN p = {"name", "label", "args", "up"}
       /\ p.label \in Rules /\ ParseProxyRules(p.args) \in Rules /\ p.up \in BOOLEAN
  /\ plan \in [Workers -> Plans \cup {NoPlan}]
  /\ at \in [Workers -> {"none", "planned", "creating", "starting", "ready",
                         "attached", "running", "stopped"}]
  /\ \A w \in Workers : at[w] = "none" <=> plan[w] = NoPlan
  /\ flow.stage \in {"none", "named", "resolved", "open", "denied"}
  /\ flow.answer \subseteq Addrs

EgressInit ==
  /\ policy \in Policies /\ proxies = {} /\ plan = [w \in Workers |-> NoPlan]
  /\ at = [w \in Workers |-> "none"] /\ attached = [w \in Workers |-> {}] /\ flow = NoFlow

-----------------------------------------------------------------------------
\* The container of a name, and forwardPolicy of the proxy that runs in it.
Container(n) == {p \in proxies : p.name = n}
Up(n) == \E p \in Container(n) : p.up
Enforced(n) == ParseProxyRules((CHOOSE p \in Container(n) : TRUE).args)

\* proxies, with the container of a name replaced.
With(n, p) == (proxies \ Container(n)) \cup p

\* The connections through a proxy end with it.
Cut(n) == IF flow.stage # "none" /\ plan[flow.worker].via = n THEN NoFlow ELSE flow

\* The configuration or the product's EgressPolicy is edited; nothing else is.
EditPolicy ==
  /\ \E r \in Policies \ {policy} : policy' = r
  /\ UNCHANGED <<proxies, plan, at, attached, flow>>

\* `proxy run' and offerToStartProxy: the shared proxy; one that exists with
\* another policy is refused (checkProxyPolicy).
ProxyRun ==
  LET rules == [policy EXCEPT !.blockPrivate = TRUE] IN
  /\ Container(Shared) = {} => Cardinality(proxies) < MaxProxies
  /\ \A p \in Container(Shared) : p.label = rules
  /\ proxies' = With(Shared, {[name |-> Shared, label |-> rules,
                               args |-> ServeArgs(rules), up |-> TRUE]})
  /\ UNCHANGED <<policy, plan, at, attached, flow>>

\* `proxy stop' and `proxy rm', or the container exits.
ProxyStop(n) ==
  /\ Up(n)
  /\ proxies' = With(n, {[p EXCEPT !.up = FALSE] : p \in Container(n)}) /\ flow' = Cut(n)
  /\ UNCHANGED <<policy, plan, at, attached>>

ProxyRm(n) ==
  /\ Container(n) # {} /\ proxies' = With(n, {}) /\ flow' = Cut(n)
  /\ attached' = [w \in Workers |-> attached[w] \ {n}]
  /\ UNCHANGED <<policy, plan, at>>

-----------------------------------------------------------------------------
\* The preset decides, then --no-internet; a policy proxy is used when there
\* is a policy to enforce.
Managed(by, q) ==
  IF by = "product" THEN Wanted(q) # {} \/ Configured(policy)
  ELSE Wanted(q) # {} \/ policy.defaultDeny

GoesOffline(q) == q.noInternet \/ ResolvedOffline(policy, q)

\* Client.launch, or runWorker with workerEgressSpec, which names the proxy
\* before it blocks private addresses.
NewPlan(by, q) ==
  LET rules == Resolved(policy, q)
      safe == [rules EXCEPT !.blockPrivate = TRUE] IN
  [via |-> IF GoesOffline(q) THEN <<>>
           ELSE IF ~Managed(by, q) THEN Shared
           ELSE Name(IF by = "product" THEN safe ELSE rules),
   rules |-> safe, ceiling |-> policy,
   named |-> IF Offline(q) THEN {} ELSE Wanted(q)]

Launch(w, by, q) ==
  /\ at[w] = "none" /\ Resolves(policy, q)
  /\ by = "product" /\ GoesOffline(q) => Wanted(q) = {}
  /\ plan' = [plan EXCEPT ![w] = NewPlan(by, q)]
  /\ at' = [at EXCEPT ![w] = IF NewPlan(by, q).via \in {<<>>, Shared}
                               THEN "ready" ELSE "planned"]
  /\ UNCHANGED <<policy, proxies, attached, flow>>

\* Any error, and the removal of a worker.
Drop(w) ==
  /\ at[w] # "none" /\ at' = [at EXCEPT ![w] = "none"]
  /\ plan' = [plan EXCEPT ![w] = NoPlan] /\ attached' = [attached EXCEPT ![w] = {}]
  /\ flow' = IF flow.worker = w THEN NoFlow ELSE flow
  /\ UNCHANGED <<policy, proxies>>

\* Ensure: an existing proxy must advertise exactly these rules.
Adopt(w) ==
  /\ at[w] = "planned"
  /\ \/ /\ \E p \in Container(plan[w].via) :
             /\ p.label = plan[w].rules
             /\ proxies' = With(p.name, {[p EXCEPT !.up = TRUE]})
        /\ at' = [at EXCEPT ![w] = "ready"]
     \/ /\ Container(plan[w].via) = {} /\ at' = [at EXCEPT ![w] = "creating"]
        /\ UNCHANGED proxies
  /\ UNCHANGED <<policy, plan, attached, flow>>

\* Another launch may have created it meanwhile: the name conflicts.
CreateProxy(w) ==
  /\ at[w] = "creating" /\ Container(plan[w].via) = {}
  /\ Cardinality(proxies) < MaxProxies
  /\ proxies' = proxies \cup {[name |-> plan[w].via, label |-> plan[w].rules,
                               args |-> ServeArgs(plan[w].rules), up |-> FALSE]}
  /\ at' = [at EXCEPT ![w] = "starting"]
  /\ UNCHANGED <<policy, plan, attached, flow>>

StartProxy(w) ==
  /\ at[w] = "starting" /\ Container(plan[w].via) # {}
  /\ proxies' = With(plan[w].via, {[p EXCEPT !.up = TRUE] : p \in Container(plan[w].via)})
  /\ at' = [at EXCEPT ![w] = "ready"]
  /\ UNCHANGED <<policy, plan, attached, flow>>

\* proxyContainerNames and ConnectProxy: offline, no egress proxy is attached.
AttachProxy(w) ==
  /\ at[w] = "ready" /\ at' = [at EXCEPT ![w] = "attached"]
  /\ \/ plan[w].via = <<>> /\ UNCHANGED attached
     \/ /\ Container(plan[w].via) # {}
        /\ attached' = [attached EXCEPT ![w] = {plan[w].via}]
  /\ UNCHANGED <<policy, proxies, plan, flow>>

\* KataProxyHosts: every selected proxy runs and is on the worker's network.
Pinned(w) ==
  \A n \in {plan[w].via} \ {<<>>} : Up(n) /\ n \in attached[w]

\* RunContext, and StartContext of a stopped worker (validateKataWorker).
RunWorker(w) ==
  /\ at[w] \in {"attached", "stopped"} /\ Pinned(w)
  /\ at' = [at EXCEPT ![w] = "running"]
  /\ UNCHANGED <<policy, proxies, plan, attached, flow>>

StopWorkerEgress(w) ==
  /\ at[w] = "running" /\ at' = [at EXCEPT ![w] = "stopped"]
  /\ flow' = IF flow.worker = w THEN NoFlow ELSE flow
  /\ UNCHANGED <<policy, proxies, plan, attached>>

-----------------------------------------------------------------------------
\* What a worker's environment and network let it use.
Reaches(w) == at[w] = "running" /\ plan[w].via \in attached[w] /\ Up(plan[w].via)

\* handleForwardConnect, handleForwardHTTP: the destination is checked first.
Ask(w, h, p) ==
  /\ flow' = [NoFlow EXCEPT !.worker = w, !.host = h, !.port = p,
       !.stage = IF DestinationAllowed(Enforced(plan[w].via), h, p)
                 THEN "named" ELSE "denied"]
  /\ UNCHANGED <<policy, proxies, plan, at, attached>>

Request(w, h, p) == flow.stage = "none" /\ Reaches(w) /\ Ask(w, h, p)

\* policyTransport.RoundTrip: http.Client follows a redirect through it.
Redirect(h, p) == flow.stage = "open" /\ Ask(flow.worker, h, p)

\* Dialer.DialContext: the whole answer is checked before any connection.
AnswerAllowed(r, answer) == answer # {} /\ \A a \in answer : AddressAllowed(r, a)

Resolve ==
  /\ flow.stage = "named"
  /\ \E answer \in Answers(flow.host) \ {{}} :
       flow' = [flow EXCEPT !.answer = answer,
         !.stage = IF AnswerAllowed(Enforced(plan[flow.worker].via), answer)
                   THEN "resolved" ELSE "denied"]
  /\ UNCHANGED <<policy, proxies, plan, at, attached>>

\* connectVerified: an address that was checked, also through an upstream.
Dial ==
  /\ flow.stage = "resolved"
  /\ \E a \in flow.answer : flow' = [flow EXCEPT !.stage = "open", !.address = a]
  /\ UNCHANGED <<policy, proxies, plan, at, attached>>

\* Either side closes, or DNS or the connection fails.
EndFlow ==
  /\ flow.stage # "none" /\ flow' = NoFlow
  /\ UNCHANGED <<policy, proxies, plan, at, attached>>

-----------------------------------------------------------------------------
EgressNext ==
  \/ EditPolicy \/ ProxyRun \/ Resolve \/ Dial \/ EndFlow
  \/ \E p \in proxies : ProxyStop(p.name) \/ ProxyRm(p.name)
  \/ \E w \in Workers :
       \/ \E by \in Launchers, q \in Wishes : Launch(w, by, q)
       \/ Drop(w) \/ Adopt(w) \/ CreateProxy(w) \/ StartProxy(w) \/ AttachProxy(w)
       \/ RunWorker(w) \/ StopWorkerEgress(w)
       \/ \E h \in Hosts, p \in Ports : Request(w, h, p)
  \/ \E h \in Hosts, p \in Ports : Redirect(h, p)

EgressSpec == EgressInit /\ [][EgressNext]_egressVars

-----------------------------------------------------------------------------
\* A connection of a worker goes where the host's policy at its launch and,
\* if it named domains, one of them allow, and never to a private address;
\* whatever is edited, removed, recreated, redirected or resolved anew since
\* (workeregress policy.go: "A product cannot widen a host domain allowlist").
\* The policy part exempts a worker that goes through the shared proxy, which
\* goes on with the rules it was created with when the host's policy changes.
WorkerStaysInsidePolicy ==
  flow.stage = "open" =>
    LET mine == plan[flow.worker] IN
    /\ flow.address \notin PrivateAddrs
    /\ mine.via # Shared => Permits(mine.ceiling, flow.host, flow.port, flow.address)
    /\ mine.named # {} => DomainMatches(mine.named, flow.host)

\* Inspect: the rules that `policy explain --worker' uses.
Snapshot(w) == ParseProxyRules((CHOOSE p \in Container(plan[w].via) : TRUE).args)

\* `policy explain --resolve' says of a destination, from the flags of the
\* worker's proxy, what that proxy does with it (explain.go, dialer.go).
ExplainedIsEnforced ==
  LET said(answer) == Explain(Snapshot(flow.worker), flow.host, flow.port, answer) IN
  /\ flow.stage \in {"resolved", "open"} => said(flow.answer)
  /\ flow.stage = "denied" =>
       IF flow.answer = {} THEN \A answer \in Answers(flow.host) : ~said(answer)
       ELSE ~said(flow.answer)
=============================================================================
