------------------------- MODULE WorkerEgressProofs -------------------------
(***************************************************************************)
(* A worker stays inside the policy of its launch, and the explanation     *)
(* agrees with the proxy, for every set of hosts, addresses, policies,     *)
(* wishes, workers and proxies.                                            *)
(***************************************************************************)
EXTENDS WorkerEgress, TLAPS

Safe(r) == [r EXCEPT !.blockPrivate = TRUE]

\* What the rules of a plan grant, the policy of the launch grants.
Below(r, ceiling) ==
  \A h \in Hosts, p \in Ports, a \in Addrs : Permits(r, h, p, a) => Permits(ceiling, h, p, a)

\* A proxy serves the rules that its label and its name say.
ProxyOk(p) ==
  /\ p = [name |-> p.name, label |-> p.label, args |-> p.args, up |-> p.up]
  /\ p.label \in Rules /\ p.label.blockPrivate /\ p.args = ServeArgs(p.label)
  /\ p.name # <<>> /\ \A r \in Rules : p.name = Name(r) => p.label = Safe(r)

ProxyInv == \A p \in proxies : ProxyOk(p)

\* Proxies of one name serve the same rules.
NamesAgree == \A p, q \in proxies : p.name = q.name => p.label = q.label

\* What a launch has decided.
PlanSound(m) ==
  /\ m.rules \in Rules /\ m.rules.blockPrivate
  /\ m.via \in {<<>>, Shared} \cup {Name(r) : r \in Rules}
  /\ \A r \in Rules : m.via = Name(r) => m.rules = Safe(r)
  /\ Below(m.rules, m.ceiling)
  /\ m.named # {} => m.via # Shared /\ (m.via # <<>> => m.rules.allowDomains = m.named)

PlanInv ==
  \A w \in Workers : at[w] # "none" =>
    /\ PlanSound(plan[w])
    /\ at[w] \in {"planned", "creating", "starting"} => plan[w].via \notin {<<>>, Shared}

\* The rules that a container of a name serves.
Served(n, r) == \E p \in proxies : p.name = n /\ p.label = r

\* A connection is as far as the rules r let it come.
Within(f, r) ==
  /\ f.stage \in {"named", "resolved", "open", "denied"}
  /\ f.host \in Hosts /\ f.answer \subseteq Addrs
  /\ f.stage # "denied" => DestinationAllowed(r, f.host, f.port) /\ f.port \in Ports
  /\ f.stage = "named" => f.answer = {}
  /\ f.stage \in {"resolved", "open"} => AnswerAllowed(r, f.answer)
  /\ f.stage = "open" => f.address \in f.answer
  /\ f.stage = "denied" => IF f.answer = {} THEN ~DestinationAllowed(r, f.host, f.port)
                                            ELSE ~AnswerAllowed(r, f.answer)

FlowInv ==
  /\ flow = [stage |-> flow.stage, worker |-> flow.worker, host |-> flow.host,
             port |-> flow.port, answer |-> flow.answer, address |-> flow.address]
  /\ flow.stage # "none" =>
       /\ flow.worker \in Workers /\ at[flow.worker] = "running"
       /\ \E r \in Rules : Served(plan[flow.worker].via, r) /\ Within(flow, r)

EgressInv ==
  /\ policy \in Policies
  /\ DOMAIN plan = Workers /\ DOMAIN at = Workers
  /\ plan = [w \in Workers |-> plan[w]] /\ at = [w \in Workers |-> at[w]]
  /\ ProxyInv /\ NamesAgree /\ PlanInv /\ FlowInv

-----------------------------------------------------------------------------
(* The decisions.                                                           *)

\* Opaque, so that the provers see sets of values and no Boolean terms.
Blocking(r) == r.blockPrivate
On == {TRUE}

\* A flag and a value are among the arguments of that flag only.
LEMMA FlagsPair ==
  ASSUME NEW f, NEW g, NEW v, NEW S
  PROVE  <<f, v>> \in Flags(g, S) <=> f = g /\ v \in S
  BY DEF Flags

\* What a proxy's arguments consist of.
LEMMA ArgsUnion ==
  ASSUME NEW r, NEW x
  PROVE  x \in ServeArgs(r) <=>
           \/ x \in Flags("allow-domain", r.allowDomains)
           \/ x \in Flags("deny-domain", r.denyDomains)
           \/ x \in Flags("allow-cidr", r.allowCIDRs)
           \/ x \in Flags("deny-cidr", r.denyCIDRs)
           \/ x \in Flags("allow-port", r.allowPorts)
           \/ x \in Flags("deny-port", r.denyPorts)
           \/ Blocking(r) /\ x \in Flags("block-private", On)
           \/ x \in Flags("default-deny", {r.defaultDeny})
  BY Zenon DEF ServeArgs, Blocking, On

\* The arguments, flag by flag.
LEMMA PairGiven ==
  ASSUME NEW r, NEW f, NEW v
  PROVE  <<f, v>> \in ServeArgs(r) <=>
           \/ f = "allow-domain" /\ v \in r.allowDomains
           \/ f = "deny-domain" /\ v \in r.denyDomains
           \/ f = "allow-cidr" /\ v \in r.allowCIDRs
           \/ f = "deny-cidr" /\ v \in r.denyCIDRs
           \/ f = "allow-port" /\ v \in r.allowPorts
           \/ f = "deny-port" /\ v \in r.denyPorts
           \/ f = "block-private" /\ Blocking(r) /\ v \in On
           \/ f = "default-deny" /\ v \in {r.defaultDeny}
<1> DEFINE In(g, S) == <<f, v>> \in Flags(g, S)
<1>1. \A g, S : In(g, S) <=> f = g /\ v \in S
  BY FlagsPair
<1>2. <<f, v>> \in ServeArgs(r) <=>
        \/ In("allow-domain", r.allowDomains) \/ In("deny-domain", r.denyDomains)
        \/ In("allow-cidr", r.allowCIDRs) \/ In("deny-cidr", r.denyCIDRs)
        \/ In("allow-port", r.allowPorts) \/ In("deny-port", r.denyPorts)
        \/ Blocking(r) /\ In("block-private", On)
        \/ In("default-deny", {r.defaultDeny})
  BY ArgsUnion, Zenon
<1> HIDE DEF In
<1>3. QED BY <1>1, <1>2, Zenon

\* The flags that a proxy finds among its arguments.
LEMMA FlagsGiven ==
  ASSUME NEW r, NEW v
  PROVE  /\ <<"allow-domain", v>> \in ServeArgs(r) <=> v \in r.allowDomains
         /\ <<"deny-domain", v>> \in ServeArgs(r) <=> v \in r.denyDomains
         /\ <<"allow-cidr", v>> \in ServeArgs(r) <=> v \in r.allowCIDRs
         /\ <<"deny-cidr", v>> \in ServeArgs(r) <=> v \in r.denyCIDRs
         /\ <<"allow-port", v>> \in ServeArgs(r) <=> v \in r.allowPorts
         /\ <<"deny-port", v>> \in ServeArgs(r) <=> v \in r.denyPorts
         /\ <<"block-private", v>> \in ServeArgs(r) <=> Blocking(r) /\ v \in On
         /\ <<"default-deny", v>> \in ServeArgs(r) <=> v \in {r.defaultDeny}
<1>1. <<"allow-domain", v>> \in ServeArgs(r) <=> v \in r.allowDomains
  BY PairGiven, Zenon
<1>2. <<"deny-domain", v>> \in ServeArgs(r) <=> v \in r.denyDomains
  BY PairGiven, Zenon
<1>3. <<"allow-cidr", v>> \in ServeArgs(r) <=> v \in r.allowCIDRs
  BY PairGiven, Zenon
<1>4. <<"deny-cidr", v>> \in ServeArgs(r) <=> v \in r.denyCIDRs
  BY PairGiven, Zenon
<1>5. <<"allow-port", v>> \in ServeArgs(r) <=> v \in r.allowPorts
  BY PairGiven, Zenon
<1>6. <<"deny-port", v>> \in ServeArgs(r) <=> v \in r.denyPorts
  BY PairGiven
<1>7. <<"block-private", v>> \in ServeArgs(r) <=> Blocking(r) /\ v \in On
  <2>1. <<"block-private", v>> \in ServeArgs(r) => Blocking(r) /\ v \in On
    <3>1. <<"block-private", v>> \in ServeArgs(r) => Blocking(r)
      BY PairGiven
    <3>2. <<"block-private", v>> \in ServeArgs(r) => v \in On
      BY PairGiven
    <3>3. QED BY <3>1, <3>2
  <2>2. Blocking(r) /\ v \in On => <<"block-private", v>> \in ServeArgs(r)
    BY PairGiven
  <2>3. QED BY <2>1, <2>2
<1>8. <<"default-deny", v>> \in ServeArgs(r) <=> v \in {r.defaultDeny}
  BY PairGiven, Zenon
<1>9. QED BY <1>1, <1>2, <1>3, <1>4, <1>5, <1>6, <1>7, <1>8, Zenon

\* Every argument is a flag with a value.
LEMMA ArgsArePairs ==
  ASSUME NEW r, NEW x \in ServeArgs(r)
  PROVE  x = <<x[1], x[2]>>
<1>1. \A g, S : \A y \in Flags(g, S) : y = <<y[1], y[2]>>
  BY DEF Flags
<1>2. QED BY <1>1, ArgsUnion

\* The proxy parses from its flags the rules it was created with.
LEMMA ParseServe ==
  ASSUME NEW r \in Rules
  PROVE  ParseProxyRules(ServeArgs(r)) = r
<1> DEFINE given(flag) == {arg[2] : arg \in {x \in ServeArgs(r) : x[1] = flag}}
<1>1. ASSUME NEW flag, NEW v PROVE v \in given(flag) <=> <<flag, v>> \in ServeArgs(r)
  BY ArgsArePairs
<1> HIDE DEF given
<1>2. /\ given("allow-domain") = r.allowDomains /\ given("deny-domain") = r.denyDomains
      /\ given("allow-cidr") = r.allowCIDRs /\ given("deny-cidr") = r.denyCIDRs
      /\ given("allow-port") = r.allowPorts /\ given("deny-port") = r.denyPorts
  <2>1. \A v : v \in given("allow-domain") <=> v \in r.allowDomains
    BY <1>1, FlagsGiven, Zenon
  <2>2. \A v : v \in given("deny-domain") <=> v \in r.denyDomains
    BY <1>1, FlagsGiven, Zenon
  <2>3. \A v : v \in given("allow-cidr") <=> v \in r.allowCIDRs
    BY <1>1, FlagsGiven, Zenon
  <2>4. \A v : v \in given("deny-cidr") <=> v \in r.denyCIDRs
    BY <1>1, FlagsGiven, Zenon
  <2>5. \A v : v \in given("allow-port") <=> v \in r.allowPorts
    BY <1>1, FlagsGiven, Zenon
  <2>6. \A v : v \in given("deny-port") <=> v \in r.denyPorts
    BY <1>1, FlagsGiven, Zenon
  <2>7. QED BY <2>1, <2>2, <2>3, <2>4, <2>5, <2>6
<1>3. /\ (TRUE \in given("block-private")) = r.blockPrivate
      /\ (TRUE \in given("default-deny")) = r.defaultDeny
  <2>1. /\ TRUE \in given("block-private") <=> Blocking(r) /\ TRUE \in On
        /\ TRUE \in given("default-deny") <=> TRUE \in {r.defaultDeny}
    BY <1>1, FlagsGiven, Zenon
  <2>2. r.blockPrivate \in BOOLEAN /\ r.defaultDeny \in BOOLEAN
    BY DEF Rules
  <2>3. /\ TRUE \in given("block-private") <=> r.blockPrivate
        /\ TRUE \in given("default-deny") <=> r.defaultDeny
    BY <2>1, <2>2 DEF Blocking, On
  <2>4. (TRUE \in given("block-private")) \in BOOLEAN /\ (TRUE \in given("default-deny")) \in BOOLEAN
    OBVIOUS
  <2>5. QED BY <2>2, <2>3, <2>4, Zenon
<1>4. [allowDomains |-> given("allow-domain"), denyDomains |-> given("deny-domain"),
       allowCIDRs |-> given("allow-cidr"), denyCIDRs |-> given("deny-cidr"),
       allowPorts |-> given("allow-port"), denyPorts |-> given("deny-port"),
       blockPrivate |-> TRUE \in given("block-private"),
       defaultDeny |-> TRUE \in given("default-deny")] = r
  BY <1>2, <1>3 DEF Rules
<1>5. QED BY <1>4 DEF ParseProxyRules, given

\* No two kinds of proxy have one name.
LEMMA NamesDiffer ==
  ASSUME NEW r, NEW q
  PROVE  /\ Name(r) # Shared /\ Name(r) # <<>> /\ Shared # <<>>
         /\ Name(r) = Name(q) => r = q
  BY DEF Name, Shared

\* A host that a narrower domain matches is matched by the wider one.
LEMMA WithinMatches ==
  ASSUME NEW child \in Domains, NEW parent \in Domains, DomainWithin(child, parent),
         NEW h \in Hosts, DomainMatches({child}, h)
  PROVE  DomainMatches({parent}, h)
  BY PolicyAssumption DEF DomainWithin, DomainMatches, Domains

\* "A product cannot widen a host domain allowlist."
LEMMA NarrowingSound ==
  ASSUME NEW host \in Rules, NEW ds \in SUBSET Domains, Narrows(host, ds)
  PROVE  Narrowed(host, ds) \in Rules /\ Below(Narrowed(host, ds), host)
<1>1. Narrowed(host, ds) \in Rules
  BY DEF Narrowed, Rules
<1>2. ASSUME NEW h \in Hosts, DomainMatches(ds, h), host.allowDomains # {}
      PROVE  DomainMatches(host.allowDomains, h)
  <2>1. PICK d \in ds : DomainMatches({d}, h)
    BY <1>2 DEF DomainMatches
  <2>2. PICK allowed \in host.allowDomains : DomainWithin(d, allowed)
    BY <1>2 DEF Narrows
  <2>3. DomainMatches({allowed}, h)
    BY <2>1, <2>2, WithinMatches DEF Rules
  <2>4. QED BY <2>3 DEF DomainMatches
<1>3. ASSUME NEW h \in Hosts, NEW p \in Ports, NEW a \in Addrs,
             Permits(Narrowed(host, ds), h, p, a)
      PROVE  Permits(host, h, p, a)
  <2>1. DomainMatches(ds, h)
    BY <1>3 DEF Permits, DestinationAllowed, Narrowed, Narrows, Rules
  <2>2. QED
    BY <1>2, <1>3, <2>1 DEF Permits, DestinationAllowed, AddressAllowed, GrantsNothing,
                            Narrowed, Narrows, Rules
<1>4. QED BY <1>1, <1>3 DEF Below

\* Blocking private addresses only takes away.
LEMMA SafeBelow ==
  ASSUME NEW r \in Rules
  PROVE  Safe(r) \in Rules /\ Safe(r).blockPrivate /\ Below(Safe(r), r)
  BY DEF Safe, Below, Permits, DestinationAllowed, AddressAllowed, GrantsNothing, Rules

\* The domains a request ends up with are domains.
LEMMA WantedTyped ==
  ASSUME NEW q \in Requests
  PROVE  Wanted(q) \in SUBSET Domains
<1>1. q.domains \in SUBSET Domains
  BY DEF Requests
<1>2. \A h \in Registries : [name |-> h, exact |-> FALSE] \in Domains
  BY PolicyAssumption DEF Domains
<1>3. QED BY <1>1, <1>2 DEF Wanted

\* What a launch decides is sound.
LEMMA PlansAreSound ==
  ASSUME policy \in Policies, NEW by \in Launchers, NEW q \in Wishes, Resolves(policy, q)
  PROVE  PlanSound(NewPlan(by, q)) /\ NewPlan(by, q).ceiling = policy
<1> DEFINE rules == Resolved(policy, q)
<1>0. policy \in Rules /\ q \in Requests
  BY EgressAssumption
<1>1. Wanted(q) \in SUBSET Domains
  BY <1>0, WantedTyped
<1>2. rules \in Rules /\ Below(rules, policy)
  <2>1. CASE Wanted(q) = {}
    BY <2>1, <1>0 DEF Resolved, Below
  <2>2. CASE Wanted(q) # {} /\ Narrows(policy, Wanted(q))
    BY <2>2, <1>0, <1>1, NarrowingSound DEF Resolved
  <2>3. CASE Wanted(q) # {} /\ ~Narrows(policy, Wanted(q))
    BY <2>3 DEF Resolves, Wanted, Offline
  <2>4. QED BY <2>1, <2>2, <2>3
<1>3. Safe(rules) \in Rules /\ Safe(rules).blockPrivate /\ Below(Safe(rules), rules)
  BY <1>2, SafeBelow
<1>4. Below(Safe(rules), policy)
  BY <1>2, <1>3 DEF Below
<1>5. Safe(Safe(rules)) = Safe(rules)
  BY <1>2 DEF Safe, Rules
<1>6. Wanted(q) # {} => Safe(rules).allowDomains = Wanted(q)
  BY <1>0 DEF Resolved, Narrowed, Safe, Rules
<1> DEFINE m == NewPlan(by, q)
<1>7. m.rules = Safe(rules) /\ m.ceiling = policy /\ (m.named # {} => m.named = Wanted(q))
  BY DEF NewPlan, Safe
<1>8. m.via = <<>> \/ m.via = Name(rules) \/ m.via = Name(Safe(rules)) \/ (m.via = Shared /\ Wanted(q) = {})
  BY DEF NewPlan, Safe, Managed
<1>9. \A r \in Rules : m.via = Name(r) => Safe(r) = Safe(rules)
  BY <1>5, <1>8, NamesDiffer
<1> HIDE DEF m, rules
<1>10. m.named # {} => m.via # Shared
  BY <1>7, <1>8, NamesDiffer
<1>11. QED BY <1>2, <1>3, <1>4, <1>6, <1>7, <1>8, <1>9, <1>10 DEF PlanSound, m

-----------------------------------------------------------------------------
(* The invariant.                                                           *)

\* A proxy enforces the rules of its label.
LEMMA EnforcedIsServed ==
  ASSUME ProxyInv, NamesAgree, NEW n, NEW r, Served(n, r)
  PROVE  Enforced(n) = r /\ Container(n) # {}
<1>1. PICK p \in proxies : p.name = n /\ p.label = r
  BY DEF Served
<1> DEFINE c == CHOOSE x \in Container(n) : TRUE
<1>2. p \in Container(n)
  BY <1>1 DEF Container
<1>3. c \in Container(n)
  BY <1>2
<1> HIDE DEF c
<1>4. c \in proxies /\ c.name = n
  BY <1>3 DEF Container
<1>5. c.label = r /\ ProxyOk(c)
  BY <1>1, <1>4 DEF ProxyInv, NamesAgree
<1>6. ParseProxyRules(c.args) = r
  BY <1>5, ParseServe DEF ProxyOk
<1>7. QED BY <1>2, <1>6 DEF Enforced, c

\* Replacing the container of a name by sound ones.
LEMMA Replaced ==
  ASSUME ProxyInv, NamesAgree, NEW n, NEW P, proxies' = With(n, P),
         \A p \in P : ProxyOk(p) /\ p.name = n, \A p, q \in P : p.label = q.label
  PROVE  ProxyInv' /\ NamesAgree'
  BY DEF ProxyInv, NamesAgree, With, Container

\* What other names serve is untouched, and so is this one if it stays the same.
LEMMA ReplacedServes ==
  ASSUME NEW n, NEW P, proxies' = With(n, P), NEW m, NEW r, Served(m, r),
         m = n => \E p \in P : p.name = n /\ p.label = r
  PROVE  Served(m, r)'
  BY DEF Served, With, Container

\* A connection that an action leaves alone.
LEMMA FlowKept ==
  ASSUME FlowInv, flow' = flow, 
         flow.stage # "none" =>
           /\ at'[flow.worker] = at[flow.worker] /\ plan'[flow.worker] = plan[flow.worker]
           /\ \A r \in Rules : Served(plan[flow.worker].via, r)
                                 => Served(plan[flow.worker].via, r)'
  PROVE  FlowInv'
<1>1. CASE flow.stage = "none"
  BY <1>1 DEF FlowInv
<1>2. CASE flow.stage # "none"
  <2>1. PICK r \in Rules : Served(plan[flow.worker].via, r) /\ Within(flow, r)
    BY <1>2 DEF FlowInv
  <2>2. Served(plan[flow.worker].via, r)'
    BY <1>2, <2>1
  <2>3. Within(flow, r)'
    BY <2>1 DEF Within
  <2>4. QED BY <1>2, <2>2, <2>3 DEF FlowInv
<1>3. QED BY <1>1, <1>2

\* A connection that ends.
LEMMA FlowEnds ==
  ASSUME flow' = NoFlow
  PROVE  FlowInv'
  BY DEF FlowInv, NoFlow

\* Nothing has been decided yet.
LEMMA InitInv == EgressInit => EgressInv
  BY EgressAssumption
  DEF EgressInit, EgressInv, ProxyInv, NamesAgree, PlanInv, FlowInv, NoFlow

\* What a proxy is created with: the rules of a plan, or the host's, safe.
LEMMA CreatedOk ==
  ASSUME NEW n, NEW r \in Rules, NEW up, n # <<>>, r.blockPrivate,
         \A x \in Rules : n = Name(x) => r = Safe(x)
  PROVE  ProxyOk([name |-> n, label |-> r, args |-> ServeArgs(r), up |-> up])
  BY DEF ProxyOk

\* A step that only changes how far workers have come.
LEMMA ProgressKeeps ==
  ASSUME EgressInv, NEW w \in Workers, NEW s, at[w] # "running", at[w] # "none",
         at' = [at EXCEPT ![w] = s], s \notin {"planned", "creating", "starting"} \/
           plan[w].via \notin {<<>>, Shared},
         UNCHANGED <<policy, plan, flow>>, ProxyInv', NamesAgree',
         \A m, r : Served(m, r) => Served(m, r)'
  PROVE  EgressInv'
<1>1. FlowInv'
  <2>1. flow.stage # "none" => flow.worker # w
    BY DEF EgressInv, FlowInv
  <2>2. flow.stage # "none" => at'[flow.worker] = at[flow.worker]
    BY <2>1 DEF EgressInv, FlowInv
  <2>3. QED BY <2>2, FlowKept DEF EgressInv
<1>2. PlanInv'
  BY DEF EgressInv, PlanInv
<1>3. QED BY <1>1, <1>2 DEF EgressInv

\* A new policy changes no plan and no proxy.
LEMMA EditPolicyInv == EgressInv /\ EditPolicy => EgressInv'
<1> SUFFICES ASSUME EgressInv, EditPolicy PROVE EgressInv'
  OBVIOUS
<1>1. FlowInv'
  BY FlowKept DEF EgressInv, EditPolicy, Served
<1>2. QED
  BY <1>1 DEF EgressInv, EditPolicy, ProxyInv, NamesAgree, PlanInv

\* `proxy run' leaves an existing proxy its policy.
LEMMA ProxyRunInv == EgressInv /\ ProxyRun => EgressInv'
<1> SUFFICES ASSUME EgressInv, ProxyRun PROVE EgressInv'
  OBVIOUS
<1> DEFINE new == [name |-> Shared, label |-> Safe(policy), args |-> ServeArgs(Safe(policy)),
                   up |-> TRUE]
<1>1. ProxyOk(new)
  <2>1. Safe(policy) \in Rules /\ Safe(policy).blockPrivate
    BY EgressAssumption, SafeBelow DEF EgressInv
  <2>2. QED BY <2>1, CreatedOk, NamesDiffer
<1>2. proxies' = With(Shared, {new}) /\ \A p \in Container(Shared) : p.label = Safe(policy)
  BY DEF ProxyRun, Safe
<1>3. new.name = Shared /\ new.label = Safe(policy)
  OBVIOUS
<1> HIDE DEF new
<1>4. ProxyInv' /\ NamesAgree'
  BY <1>1, <1>2, <1>3, Replaced DEF EgressInv
<1>5. \A m, r : Served(m, r) => Served(m, r)'
  BY <1>2, <1>3, ReplacedServes DEF Served, Container
<1>6. FlowInv'
  BY <1>5, FlowKept DEF EgressInv, ProxyRun
<1>7. QED BY <1>4, <1>6 DEF EgressInv, ProxyRun, PlanInv

\* A container that is stopped or started is otherwise the same.
LEMMA SwitchOk ==
  ASSUME NEW b
  PROVE  \A p : ProxyOk(p) => LET q == [p EXCEPT !.up = b] IN
           ProxyOk(q) /\ q.name = p.name /\ q.label = p.label
  BY DEF ProxyOk

\* So stopping and starting change nothing that is served.
LEMMA SwitchKeeps ==
  ASSUME ProxyInv, NamesAgree, NEW n, NEW b,
         proxies' = With(n, {[p EXCEPT !.up = b] : p \in Container(n)})
  PROVE  ProxyInv' /\ NamesAgree' /\ \A m, r : Served(m, r) => Served(m, r)'
<1> DEFINE P == {[p EXCEPT !.up = b] : p \in Container(n)}
<1>1. \A p \in Container(n) : LET q == [p EXCEPT !.up = b] IN
        ProxyOk(p) /\ p.name = n /\ q.name = n /\ q.label = p.label /\ ProxyOk(q)
  BY SwitchOk DEF Container, ProxyInv
<1>2. \A p, q \in Container(n) : p.label = q.label
  BY DEF Container, NamesAgree
<1>3. \A p \in P : ProxyOk(p) /\ p.name = n
  BY <1>1
<1>4. \A p, q \in P : p.label = q.label
  <2>1. ASSUME NEW p \in Container(n), NEW q \in Container(n)
        PROVE  [p EXCEPT !.up = b].label = [q EXCEPT !.up = b].label
    BY <1>1, <1>2
  <2>2. QED BY <2>1
<1>5. ASSUME NEW r, Served(n, r) PROVE \E p \in P : p.name = n /\ p.label = r
  BY <1>1, <1>5 DEF Served, Container
<1> HIDE DEF P
<1>6. ProxyInv' /\ NamesAgree'
  BY <1>3, <1>4, Replaced DEF P
<1>7. \A m, r : Served(m, r) => Served(m, r)'
  BY <1>5, ReplacedServes DEF P
<1>8. QED BY <1>6, <1>7

\* Stopping a proxy cuts its connections.
LEMMA ProxyStopInv ==
  ASSUME EgressInv, NEW n, ProxyStop(n)
  PROVE  EgressInv'
<1>1. ProxyInv' /\ NamesAgree' /\ \A m, r : Served(m, r) => Served(m, r)'
  BY SwitchKeeps DEF EgressInv, ProxyStop
<1>2. CASE flow' = flow
  BY <1>1, <1>2, FlowKept DEF EgressInv, ProxyStop, PlanInv
<1>3. CASE flow' = NoFlow
  BY <1>1, <1>3, FlowEnds DEF EgressInv, ProxyStop, PlanInv
<1>4. QED BY <1>2, <1>3 DEF ProxyStop, Cut

\* So does removing it.
LEMMA ProxyRmInv ==
  ASSUME EgressInv, NEW n, ProxyRm(n)
  PROVE  EgressInv'
<1>1. ProxyInv' /\ NamesAgree'
  BY Replaced DEF EgressInv, ProxyRm
<1>2. \A m, r : Served(m, r) /\ m # n => Served(m, r)'
  BY ReplacedServes DEF ProxyRm
<1>3. CASE flow' = flow /\ (flow.stage = "none" \/ plan[flow.worker].via # n)
  BY <1>1, <1>2, <1>3, FlowKept DEF EgressInv, ProxyRm, PlanInv
<1>4. CASE flow' = NoFlow
  BY <1>1, <1>4, FlowEnds DEF EgressInv, ProxyRm, PlanInv
<1>5. QED BY <1>3, <1>4 DEF ProxyRm, Cut

\* A launch decides soundly and touches no connection.
LEMMA LaunchInv ==
  ASSUME EgressInv, NEW w \in Workers, NEW by \in Launchers, NEW q \in Wishes, Launch(w, by, q)
  PROVE  EgressInv'
<1> DEFINE m == NewPlan(by, q)
<1>1. PlanSound(m)
  BY PlansAreSound DEF EgressInv, Launch
<1>2. /\ plan' = [plan EXCEPT ![w] = m] /\ at[w] = "none"
      /\ \/ at' = [at EXCEPT ![w] = "ready"]
         \/ at' = [at EXCEPT ![w] = "planned"] /\ m.via \notin {<<>>, Shared}
      /\ UNCHANGED <<policy, proxies, flow>>
  BY DEF Launch
<1> HIDE DEF m
<1>3. PlanInv'
  BY <1>1, <1>2 DEF EgressInv, PlanInv
<1>4. FlowInv'
  <2>1. flow.stage # "none" => flow.worker # w
    BY <1>2 DEF EgressInv, FlowInv
  <2>2. flow.stage # "none" =>
          at'[flow.worker] = at[flow.worker] /\ plan'[flow.worker] = plan[flow.worker]
    BY <1>2, <2>1 DEF EgressInv, FlowInv
  <2>3. \A n, r : Served(n, r) => Served(n, r)'
    BY <1>2 DEF Served
  <2>4. QED BY <1>2, <2>2, <2>3, FlowKept DEF EgressInv
<1>5. QED BY <1>2, <1>3, <1>4 DEF EgressInv, ProxyInv, NamesAgree

\* The connections of a worker end when it stops or is removed.
LEMMA WorkerEnds ==
  ASSUME EgressInv, NEW w \in Workers, flow' = IF flow.worker = w THEN NoFlow ELSE flow,
         \A v \in Workers \ {w} : at'[v] = at[v] /\ plan'[v] = plan[v], UNCHANGED proxies
  PROVE  FlowInv'
<1>1. CASE flow.worker = w
  BY <1>1, FlowEnds
<1>2. CASE flow.worker # w
  <2>1. \A n, r : Served(n, r) => Served(n, r)'
    BY DEF Served
  <2>2. flow.stage # "none" =>
          at'[flow.worker] = at[flow.worker] /\ plan'[flow.worker] = plan[flow.worker]
    BY <1>2 DEF EgressInv, FlowInv
  <2>3. QED BY <1>2, <2>1, <2>2, FlowKept DEF EgressInv
<1>3. QED BY <1>1, <1>2

\* The removal of a worker.
LEMMA DropInv ==
  ASSUME EgressInv, NEW w \in Workers, Drop(w)
  PROVE  EgressInv'
<1>1. FlowInv'
  BY WorkerEnds DEF EgressInv, Drop
<1>2. QED BY <1>1 DEF EgressInv, Drop, ProxyInv, NamesAgree, PlanInv

\* The stop of a worker.
LEMMA StopWorkerInv ==
  ASSUME EgressInv, NEW w \in Workers, StopWorkerEgress(w)
  PROVE  EgressInv'
<1>1. FlowInv'
  BY WorkerEnds DEF EgressInv, StopWorkerEgress
<1>2. QED BY <1>1 DEF EgressInv, StopWorkerEgress, ProxyInv, NamesAgree, PlanInv

\* Ensure adopts a proxy with its own rules.
LEMMA AdoptInv ==
  ASSUME EgressInv, NEW w \in Workers, Adopt(w)
  PROVE  EgressInv'
<1>1. CASE /\ Container(plan[w].via) = {} /\ at' = [at EXCEPT ![w] = "creating"]
           /\ UNCHANGED proxies
  <2>1. plan[w].via \notin {<<>>, Shared}
    BY DEF EgressInv, PlanInv, Adopt
  <2>2. ProxyInv' /\ NamesAgree' /\ \A m, r : Served(m, r) => Served(m, r)'
    BY <1>1 DEF EgressInv, ProxyInv, NamesAgree, Served
  <2>3. QED BY <1>1, <2>1, <2>2, ProgressKeeps DEF Adopt
<1>2. ASSUME NEW p \in Container(plan[w].via), p.label = plan[w].rules,
             proxies' = With(p.name, {[p EXCEPT !.up = TRUE]}),
             at' = [at EXCEPT ![w] = "ready"]
      PROVE  EgressInv'
  <2> DEFINE on == [p EXCEPT !.up = TRUE]
  <2>1. ProxyOk(on) /\ on.name = p.name /\ on.label = p.label
    <3>1. ProxyOk(p)
      BY DEF Container, EgressInv, ProxyInv
    <3>2. QED BY <3>1, SwitchOk
  <2>2. \A r : Served(p.name, r) => p.label = r
    BY DEF Served, Container, EgressInv, NamesAgree
  <2> HIDE DEF on
  <2>3. proxies' = With(p.name, {on})
    BY <1>2 DEF on
  <2>4. ProxyInv' /\ NamesAgree'
    BY <2>1, <2>3, Replaced DEF EgressInv
  <2>5. \A m, r : Served(m, r) => Served(m, r)'
    BY <2>1, <2>2, <2>3, ReplacedServes
  <2>6. QED BY <1>2, <2>4, <2>5, ProgressKeeps DEF Adopt
<1>3. QED BY <1>1, <1>2 DEF Adopt

\* Ensure creates the proxy its name promises.
LEMMA CreateProxyInv ==
  ASSUME EgressInv, NEW w \in Workers, CreateProxy(w)
  PROVE  EgressInv'
<1> DEFINE n == plan[w].via
           new == [name |-> n, label |-> plan[w].rules, args |-> ServeArgs(plan[w].rules),
                   up |-> FALSE]
<1>1. n \notin {<<>>, Shared} /\ PlanSound(plan[w])
  BY DEF EgressInv, PlanInv, CreateProxy
<1>2. ProxyOk(new)
  BY <1>1, CreatedOk DEF PlanSound
<1>3. new.name = n
  OBVIOUS
<1>4. proxies' = proxies \cup {new} /\ Container(n) = {}
  BY DEF CreateProxy
<1> HIDE DEF n, new
<1>5. ProxyInv' /\ NamesAgree'
  BY <1>2, <1>3, <1>4 DEF EgressInv, ProxyInv, NamesAgree, Container
<1>6. \A m, r : Served(m, r) => Served(m, r)'
  BY <1>4 DEF Served
<1>7. plan[w].via \notin {<<>>, Shared}
  BY <1>1 DEF n
<1>8. QED BY <1>5, <1>6, <1>7, ProgressKeeps DEF CreateProxy

\* Ensure starts it.
LEMMA StartProxyInv ==
  ASSUME EgressInv, NEW w \in Workers, StartProxy(w)
  PROVE  EgressInv'
<1>1. ProxyInv' /\ NamesAgree' /\ \A m, r : Served(m, r) => Served(m, r)'
  BY SwitchKeeps DEF EgressInv, StartProxy
<1>2. QED BY <1>1, ProgressKeeps DEF StartProxy

\* The proxy joins the network.
LEMMA AttachProxyInv ==
  ASSUME EgressInv, NEW w \in Workers, AttachProxy(w)
  PROVE  EgressInv'
<1>1. ProxyInv' /\ NamesAgree' /\ \A m, r : Served(m, r) => Served(m, r)'
  BY DEF EgressInv, AttachProxy, ProxyInv, NamesAgree, Served
<1>2. QED BY <1>1, ProgressKeeps DEF AttachProxy

\* The worker runs.
LEMMA RunWorkerInv ==
  ASSUME EgressInv, NEW w \in Workers, RunWorker(w)
  PROVE  EgressInv'
<1>1. ProxyInv' /\ NamesAgree' /\ \A m, r : Served(m, r) => Served(m, r)'
  BY DEF EgressInv, RunWorker, ProxyInv, NamesAgree, Served
<1>2. QED BY <1>1, ProgressKeeps DEF RunWorker

\* A step that only changes the connection.
LEMMA FlowSteps ==
  ASSUME EgressInv, UNCHANGED <<policy, proxies, plan, at, attached>>, FlowInv'
  PROVE  EgressInv'
  BY DEF EgressInv, ProxyInv, NamesAgree, PlanInv

\* The destination is decided by the rules that the proxy serves.
LEMMA AskInv ==
  ASSUME EgressInv, NEW w \in Workers, at[w] = "running", NEW r \in Rules,
         Served(plan[w].via, r), NEW h \in Hosts, NEW p \in Ports, Ask(w, h, p)
  PROVE  EgressInv'
<1>1. Enforced(plan[w].via) = r
  BY EnforcedIsServed DEF EgressInv
<1> DEFINE s == IF DestinationAllowed(r, h, p) THEN "named" ELSE "denied"
<1>2. flow' = [stage |-> s, worker |-> w, host |-> h, port |-> p, answer |-> {},
               address |-> NoPlan]
  BY <1>1 DEF Ask, NoFlow
<1>3. /\ flow'.stage = s /\ flow'.host = h /\ flow'.port = p /\ flow'.answer = {}
      /\ flow'.worker = w
  BY <1>2
<1>4. Within(flow', r)
  BY <1>3 DEF Within
<1>5. Served(plan[w].via, r)' /\ at'[w] = "running" /\ plan' = plan
  BY DEF Ask, Served
<1> HIDE DEF s
<1>6. FlowInv'
  BY <1>2, <1>3, <1>4, <1>5 DEF FlowInv
<1>7. QED BY <1>6, FlowSteps DEF Ask

\* A new request.
LEMMA RequestInv ==
  ASSUME EgressInv, NEW w \in Workers, NEW h \in Hosts, NEW p \in Ports, Request(w, h, p)
  PROVE  EgressInv'
<1>1. \E r \in Rules : Served(plan[w].via, r)
  BY DEF Request, Reaches, Up, Container, Served, EgressInv, ProxyInv, ProxyOk
<1>2. QED BY <1>1, AskInv DEF Request, Reaches

\* A redirect is a new request.
LEMMA RedirectInv ==
  ASSUME EgressInv, NEW h \in Hosts, NEW p \in Ports, Redirect(h, p)
  PROVE  EgressInv'
  BY AskInv DEF Redirect, EgressInv, FlowInv

\* The whole DNS answer is decided by the same rules.
LEMMA ResolveInv == EgressInv /\ Resolve => EgressInv'
<1> SUFFICES ASSUME EgressInv, Resolve PROVE EgressInv'
  OBVIOUS
<1>1. PICK r \in Rules : Served(plan[flow.worker].via, r) /\ Within(flow, r)
  BY DEF Resolve, EgressInv, FlowInv
<1>2. Enforced(plan[flow.worker].via) = r
  BY <1>1, EnforcedIsServed DEF EgressInv
<1>3. PICK answer \in Answers(flow.host) \ {{}} :
        flow' = [flow EXCEPT !.answer = answer,
                   !.stage = IF AnswerAllowed(r, answer) THEN "resolved" ELSE "denied"]
  BY <1>2 DEF Resolve
<1>4. answer \subseteq Addrs /\ answer # {}
  BY <1>1, <1>3, PolicyAssumption DEF Answers, Within
<1>5. /\ flow'.stage = (IF AnswerAllowed(r, answer) THEN "resolved" ELSE "denied")
      /\ flow'.worker = flow.worker /\ flow'.host = flow.host /\ flow'.port = flow.port
      /\ flow'.answer = answer
  BY <1>3 DEF EgressInv, FlowInv
<1>6. Within(flow', r)
  BY <1>1, <1>4, <1>5 DEF Within, Resolve
<1>7. Served(plan[flow.worker].via, r)'
  BY <1>1 DEF Served, Resolve
<1>8. FlowInv'
  BY <1>3, <1>5, <1>6, <1>7 DEF EgressInv, FlowInv, Resolve
<1>9. QED BY <1>8, FlowSteps DEF Resolve

\* The address dialed is one of the answer.
LEMMA DialInv == EgressInv /\ Dial => EgressInv'
<1> SUFFICES ASSUME EgressInv, Dial PROVE EgressInv'
  OBVIOUS
<1>1. PICK r \in Rules : Served(plan[flow.worker].via, r) /\ Within(flow, r)
  BY DEF Dial, EgressInv, FlowInv
<1>2. PICK a \in flow.answer : flow' = [flow EXCEPT !.stage = "open", !.address = a]
  BY DEF Dial
<1>3. /\ flow'.stage = "open" /\ flow'.address = a
      /\ flow'.worker = flow.worker /\ flow'.host = flow.host /\ flow'.port = flow.port
      /\ flow'.answer = flow.answer
  BY <1>2 DEF EgressInv, FlowInv
<1>4. Within(flow', r)
  BY <1>1, <1>3 DEF Within, Dial
<1>5. Served(plan[flow.worker].via, r)'
  BY <1>1 DEF Served, Dial
<1>6. FlowInv'
  BY <1>2, <1>3, <1>4, <1>5 DEF EgressInv, FlowInv, Dial
<1>7. QED BY <1>6, FlowSteps DEF Dial

\* A connection ends.
LEMMA EndFlowInv == EgressInv /\ EndFlow => EgressInv'
  BY FlowEnds, FlowSteps DEF EndFlow

\* Every step keeps the invariant.
LEMMA NextInv == EgressInv /\ [EgressNext]_egressVars => EgressInv'
<1> SUFFICES ASSUME EgressInv, [EgressNext]_egressVars PROVE EgressInv'
  OBVIOUS
<1>1. CASE EditPolicy \/ ProxyRun \/ Resolve \/ Dial \/ EndFlow
  BY <1>1, EditPolicyInv, ProxyRunInv, ResolveInv, DialInv, EndFlowInv
<1>2. ASSUME NEW p \in proxies, ProxyStop(p.name) \/ ProxyRm(p.name) PROVE EgressInv'
  BY <1>2, ProxyStopInv, ProxyRmInv
<1>3. ASSUME NEW w \in Workers, NEW by \in Launchers, NEW q \in Wishes, Launch(w, by, q)
      PROVE  EgressInv'
  BY <1>3, LaunchInv
<1>4. ASSUME NEW w \in Workers,
             \/ Drop(w) \/ Adopt(w) \/ CreateProxy(w) \/ StartProxy(w) \/ AttachProxy(w)
             \/ RunWorker(w) \/ StopWorkerEgress(w)
      PROVE  EgressInv'
  BY <1>4, DropInv, AdoptInv, CreateProxyInv, StartProxyInv, AttachProxyInv, RunWorkerInv,
     StopWorkerInv
<1>5. ASSUME NEW h \in Hosts, NEW p \in Ports,
             Redirect(h, p) \/ \E w \in Workers : Request(w, h, p)
      PROVE  EgressInv'
  BY <1>5, RequestInv, RedirectInv
<1>6. CASE UNCHANGED egressVars
  BY <1>6, FlowKept, FlowSteps DEF egressVars, EgressInv, Served
<1>7. QED BY <1>1, <1>2, <1>3, <1>4, <1>5, <1>6 DEF EgressNext

\* EgressInv holds in every state of the egress path.
THEOREM EgressInvHolds == EgressSpec => []EgressInv
<1>1. EgressInit => EgressInv
  BY InitInv
<1>2. EgressInv /\ [EgressNext]_egressVars => EgressInv'
  BY NextInv
<1>3. QED BY <1>1, <1>2, PTL DEF EgressSpec

-----------------------------------------------------------------------------
(* What the invariant gives.                                                *)

\* The rules a connection passed are within the ceiling of its plan.
LEMMA InsidePolicy == EgressInv => WorkerStaysInsidePolicy
<1> SUFFICES ASSUME EgressInv, flow.stage = "open"
             PROVE  LET mine == plan[flow.worker] IN
                    /\ flow.address \notin PrivateAddrs
                    /\ mine.via # Shared =>
                         Permits(mine.ceiling, flow.host, flow.port, flow.address)
                    /\ mine.named # {} => DomainMatches(mine.named, flow.host)
  BY DEF WorkerStaysInsidePolicy
<1> DEFINE mine == plan[flow.worker]
<1>1. PICK r \in Rules : Served(mine.via, r) /\ Within(flow, r)
  BY DEF EgressInv, FlowInv
<1>2. /\ DestinationAllowed(r, flow.host, flow.port) /\ flow.host \in Hosts
      /\ flow.port \in Ports /\ flow.address \in Addrs /\ AddressAllowed(r, flow.address)
  BY <1>1 DEF Within, AnswerAllowed
<1>3. mine.via # <<>> /\ r.blockPrivate /\ \A x \in Rules : mine.via = Name(x) => r = Safe(x)
  BY <1>1 DEF Served, EgressInv, ProxyInv, ProxyOk
<1>4. PlanSound(mine)
  BY DEF EgressInv, FlowInv, PlanInv
<1>5. mine.via # Shared => r = mine.rules
  BY <1>3, <1>4 DEF PlanSound
<1>6. flow.address \notin PrivateAddrs
  BY <1>2, <1>3 DEF AddressAllowed
<1>7. mine.via # Shared => Permits(mine.ceiling, flow.host, flow.port, flow.address)
  BY <1>2, <1>4, <1>5 DEF PlanSound, Below, Permits
<1>8. mine.named # {} => DomainMatches(mine.named, flow.host)
  BY <1>2, <1>3, <1>4, <1>5 DEF PlanSound, DestinationAllowed
<1>9. QED BY <1>6, <1>7, <1>8

\* The explanation parses the flags that the proxy parses.
LEMMA ExplanationAgrees == EgressInv => ExplainedIsEnforced
<1> SUFFICES ASSUME EgressInv, flow.stage # "none" PROVE ExplainedIsEnforced
  BY DEF ExplainedIsEnforced
<1>1. PICK r \in Rules : Served(plan[flow.worker].via, r) /\ Within(flow, r)
  BY DEF EgressInv, FlowInv
<1>2. Snapshot(flow.worker) = r
  BY <1>1, EnforcedIsServed DEF EgressInv, Snapshot, Enforced
<1>3. flow.stage \in {"resolved", "open"} => Explain(r, flow.host, flow.port, flow.answer)
  BY <1>1 DEF Within, AnswerAllowed, Explain
<1>4. flow.stage = "denied" =>
        IF flow.answer = {} THEN \A answer \in Answers(flow.host) :
                                   ~Explain(r, flow.host, flow.port, answer)
        ELSE ~Explain(r, flow.host, flow.port, flow.answer)
  BY <1>1 DEF Within, AnswerAllowed, Explain
<1>5. QED BY <1>2, <1>3, <1>4 DEF ExplainedIsEnforced

\* A worker's connections stay inside the policy of its launch, unless they go
\* through the shared proxy, and inside the domains it named, whatever happens
\* to policy, proxies and DNS meanwhile.
THEOREM PolicyHolds == EgressSpec => []WorkerStaysInsidePolicy
<1>1. EgressInv => WorkerStaysInsidePolicy
  BY InsidePolicy
<1>2. QED BY <1>1, EgressInvHolds, PTL

\* `policy explain' says of every destination what the worker's proxy decides.
THEOREM ExplanationHolds == EgressSpec => []ExplainedIsEnforced
<1>1. EgressInv => ExplainedIsEnforced
  BY ExplanationAgrees
<1>2. QED BY <1>1, EgressInvHolds, PTL

-----------------------------------------------------------------------------
(* Types.  The invariant has those of the proxies and of a connection that  *)
(* exists; a worker's progress and its plan go together.                    *)

ProgressTypes ==
  /\ plan \in [Workers -> Plans \cup {NoPlan}]
  /\ at \in [Workers -> {"none", "planned", "creating", "starting", "ready",
                         "attached", "running", "stopped"}]
  /\ \A w \in Workers : at[w] = "none" <=> plan[w] = NoPlan

RestTypes ==
  /\ \A p \in proxies : p.up \in BOOLEAN
  /\ flow.stage = "none" => flow.answer = {}

EgressTypes == EgressInv /\ ProgressTypes /\ RestTypes

\* What a launch decides is a plan.
LEMMA NewPlanTyped ==
  ASSUME policy \in Policies, NEW by \in Launchers, NEW q \in Wishes, Resolves(policy, q)
  PROVE  NewPlan(by, q) \in Plans
<1>1. policy \in Rules /\ q \in Requests
  BY EgressAssumption
<1>2. Wanted(q) \in SUBSET Domains
  BY <1>1, WantedTyped
<1>3. Resolved(policy, q) \in Rules
  BY <1>1, <1>2 DEF Resolved, Narrowed, Rules
<1>4. [Resolved(policy, q) EXCEPT !.blockPrivate = TRUE] \in Rules
  BY <1>3 DEF Rules
<1>5. QED
  BY <1>2, <1>3, <1>4 DEF NewPlan, Plans, Name

\* A step that leaves the plans alone and moves one worker on.
LEMMA ProgressSteps ==
  ASSUME ProgressTypes, plan' = plan, NEW w \in Workers, at[w] # "none",
         NEW s \in {"creating", "starting", "ready", "attached", "running", "stopped"},
         at' = [at EXCEPT ![w] = s]
  PROVE  ProgressTypes'
  BY DEF ProgressTypes

\* The steps of a worker.
LEMMA WorkerTypes ==
  ASSUME EgressTypes, NEW w \in Workers,
         \/ \E by \in Launchers, q \in Wishes : Launch(w, by, q)
         \/ Drop(w) \/ Adopt(w) \/ CreateProxy(w) \/ StartProxy(w) \/ AttachProxy(w)
         \/ RunWorker(w) \/ StopWorkerEgress(w)
  PROVE  ProgressTypes' /\ RestTypes'
<1>0. EgressInv /\ ProgressTypes /\ RestTypes
  BY DEF EgressTypes
<1>1. ASSUME NEW by \in Launchers, NEW q \in Wishes, Launch(w, by, q)
      PROVE  ProgressTypes' /\ RestTypes'
  <2>1. NewPlan(by, q) \in Plans /\ NewPlan(by, q) # NoPlan
    BY <1>0, <1>1, NewPlanTyped, NoPlanAssumption DEF EgressInv, Launch
  <2>2. PICK s \in {"ready", "planned"} : at' = [at EXCEPT ![w] = s]
    BY <1>1 DEF Launch
  <2>3. plan' = [plan EXCEPT ![w] = NewPlan(by, q)]
    BY <1>1 DEF Launch
  <2>4. ProgressTypes'
    BY <1>0, <2>1, <2>2, <2>3 DEF ProgressTypes
  <2>5. QED BY <1>0, <1>1, <2>4 DEF Launch, RestTypes
<1>2. CASE Drop(w)
  BY <1>0, <1>2 DEF Drop, ProgressTypes, RestTypes, NoFlow
<1>3. CASE Adopt(w)
  BY <1>0, <1>3, ProgressSteps DEF Adopt, RestTypes, With, Container, EgressInv, ProxyInv,
                                   ProxyOk
<1>4. CASE CreateProxy(w)
  <2>1. ProgressTypes'
    BY <1>0, <1>4, ProgressSteps DEF CreateProxy
  <2>2. \A p \in proxies' : p \in proxies \/ p.up = FALSE
    BY <1>4 DEF CreateProxy
  <2>3. QED BY <1>0, <1>4, <2>1, <2>2 DEF CreateProxy, RestTypes
<1>5. CASE StartProxy(w)
  BY <1>0, <1>5, ProgressSteps DEF StartProxy, RestTypes, With, Container, EgressInv, ProxyInv,
                                   ProxyOk
<1>6. CASE AttachProxy(w) \/ RunWorker(w)
  BY <1>0, <1>6, ProgressSteps DEF AttachProxy, RunWorker, RestTypes
<1>7. CASE StopWorkerEgress(w)
  BY <1>0, <1>7, ProgressSteps DEF StopWorkerEgress, RestTypes, NoFlow
<1>8. QED BY <1>1, <1>2, <1>3, <1>4, <1>5, <1>6, <1>7

\* The steps of the host, of the proxies and of a connection.
LEMMA OtherTypes ==
  ASSUME EgressTypes,
         \/ EditPolicy \/ ProxyRun \/ Resolve \/ Dial \/ EndFlow
         \/ \E n : ProxyStop(n) \/ ProxyRm(n)
         \/ \E w, h, p : Request(w, h, p) \/ Redirect(h, p)
  PROVE  ProgressTypes' /\ RestTypes'
<1>0. EgressInv /\ ProgressTypes /\ RestTypes
  BY DEF EgressTypes
<1>1. UNCHANGED <<plan, at>>
  BY DEF EditPolicy, ProxyRun, Resolve, Dial, EndFlow, ProxyStop, ProxyRm, Request, Redirect,
         Ask
<1>2. ProgressTypes'
  BY <1>0, <1>1 DEF ProgressTypes
<1>3. CASE EditPolicy
  BY <1>0, <1>2, <1>3 DEF EditPolicy, RestTypes
<1>4. CASE ProxyRun
  <2>1. \A p \in proxies' : p \in proxies \/ p.up = TRUE
    BY <1>4 DEF ProxyRun, With
  <2>2. QED BY <1>0, <1>2, <1>4, <2>1 DEF ProxyRun, RestTypes
<1>5. ASSUME NEW n, ProxyStop(n) \/ ProxyRm(n) PROVE ProgressTypes' /\ RestTypes'
  <2>1. ASSUME NEW p \in proxies PROVE [p EXCEPT !.up = FALSE].up \in BOOLEAN
    BY DEF EgressTypes, EgressInv, ProxyInv, ProxyOk
  <2>2. proxies' \subseteq proxies \cup {[p EXCEPT !.up = FALSE] : p \in proxies}
    BY <1>5 DEF ProxyStop, ProxyRm, With, Container
  <2>3. \A p \in proxies' : p.up \in BOOLEAN
    BY <1>0, <2>1, <2>2 DEF RestTypes
  <2>4. flow' = flow \/ flow' = NoFlow
    BY <1>5 DEF ProxyStop, ProxyRm, Cut
  <2>5. flow'.stage = "none" => flow'.answer = {}
    BY <1>0, <2>4 DEF RestTypes, NoFlow
  <2>6. QED BY <1>2, <2>3, <2>5 DEF RestTypes
<1>6. CASE EndFlow
  BY <1>0, <1>2, <1>6 DEF EndFlow, RestTypes, NoFlow
<1>7. CASE \E w, h, p : Request(w, h, p) \/ Redirect(h, p)
  BY <1>0, <1>2, <1>7 DEF Request, Redirect, Ask, RestTypes, NoFlow
<1>8. CASE Resolve
  <2>1. flow.stage # "none" /\ UNCHANGED proxies
    BY <1>8 DEF Resolve
  <2>2. flow'.stage \in {"resolved", "denied"}
    BY <1>0, <1>8 DEF Resolve, EgressInv, FlowInv
  <2>3. QED BY <1>0, <2>1, <2>2, <1>2 DEF RestTypes
<1>9. CASE Dial
  <2>1. flow'.stage = "open" /\ UNCHANGED proxies
    BY <1>0, <1>9 DEF Dial, EgressInv, FlowInv
  <2>2. QED BY <1>0, <2>1, <1>2 DEF RestTypes
<1>10. QED BY <1>2, <1>3, <1>4, <1>5, <1>6, <1>7, <1>8, <1>9

\* The types are an invariant of every step, next to EgressInv.
LEMMA TypesKept == EgressTypes /\ [EgressNext]_egressVars => EgressTypes'
<1> SUFFICES ASSUME EgressTypes, [EgressNext]_egressVars PROVE EgressTypes'
  OBVIOUS
<1>1. EgressInv'
  BY NextInv DEF EgressTypes
<1>2. CASE UNCHANGED egressVars
  BY <1>1, <1>2 DEF egressVars, EgressTypes, ProgressTypes, RestTypes
<1>3. CASE EgressNext
  <2>1. ProgressTypes' /\ RestTypes'
    BY <1>3, WorkerTypes, OtherTypes DEF EgressNext
  <2>2. QED BY <1>1, <2>1 DEF EgressTypes
<1>4. QED BY <1>2, <1>3

\* Together they are what EgressTypeOK says.
LEMMA TypesGive == EgressTypes => EgressTypeOK
<1> SUFFICES ASSUME EgressTypes PROVE EgressTypeOK
  OBVIOUS
<1>1. ASSUME NEW p \in proxies
      PROVE  /\ DOMAIN p = {"name", "label", "args", "up"}
             /\ p.label \in Rules /\ ParseProxyRules(p.args) \in Rules /\ p.up \in BOOLEAN
  <2>1. ProxyOk(p) /\ p.up \in BOOLEAN
    BY DEF EgressTypes, EgressInv, ProxyInv, RestTypes
  <2>2. DOMAIN p = {"name", "label", "args", "up"}
    BY <2>1 DEF ProxyOk
  <2>3. QED BY <2>1, <2>2, ParseServe DEF ProxyOk
<1>2. /\ flow.stage \in {"none", "named", "resolved", "open", "denied"}
      /\ flow.answer \subseteq Addrs
  BY DEF EgressTypes, EgressInv, FlowInv, RestTypes, Within
<1>3. QED
  BY <1>1, <1>2 DEF EgressTypeOK, EgressTypes, EgressInv, ProgressTypes

\* Policies, proxies, plans, workers and the connection are what the types say.
THEOREM EgressTypeCorrect == EgressSpec => []EgressTypeOK
<1>1. EgressInit => EgressTypes
  BY InitInv DEF EgressInit, EgressTypes, ProgressTypes, RestTypes, NoFlow
<1>2. EgressTypes /\ [EgressNext]_egressVars => EgressTypes'
  BY TypesKept
<1>3. QED BY <1>1, <1>2, TypesGive, PTL DEF EgressSpec
=============================================================================
