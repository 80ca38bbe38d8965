--------------------------- MODULE NetworkPolicy ---------------------------
(***************************************************************************)
(* Egress rules (internal/networkpolicy, internal/workeregress): what they *)
(* allow, how a worker's domains narrow the host's, the presets, and what  *)
(* `policy explain' says.  Names are what normalizeHost returns, so equal  *)
(* spellings are one host; a CIDR is the set of addresses it contains.     *)
(***************************************************************************)
EXTENDS FiniteSets, Naturals

CONSTANTS Hosts,       \* DNS names and IP literals
          Literals,    \* the hosts that are IP literals
          Above,       \* Above[h]: the names that h is a subdomain of
          Addrs, PrivateAddrs,
          LiteralAddr, \* the address that a literal is
          Ports,
          Registries   \* the domains of the "dependencies" preset

ASSUME PolicyAssumption ==
  /\ Literals \cup Registries \subseteq Hosts /\ PrivateAddrs \subseteq Addrs
  /\ Above \in [Hosts -> SUBSET Hosts]
  /\ \A h \in Hosts : \A a \in Above[h] : Above[a] \subseteq Above[h] /\ a \notin Literals
  /\ LiteralAddr \in [Literals -> Addrs]

Domains == [name : Hosts, exact : BOOLEAN]

\* networkpolicy.Rules; a set stands for each list.
Rules == [allowDomains : SUBSET Domains, denyDomains : SUBSET Domains,
          allowCIDRs : SUBSET Addrs, denyCIDRs : SUBSET Addrs,
          allowPorts : SUBSET Ports, denyPorts : SUBSET Ports,
          blockPrivate : BOOLEAN, defaultDeny : BOOLEAN]

\* indexDomains and domainIndex.matches: a bare DNS name has a suffix entry.
DomainMatches(ds, h) ==
  \E d \in ds : \/ d.name = h
                \/ ~d.exact /\ d.name \notin Literals /\ d.name \in Above[h]

\* A default-deny policy without a domain or CIDR grant.
GrantsNothing(r) == r.defaultDeny /\ r.allowDomains = {} /\ r.allowCIDRs = {}

\* compiled.CheckDestination: the name and the port, before any DNS.
DestinationAllowed(r, h, p) ==
  /\ ~DomainMatches(r.denyDomains, h) /\ p \notin r.denyPorts
  /\ ~GrantsNothing(r)
  /\ r.allowDomains # {} => DomainMatches(r.allowDomains, h)
  /\ r.allowPorts # {} => p \in r.allowPorts

\* compiled.CheckAddress: one address the name resolved to.
AddressAllowed(r, a) ==
  /\ ~GrantsNothing(r)
  /\ ~(r.blockPrivate /\ a \in PrivateAddrs)
  /\ a \notin r.denyCIDRs
  /\ r.allowCIDRs # {} => a \in r.allowCIDRs

Permits(r, h, p, a) == DestinationAllowed(r, h, p) /\ AddressAllowed(r, a)

-----------------------------------------------------------------------------
\* Mutant: exactness is forgotten; only the names are compared.
DomainWithin_Names(child, parent) ==
  child.name = parent.name \/ parent.name \in Above[child.name]

\* DomainWithin: every host that child matches is matched by parent.
DomainWithin(child, parent) ==
  LET only(d) == d.exact \/ d.name \in Literals IN
    IF only(parent) THEN only(child) /\ child.name = parent.name
    ELSE child.name = parent.name \/ parent.name \in Above[child.name]

\* workeregress.Rules: its error cases, and its result.
Narrows(host, ds) ==
  /\ ds # {} /\ ~GrantsNothing(host)
  /\ host.allowDomains # {} =>
       \A d \in ds : \E allowed \in host.allowDomains : DomainWithin(d, allowed)

Narrowed(host, ds) == [host EXCEPT !.allowDomains = ds, !.blockPrivate = TRUE]

\* Configured: anything beyond the blocking of private addresses.
Configured(r) ==
  \/ r.defaultDeny
  \/ \E s \in {r.allowDomains, r.denyDomains} : s # {}
  \/ \E s \in {r.allowCIDRs, r.denyCIDRs} : s # {}
  \/ \E s \in {r.allowPorts, r.denyPorts} : s # {}

Requests == [preset : {"", "offline", "test", "dependencies", "api"},
             domains : SUBSET Domains, noInternet : BOOLEAN]

Offline(q) == q.preset \in {"offline", "test"}

\* The domains a request ends up with.
Wanted(q) ==
  IF q.preset = "dependencies" /\ q.domains = {}
  THEN {[name |-> h, exact |-> FALSE] : h \in Registries} ELSE q.domains

\* ResolvePreset: whether it succeeds, the rules, and "offline".
Resolves(host, q) ==
  \/ q.preset = "" /\ q.domains = {}
  \/ Offline(q) /\ q.domains = {}
  \/ ~Offline(q) /\ Narrows(host, Wanted(q))

Resolved(host, q) == IF Wanted(q) = {} THEN host ELSE Narrowed(host, Wanted(q))
ResolvedOffline(host, q) == Offline(q) \/ (Wanted(q) = {} /\ GrantsNothing(host))

-----------------------------------------------------------------------------
\* The DNS answer that Dialer and Explain check: a literal is its own.
Answers(h) == IF h \in Literals THEN {{LiteralAddr[h]}} ELSE SUBSET Addrs

\* Mutant: the preflight is content with one good address.
Explain_AnyAddress(r, h, p, answer) ==
  DestinationAllowed(r, h, p) /\ \E a \in answer : AddressAllowed(r, a)

\* Explain with resolve: the decision for one answer.
Explain(r, h, p, answer) ==
  /\ DestinationAllowed(r, h, p)
  /\ answer # {} /\ \A a \in answer : AddressAllowed(r, a)

-----------------------------------------------------------------------------
\* The flags an egress proxy is created with (workeregress.Ensure and
\* buildProxyRunArgs), and ParseProxyRules, which reads them back.
Flags(flag, values) == {<<flag, v>> : v \in values}

ServeArgs(r) ==
  UNION {Flags("allow-domain", r.allowDomains), Flags("deny-domain", r.denyDomains),
         Flags("allow-cidr", r.allowCIDRs), Flags("deny-cidr", r.denyCIDRs),
         Flags("allow-port", r.allowPorts), Flags("deny-port", r.denyPorts),
         IF r.blockPrivate THEN Flags("block-private", {TRUE}) ELSE {},
         Flags("default-deny", {r.defaultDeny})}

ParseProxyRules(args) ==
  LET given(flag) == {arg[2] : arg \in {x \in args : x[1] = flag}} IN
    [allowDomains |-> given("allow-domain"), denyDomains |-> given("deny-domain"),
     allowCIDRs |-> given("allow-cidr"), denyCIDRs |-> given("deny-cidr"),
     allowPorts |-> given("allow-port"), denyPorts |-> given("deny-port"),
     blockPrivate |-> TRUE \in given("block-private"),
     defaultDeny |-> TRUE \in given("default-deny")]
=============================================================================
