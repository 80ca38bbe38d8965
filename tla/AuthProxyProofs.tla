--------------------------- MODULE AuthProxyProofs ---------------------------
(***************************************************************************)
(* Type correctness of AuthProxy, the two invariants of its token ledger,  *)
(* and those of the refreshes under refreshMu and of replaced logins, for  *)
(* every set of names, runs, values, calls and requests.                   *)
(***************************************************************************)
EXTENDS AuthProxy, TLAPS

LEMMA CaseTypeInit == Init => CaseTypeOK
  BY DEF Init, CaseInit, CaseTypeOK, Cases, Generations, Providers

\* Every operation of the durable case preserves its type.
LEMMA CaseTypeNext ==
  ASSUME CaseTypeOK,
         NEW q \in Requests, req \in [Requests -> Reqs],
         storeVersion \in Nat, caseConn \in Nat,
         storeCreds \in Generations, creds \in Generations,
         \/ UNCHANGED caseVars
         \/ Disconnect
         \/ Create
         \/ SaveRefresh(storeVersion, caseConn, Provider(req[q].kind), NextCreds(q))
         \/ Rotate(Provider(req[q].kind), creds[Provider(req[q].kind)])
  PROVE  CaseTypeOK'
<1> USE BoundsAssumption DEF CaseTypeOK, Cases
<1>0. Provider(req[q].kind) \in Providers
  BY DEF Provider, Providers
<1>1. CASE UNCHANGED caseVars
  BY <1>1 DEF caseVars
<1>2. CASE Disconnect
  BY <1>2 DEF Disconnect
<1>3. CASE Create
  BY <1>3 DEF Create, Generations
<1>4. CASE SaveRefresh(storeVersion, caseConn, Provider(req[q].kind), NextCreds(q))
  <2>1. NextCreds(q) \in Generations
    BY <1>0 DEF NextCreds, Reqs, Generations
  <2>2. QED BY <1>4, <2>1 DEF SaveRefresh
<1>5. CASE Rotate(Provider(req[q].kind), creds[Provider(req[q].kind)])
  BY <1>0, <1>5 DEF Rotate, Generations
<1>6. QED BY <1>1, <1>2, <1>3, <1>4, <1>5
-----------------------------------------------------------------------------
(* The helpers through which the ledger changes.                            *)

LEMMA RemoveTokensType ==
  ASSUME LedgerTypeOK, CallTypeOK, NEW S \in SUBSET Names, RemoveTokens(S)
  PROVE  tokens' \in [Names -> Calls \cup {None}]
         /\ byValue' \in [Values -> Calls \cup {None}]
         /\ cancelled' \subseteq Calls
  BY DEF LedgerTypeOK, RemoveTokens, Records

LEMMA ReplaceTokenType ==
  ASSUME LedgerTypeOK, NEW c \in Calls, arg[c].name \in Names, ReplaceToken(c)
  PROVE  tokens' \in [Names -> Calls \cup {None}]
         /\ byValue' \in [Values -> Calls \cup {None}]
         /\ cancelled' \subseteq Calls
<1>1. \A v \in Values : byValue'[v] \in Calls \cup {None}
  BY DEF LedgerTypeOK, ReplaceToken
<1>2. cancelled' \subseteq Calls
  BY DEF LedgerTypeOK, ReplaceToken, Records
<1>3. QED BY <1>1, <1>2 DEF LedgerTypeOK, ReplaceToken

-----------------------------------------------------------------------------
(* The inductive invariant of the ledger.                                   *)

\* A call carries a real request from the moment it begins.
CallShape ==
  \A c \in Calls :
    /\ pc[c] = "idle" => arg[c] = NoArg
    /\ pc[c] # "idle" => /\ arg[c].name \in Names /\ arg[c].run \in Runs
                         /\ arg[c].value \in Values
                         /\ arg[c].op \in {"issue", "restore"}

\* The value an issue has drawn is nobody else's until the issue returns it.
FreshValues ==
  \A c, d \in Calls :
    c # d /\ arg[c].op = "issue" /\ pc[c] # "installed"
      => arg[d].value # arg[c].value

\* Only a call that installed its record is in the ledger or was cancelled.
OnlyInstalled ==
  /\ \A n \in Names : tokens[n] # None => pc[tokens[n]] = "installed"
  /\ \A v \in Values : byValue[v] # None => pc[byValue[v]] = "installed"
  /\ \A c \in cancelled : pc[c] = "installed"

LedgerInv == LedgerTypeOK /\ OnlyInstalled /\ IndexesAgree
CallInv == CallTypeOK /\ CallShape /\ FreshValues
Inv == TypeOK /\ CallInv /\ LedgerInv /\ RevocationSticks

\* What the ledger reads of the calls is not changed.
SameRecords ==
  /\ \A d \in Calls : pc[d] = "installed" <=> pc'[d] = "installed"
  /\ \A d \in Calls : pc[d] = "installed" =>
       /\ arg'[d].name = arg[d].name
       /\ arg'[d].run = arg[d].run
       /\ arg'[d].value = arg[d].value

-----------------------------------------------------------------------------
(* How each way of changing the ledger preserves it.                        *)

\* An action that leaves the ledger and the records alone.
LEMMA KeepLedger ==
  ASSUME LedgerInv, SameRecords, UNCHANGED ledgerVars
  PROVE  OnlyInstalled' /\ IndexesAgree'
<1> USE NoneAssumption DEF LedgerInv, LedgerTypeOK, ledgerVars
<1>1. OnlyInstalled'
  BY DEF OnlyInstalled, SameRecords
<1>2. IndexesAgree'
  BY DEF OnlyInstalled, IndexesAgree, SameRecords, Installed
<1>3. QED BY <1>1, <1>2

\* removeTokenLocked for any set of names.
LEMMA RemoveLedger ==
  ASSUME LedgerInv, CallInv, SameRecords, NEW S \in SUBSET Names, RemoveTokens(S)
  PROVE  OnlyInstalled' /\ IndexesAgree'
<1> USE NoneAssumption DEF LedgerInv, LedgerTypeOK
<1>1. /\ \A n \in Names : tokens'[n] = IF n \in S THEN None ELSE tokens[n]
      /\ \A c \in Calls : c \in cancelled' <=>
           c \in cancelled \/ \E n \in S : tokens[n] = c
      /\ cancelled' \subseteq Calls
      /\ \A v \in Values : byValue'[v] =
           IF \E n \in S : tokens[n] # None /\ arg[tokens[n]].value = v
           THEN None ELSE byValue[v]
  BY DEF RemoveTokens, Records
<1>2. OnlyInstalled'
  BY <1>1 DEF OnlyInstalled, SameRecords
<1>3. \A n \in Names : tokens'[n] # None =>
       /\ arg'[tokens'[n]].name = n
       /\ byValue'[arg'[tokens'[n]].value] = tokens'[n]
       /\ tokens'[n] \notin cancelled'
  <2> SUFFICES ASSUME NEW n \in Names, tokens'[n] # None
               PROVE  /\ arg'[tokens'[n]].name = n
                      /\ byValue'[arg'[tokens'[n]].value] = tokens'[n]
                      /\ tokens'[n] \notin cancelled'
    OBVIOUS
  <2>1. n \notin S /\ tokens'[n] = tokens[n] /\ tokens[n] \in Calls
    BY <1>1
  <2>2. /\ pc[tokens[n]] = "installed"
        /\ arg[tokens[n]].name = n
        /\ arg[tokens[n]].value \in Values
        /\ byValue[arg[tokens[n]].value] = tokens[n]
        /\ tokens[n] \notin cancelled
    BY <2>1 DEF OnlyInstalled, IndexesAgree, CallInv, CallShape
  <2>3. /\ arg'[tokens[n]].name = n
        /\ arg'[tokens[n]].value = arg[tokens[n]].value
    BY <2>1, <2>2 DEF SameRecords
  <2>4. \A m \in S : tokens[m] # None => arg[tokens[m]].name = m
    BY DEF IndexesAgree
  <2>5. \A m \in S : tokens[m] # tokens[n]
    BY <2>1, <2>2, <2>4
  <2>6. \A m \in S : tokens[m] # None => arg[tokens[m]].value # arg[tokens[n]].value
    BY <2>2, <2>5 DEF IndexesAgree
  <2>7. QED BY <1>1, <2>1, <2>2, <2>3, <2>5, <2>6
<1>4. \A v \in Values : byValue'[v] # None =>
       /\ arg'[byValue'[v]].value = v
       /\ tokens'[arg'[byValue'[v]].name] = byValue'[v]
  <2> SUFFICES ASSUME NEW v \in Values, byValue'[v] # None
               PROVE  /\ arg'[byValue'[v]].value = v
                      /\ tokens'[arg'[byValue'[v]].name] = byValue'[v]
    OBVIOUS
  <2>1. byValue'[v] = byValue[v] /\ byValue[v] \in Calls
        /\ \A n \in S : tokens[n] # None => arg[tokens[n]].value # v
    BY <1>1
  <2>2. /\ pc[byValue[v]] = "installed"
        /\ arg[byValue[v]].value = v
        /\ arg[byValue[v]].name \in Names
        /\ tokens[arg[byValue[v]].name] = byValue[v]
    BY <2>1 DEF OnlyInstalled, IndexesAgree, CallInv, CallShape
  <2>3. /\ arg'[byValue[v]].name = arg[byValue[v]].name
        /\ arg'[byValue[v]].value = v
    BY <2>1, <2>2 DEF SameRecords
  <2>4. QED BY <1>1, <2>1, <2>2, <2>3
<1>5. \A c \in Calls : pc'[c] = "installed" /\ c \notin cancelled' =>
        \E n \in Names : tokens'[n] = c
  BY <1>1 DEF IndexesAgree, SameRecords, Installed
<1>6. QED BY <1>2, <1>3, <1>4, <1>5 DEF IndexesAgree, Installed

\* replaceTokenLocked for an admissible call.
LEMMA ReplaceLedger ==
  ASSUME LedgerInv, CallInv, NEW c \in Calls, pc[c] = "install",
         Admissible(c), ReplaceToken(c), UNCHANGED arg,
         pc' = [pc EXCEPT ![c] = "installed"]
  PROVE  OnlyInstalled' /\ IndexesAgree'
<1> USE NoneAssumption DEF LedgerInv, LedgerTypeOK, CallInv, CallTypeOK
<1> DEFINE name == arg[c].name
           value == arg[c].value
           old == tokens[name]
<1>1. name \in Names /\ value \in Values /\ arg[c].op \in {"issue", "restore"}
  BY DEF CallShape
<1>2. c \notin cancelled /\ \A n \in Names : tokens[n] # c
  BY DEF OnlyInstalled
<1>3. /\ \A n \in Names : tokens'[n] = IF n = name THEN c ELSE tokens[n]
      /\ \A d \in Calls : d \in cancelled' <=> d \in cancelled \/ old = d
      /\ cancelled' \subseteq Calls
      /\ \A v \in Values : byValue'[v] =
           IF v = value THEN c
           ELSE IF old # None /\ arg[old].value = v THEN None ELSE byValue[v]
  BY <1>1 DEF ReplaceToken, Records
<1>4. byValue[value] # None =>
        byValue[value] \in Calls /\ arg[byValue[value]].name = name
  <2>1. CASE arg[c].op = "restore"
    BY <1>1, <2>1 DEF Admissible
  <2>2. CASE arg[c].op = "issue"
    <3>1. \A d \in Calls : arg[d].value = value => d = c
      BY <2>2 DEF FreshValues
    <3>2. byValue[value] # None => byValue[value] = c
      BY <1>1, <3>1 DEF IndexesAgree
    <3>3. byValue[value] # c
      BY <1>1 DEF OnlyInstalled
    <3>4. QED BY <3>2, <3>3
  <2>3. QED BY <1>1, <2>1, <2>2
<1>5. \A n \in Names : tokens[n] # None /\ arg[tokens[n]].value = value => n = name
  BY <1>1, <1>4 DEF IndexesAgree
<1>6. OnlyInstalled'
  <2>1. \A n \in Names : tokens'[n] # None => pc'[tokens'[n]] = "installed"
    BY <1>3 DEF OnlyInstalled
  <2>2. \A v \in Values : byValue'[v] # None => pc'[byValue'[v]] = "installed"
    BY <1>3 DEF OnlyInstalled
  <2>3. \A d \in cancelled' : pc'[d] = "installed"
    BY <1>1, <1>3 DEF OnlyInstalled
  <2>4. QED BY <2>1, <2>2, <2>3 DEF OnlyInstalled
<1>7. \A n \in Names : tokens'[n] # None =>
       /\ arg'[tokens'[n]].name = n
       /\ byValue'[arg'[tokens'[n]].value] = tokens'[n]
       /\ tokens'[n] \notin cancelled'
  <2> SUFFICES ASSUME NEW n \in Names, tokens'[n] # None
               PROVE  /\ arg[tokens'[n]].name = n
                      /\ byValue'[arg[tokens'[n]].value] = tokens'[n]
                      /\ tokens'[n] \notin cancelled'
    OBVIOUS
  <2>1. CASE n = name
    BY <1>1, <1>2, <1>3, <2>1
  <2>2. CASE n # name
    <3>1. tokens'[n] = tokens[n] /\ tokens[n] \in Calls
      BY <1>3, <2>2
    <3>2. /\ arg[tokens[n]].name = n
          /\ arg[tokens[n]].value \in Values
          /\ byValue[arg[tokens[n]].value] = tokens[n]
          /\ tokens[n] \notin cancelled
      BY <3>1 DEF OnlyInstalled, IndexesAgree, CallShape
    <3>3. arg[tokens[n]].value # value
      BY <1>5, <2>2, <3>1
    <3>4. old # None => arg[old].name = name /\ byValue[arg[old].value] = old
      BY <1>1 DEF IndexesAgree
    <3>5. old # tokens[n]
      BY <2>2, <3>1, <3>2, <3>4
    <3>6. QED BY <1>3, <3>1, <3>2, <3>3, <3>4, <3>5
  <2>3. QED BY <2>1, <2>2
<1>8. \A v \in Values : byValue'[v] # None =>
       /\ arg'[byValue'[v]].value = v
       /\ tokens'[arg'[byValue'[v]].name] = byValue'[v]
  <2> SUFFICES ASSUME NEW v \in Values, byValue'[v] # None
               PROVE  /\ arg[byValue'[v]].value = v
                      /\ tokens'[arg[byValue'[v]].name] = byValue'[v]
    OBVIOUS
  <2>1. CASE v = value
    BY <1>1, <1>3, <2>1
  <2>2. CASE v # value
    <3>1. byValue'[v] = byValue[v] /\ byValue[v] \in Calls
          /\ (old # None => arg[old].value # v)
      BY <1>3, <2>2
    <3>2. /\ arg[byValue[v]].value = v
          /\ arg[byValue[v]].name \in Names
          /\ tokens[arg[byValue[v]].name] = byValue[v]
      BY <3>1 DEF OnlyInstalled, IndexesAgree, CallShape
    <3>3. arg[byValue[v]].name # name
      BY <3>1, <3>2
    <3>4. QED BY <1>3, <3>1, <3>2, <3>3
  <2>3. QED BY <2>1, <2>2
<1>9. \A d \in Calls : pc'[d] = "installed" /\ d \notin cancelled' =>
        \E n \in Names : tokens'[n] = d
  <2> SUFFICES ASSUME NEW d \in Calls, pc'[d] = "installed", d \notin cancelled'
               PROVE  \E n \in Names : tokens'[n] = d
    OBVIOUS
  <2>1. CASE d = c
    BY <1>1, <1>3, <2>1
  <2>2. CASE d # c
    BY <1>3, <2>2 DEF IndexesAgree, Installed
  <2>3. QED BY <2>1, <2>2
<1>10. QED BY <1>6, <1>7, <1>8, <1>9 DEF IndexesAgree, Installed

\* A new process: every lease of the old one is over.
LEMMA RestartLedger ==
  ASSUME LedgerInv, CallInv, Restart
  PROVE  OnlyInstalled' /\ IndexesAgree'
<1> USE NoneAssumption DEF LedgerInv, LedgerTypeOK, CallInv, CallTypeOK
<1>1. \A d \in Calls : pc'[d] = "installed" <=> pc[d] = "installed"
  BY DEF Restart
<1>2. OnlyInstalled'
  BY <1>1 DEF OnlyInstalled, Restart
<1>3. IndexesAgree'
  BY <1>1 DEF IndexesAgree, Installed, Restart
<1>4. QED BY <1>2, <1>3
-----------------------------------------------------------------------------
(* Every action preserves the types.                                        *)

LEMMA RequestTypes ==
  ASSUME RequestTypeOK, MemoryTypeOK, CaseTypeOK, LedgerTypeOK, NEW q \in Requests,
         \/ \E kind \in Kinds, v \in Values : Admit(q, kind, v)
         \/ CancelRequest(q) \/ EnterRefresh(q) \/ ReadBody(q) \/ RefuseBody(q)
         \/ IssuerGrants(q) \/ IssuerFails(q) \/ SaveCommits(q) \/ SaveFails(q) \/ Publish(q)
         \/ Inject(q) \/ Finish(q) \/ AbortStream(q)
  PROVE  RequestTypeOK' /\ MemoryTypeOK'
<1> USE NoneAssumption, KindsAssumption DEF RequestTypeOK, MemoryTypeOK, Reqs
<1>0. NoReq \in Reqs /\ Provider(req[q].kind) \in Providers
  BY DEF NoReq, Provider, Providers
<1>1. ASSUME NEW kind \in Kinds, NEW v \in Values, Admit(q, kind, v)
      PROVE  RequestTypeOK' /\ MemoryTypeOK'
  BY <1>1 DEF Admit, NoReq, LedgerTypeOK, flagVars, genVars
<1>2. CASE CancelRequest(q)
  <2>1. [req[q] EXCEPT !.gone = TRUE] \in Reqs
    OBVIOUS
  <2>2. req' = [req EXCEPT ![q] = [req[q] EXCEPT !.gone = TRUE]]
    BY <1>2 DEF CancelRequest
  <2>3. RequestTypeOK'
    BY <2>1, <2>2
  <2>4. MemoryTypeOK'
    BY <1>2 DEF CancelRequest, flagVars, genVars
  <2>5. QED BY <2>3, <2>4
<1>3. CASE EnterRefresh(q)
  BY <1>0, <1>3 DEF EnterRefresh, flagVars, genVars
<1>4. CASE IssuerGrants(q)
  BY <1>0, <1>4 DEF IssuerGrants, CaseTypeOK, Generations, flagVars, genVars
<1>5. CASE IssuerFails(q)
  BY <1>0, <1>5 DEF IssuerFails, Abandon, genVars
<1>6. CASE SaveCommits(q)
  <2>1. lastVersion' \in Nat
    BY <1>6 DEF SaveCommits, SaveRefresh, CaseTypeOK
  <2>2. RequestTypeOK'
    <3>1. [req[q] EXCEPT !.pc = "saved"] \in Reqs
      OBVIOUS
    <3>2. [[req[q] EXCEPT !.pc = "saved"] EXCEPT !.version = lastVersion'] \in Reqs
      BY <2>1, <3>1
    <3>3. req' = [req EXCEPT ![q] =
                    [[req[q] EXCEPT !.pc = "saved"] EXCEPT !.version = lastVersion']]
      BY <1>6 DEF SaveCommits
    <3>4. QED BY <3>2, <3>3
  <2>3. MemoryTypeOK'
    BY <1>6 DEF SaveCommits, flagVars, genVars
  <2>4. QED BY <2>2, <2>3
<1>7. CASE SaveFails(q)
  <2>1. PICK outage \in BOOLEAN : FailSave(q, outage)
    BY <1>7 DEF SaveFails
  <2>2. RequestTypeOK'
    BY <1>0, <2>1 DEF FailSave, Abandon
  <2>3. saveFailed' \in BOOLEAN /\ caseRevoked' \in BOOLEAN
    BY <2>1 DEF FailSave, RevokeCaseTokens
  <2>4. MemoryTypeOK'
    BY <1>0, <2>1, <2>3 DEF FailSave, Abandon, genVars
  <2>5. QED BY <2>2, <2>4
<1>8. CASE Publish(q)
  BY <1>0, <1>8 DEF Publish, NextCreds, Generations, flagVars
<1>9. CASE Inject(q)
  BY <1>0, <1>9 DEF Inject, flagVars, genVars
<1>10. CASE Finish(q) \/ AbortStream(q)
  BY <1>0, <1>10 DEF Finish, AbortStream, EndRequest, flagVars, genVars
<1>11. CASE ReadBody(q)
  BY <1>11 DEF ReadBody, flagVars, genVars
<1>12. CASE RefuseBody(q)
  BY <1>0, <1>12 DEF RefuseBody, Abandon, flagVars, genVars
<1>13. QED
  BY <1>1, <1>2, <1>3, <1>4, <1>5, <1>6, <1>7, <1>8, <1>9, <1>10, <1>11, <1>12
-----------------------------------------------------------------------------
(* Every action preserves the shape of the calls.                           *)

LEMMA BeginCall ==
  ASSUME CallInv, storeVersion \in Nat, caseConn \in Nat, CaseTypeOK,
         NEW c \in Calls, NEW n \in Names, NEW r \in Runs,
         BeginIssue(c, n, r) \/ BeginRestore(c, n, r)
  PROVE  CallInv'
<1> USE NoneAssumption DEF CallInv, CallTypeOK, CallShape, FreshValues
<1>1. PICK op \in {"issue", "restore"}, v \in Values, k \in {caseConn, store.conn} :
        /\ Begin(c, op, n, r, v, k)
        /\ op = "issue" => \A d \in Calls : arg[d].value # v
        /\ \A d \in Calls : arg[d].op = "issue" /\ arg[d].value = v
                              => pc[d] = "installed"
  BY DEF BeginIssue, BeginRestore
<1> DEFINE a == [op |-> op, name |-> n, run |-> r, value |-> v, conn |-> k,
                 seen |-> "none", late |-> ~CaseCurrent]
<1>2. /\ pc[c] = "idle" /\ pc' = [pc EXCEPT ![c] = "check"]
      /\ arg' = [arg EXCEPT ![c] = a]
  BY <1>1 DEF Begin
<1>3. a \in Args
  <2>1. k \in Nat
    BY DEF CaseTypeOK, Cases
  <2>2. CaseCurrent \in BOOLEAN
    BY DEF CaseCurrent, CaseTypeOK, Cases
  <2>3. QED BY <2>1, <2>2 DEF Args
<1>4. CallTypeOK'
  BY <1>2, <1>3
<1>5. CallShape'
  BY <1>2
<1>6. FreshValues'
  <2> SUFFICES ASSUME NEW d \in Calls, NEW e \in Calls, d # e,
                      arg'[d].op = "issue", pc'[d] # "installed"
               PROVE  arg'[e].value # arg'[d].value
    OBVIOUS
  <2>1. CASE d = c
    BY <1>1, <1>2, <2>1
  <2>2. CASE e = c
    BY <1>1, <1>2, <2>2
  <2>3. CASE d # c /\ e # c
    BY <1>2, <2>3
  <2>4. QED BY <2>1, <2>2, <2>3
<1>7. QED BY <1>4, <1>5, <1>6

LEMMA CallSteps ==
  ASSUME TypeOK, CallInv, [Next]_vars
  PROVE  CallInv'
<1> USE NoneAssumption
<1>1. ASSUME NEW c \in Calls, NEW n \in Names, NEW r \in Runs,
             BeginIssue(c, n, r) \/ BeginRestore(c, n, r)
      PROVE  CallInv'
  BY <1>1, BeginCall DEF TypeOK, MemoryTypeOK
<1>2. ASSUME NEW c \in Calls, LoadCase(c)
      PROVE  CallInv'
  <2>1. Observed \in {"gone", "changed", "match"}
    BY DEF Observed
  <2>2. PICK seen \in {"match", "changed", "gone", "error"} :
          arg' = [arg EXCEPT ![c].seen = seen]
    BY <1>2, <2>1 DEF LoadCase
  <2>3. pc[c] = "check" /\ pc' = [pc EXCEPT ![c] = "compare"]
    BY <1>2 DEF LoadCase
  <2>4. CallTypeOK'
    <3>1. [arg[c] EXCEPT !.seen = seen] \in Args
      BY DEF CallInv, CallTypeOK, Args
    <3>2. arg' = [arg EXCEPT ![c] = [arg[c] EXCEPT !.seen = seen]]
      BY <2>2
    <3>3. QED BY <2>3, <3>1, <3>2 DEF CallInv, CallTypeOK
  <2>5. \A d \in Calls : /\ arg'[d].op = arg[d].op /\ arg'[d].name = arg[d].name
                         /\ arg'[d].run = arg[d].run
                         /\ arg'[d].value = arg[d].value
    BY <2>2 DEF CallInv, CallTypeOK, Args
  <2>6. CallShape'
    BY <2>2, <2>3, <2>5 DEF CallInv, CallTypeOK, CallShape
  <2>7. FreshValues'
    BY <2>3, <2>5 DEF CallInv, CallTypeOK, FreshValues
  <2>8. QED BY <2>4, <2>6, <2>7 DEF CallInv
<1>3. ASSUME NEW c \in Calls, CompareCase(c)
      PROVE  CallInv'
  <2>1. /\ arg' = arg /\ pc[c] = "compare"
        /\ \E s \in {"refused", "install"} : pc' = [pc EXCEPT ![c] = s]
    BY <1>3 DEF CompareCase
  <2>2. QED BY <2>1 DEF CallInv, CallTypeOK, CallShape, FreshValues
<1>4. ASSUME NEW c \in Calls, Install(c)
      PROVE  CallInv'
  <2>1. /\ arg' = arg /\ pc[c] = "install"
        /\ \E s \in {"refused", "installed"} : pc' = [pc EXCEPT ![c] = s]
    BY <1>4 DEF Install
  <2>2. QED BY <2>1 DEF CallInv, CallTypeOK, CallShape, FreshValues
<1>5. CASE Restart
  BY <1>5 DEF Restart, CallInv, CallTypeOK, CallShape, FreshValues
<1>6. CASE UNCHANGED callVars
  BY <1>6 DEF callVars, CallInv, CallTypeOK, CallShape, FreshValues
<1>7. CASE UNCHANGED vars
  BY <1>6, <1>7 DEF vars
<1>8. ASSUME NEW c \in Calls, Expire(c)
      PROVE  UNCHANGED callVars
  BY <1>8 DEF Expire
<1>9. ASSUME NEW q \in Requests, RequestNext(q)
      PROVE  UNCHANGED callVars
  BY <1>9 DEF RequestNext, Admit, CancelRequest, EnterRefresh, ReadBody, RefuseBody,
              IssuerGrants, IssuerFails, SaveCommits, SaveFails, FailSave, Publish, Inject,
              Finish, AbortStream, EndRequest
<1>10. ASSUME \/ \E n \in Names : RevokeToken(n)
              \/ \E r \in Runs : RevokeRun(r)
              \/ RevokeCase \/ ExpireLoop \/ Stop \/ Shutdown
              \/ HostDisconnects \/ HostReconnects
       PROVE  UNCHANGED callVars
  BY <1>10 DEF RevokeToken, RevokeRun, RevokeCase, ExpireLoop, Stop, Shutdown,
               HostDisconnects, HostReconnects
<1>11. QED
  BY <1>1, <1>2, <1>3, <1>4, <1>5, <1>6, <1>7, <1>8, <1>9, <1>10
     DEF Next, CallNext
-----------------------------------------------------------------------------
(* What each action does to the ledger, and to the flags that forbid it to  *)
(* grow.                                                                    *)

Flags == <<caseRevoked, revokedRuns>>

LedgerEffect ==
  \/ UNCHANGED ledgerVars /\ UNCHANGED Flags /\ SameRecords
  \/ \E S \in SUBSET Names :
       /\ RemoveTokens(S) /\ SameRecords
       /\ caseRevoked' = caseRevoked \/ S = Names
       /\ revokedRuns' = revokedRuns \/ \E r \in Runs :
            /\ revokedRuns' = revokedRuns \cup {r}
            /\ \A n \in Names : tokens[n] # None /\ arg[tokens[n]].run = r => n \in S
  \/ \E c \in Calls :
       /\ pc[c] = "install" /\ pc' = [pc EXCEPT ![c] = "installed"]
       /\ Admissible(c) /\ ReplaceToken(c) /\ UNCHANGED <<arg, Flags>>
  \/ Restart

LEMMA LedgerSteps ==
  ASSUME TypeOK, CallInv, [Next]_vars
  PROVE  LedgerEffect
<1> USE DEF ledgerVars, flagVars, callVars, Flags
<1>1. ASSUME NEW c \in Calls, NEW n \in Names, NEW r \in Runs,
             BeginIssue(c, n, r) \/ BeginRestore(c, n, r)
      PROVE  LedgerEffect
  <2>1. /\ pc[c] = "idle" /\ pc' = [pc EXCEPT ![c] = "check"]
        /\ \A d \in Calls : d # c => arg'[d] = arg[d]
        /\ UNCHANGED ledgerVars /\ UNCHANGED Flags
    BY <1>1 DEF BeginIssue, BeginRestore, Begin, CallInv, CallTypeOK
  <2>2. SameRecords
    BY <2>1 DEF SameRecords, CallInv, CallTypeOK
  <2>3. QED BY <2>1, <2>2 DEF LedgerEffect
<1>2. ASSUME NEW c \in Calls, LoadCase(c)
      PROVE  LedgerEffect
  <2>1. /\ pc[c] = "check" /\ pc' = [pc EXCEPT ![c] = "compare"]
        /\ \A d \in Calls : d # c => arg'[d] = arg[d]
        /\ UNCHANGED ledgerVars /\ UNCHANGED Flags
    BY <1>2 DEF LoadCase, CallInv, CallTypeOK
  <2>2. SameRecords
    BY <2>1 DEF SameRecords, CallInv, CallTypeOK
  <2>3. QED BY <2>1, <2>2 DEF LedgerEffect
<1>3. ASSUME NEW c \in Calls, CompareCase(c)
      PROVE  LedgerEffect
  <2>1. SameRecords
    BY <1>3 DEF CompareCase, SameRecords, CallInv, CallTypeOK
  <2>2. CASE RevokeCaseTokens
    BY <1>3, <2>1, <2>2 DEF CompareCase, RevokeCaseTokens, LedgerEffect
  <2>3. CASE UNCHANGED <<ledgerVars, caseRevoked>>
    BY <1>3, <2>1, <2>3 DEF CompareCase, LedgerEffect
  <2>4. QED BY <1>3, <2>2, <2>3 DEF CompareCase
<1>4. ASSUME NEW c \in Calls, Install(c)
      PROVE  LedgerEffect
  <2>1. CASE Admissible(c) /\ ReplaceToken(c) /\ pc' = [pc EXCEPT ![c] = "installed"]
    BY <1>4, <2>1 DEF Install, LedgerEffect
  <2>2. CASE pc' = [pc EXCEPT ![c] = "refused"] /\ UNCHANGED ledgerVars
    <3>1. SameRecords
      BY <1>4, <2>2 DEF Install, SameRecords, CallInv, CallTypeOK
    <3>2. QED BY <1>4, <2>2, <3>1 DEF Install, LedgerEffect
  <2>3. QED BY <1>4, <2>1, <2>2 DEF Install
<1>5. UNCHANGED callVars => SameRecords
  BY DEF SameRecords
<1>6. ASSUME NEW n \in Names, RevokeToken(n)
      PROVE  LedgerEffect
  BY <1>5, <1>6 DEF RevokeToken, LedgerEffect
<1>7. ASSUME NEW r \in Runs, RevokeRun(r)
      PROVE  LedgerEffect
  <2> DEFINE S == {n \in Names : tokens[n] # None /\ arg[tokens[n]].run = r}
  <2>1. /\ RemoveTokens(S) /\ revokedRuns' = revokedRuns \cup {r}
        /\ caseRevoked' = caseRevoked /\ UNCHANGED callVars
    BY <1>7 DEF RevokeRun
  <2>2. S \in SUBSET Names
    OBVIOUS
  <2>3. QED BY <1>5, <2>1, <2>2 DEF LedgerEffect
<1>8. CASE RevokeCase
  BY <1>5, <1>8 DEF RevokeCase, RevokeCaseTokens, LedgerEffect
<1>9. CASE ExpireLoop
  <2>1. \E S \in SUBSET Names : RemoveTokens(S)
    BY <1>9 DEF ExpireLoop
  <2>2. QED BY <1>5, <1>9, <2>1 DEF ExpireLoop, LedgerEffect
<1>10. CASE Stop
  BY <1>5, <1>10 DEF Stop, LedgerEffect
<1>11. ASSUME NEW q \in Requests, SaveFails(q)
       PROVE  LedgerEffect
  <2>1. PICK outage \in BOOLEAN : FailSave(q, outage)
    BY <1>11 DEF SaveFails
  <2>2. /\ RemoveTokens(Names) /\ caseRevoked' = TRUE
        /\ revokedRuns' = revokedRuns /\ UNCHANGED callVars
    BY <2>1 DEF FailSave, RevokeCaseTokens
  <2>3. QED BY <1>5, <2>2 DEF LedgerEffect
<1>12. ASSUME NEW q \in Requests, RequestNext(q), ~SaveFails(q)
       PROVE  UNCHANGED ledgerVars /\ UNCHANGED Flags /\ UNCHANGED callVars
  BY <1>12 DEF RequestNext, Admit, CancelRequest, EnterRefresh, ReadBody, RefuseBody,
               IssuerGrants, IssuerFails, SaveCommits, Publish, Inject, Finish, AbortStream,
               EndRequest
<1>13. ASSUME \/ \E c \in Calls : Expire(c)
              \/ Shutdown \/ HostDisconnects \/ HostReconnects \/ UNCHANGED vars
       PROVE  UNCHANGED ledgerVars /\ UNCHANGED Flags /\ UNCHANGED callVars
  BY <1>13 DEF Expire, Shutdown, HostDisconnects, HostReconnects, vars
<1>14. ASSUME UNCHANGED ledgerVars /\ UNCHANGED Flags /\ UNCHANGED callVars
       PROVE  LedgerEffect
  BY <1>5, <1>14 DEF LedgerEffect
<1>15. CASE Restart
  BY <1>15 DEF LedgerEffect
<1>16. QED
  BY <1>1, <1>2, <1>3, <1>4, <1>6, <1>7, <1>8, <1>9, <1>10, <1>11, <1>12,
     <1>13, <1>14, <1>15 DEF Next, CallNext
-----------------------------------------------------------------------------
(* The inductive steps.                                                     *)

LEMMA LedgerNext ==
  ASSUME LedgerInv, CallInv, LedgerEffect
  PROVE  OnlyInstalled' /\ IndexesAgree'
<1>1. CASE UNCHANGED ledgerVars /\ SameRecords
  BY <1>1, KeepLedger
<1>2. ASSUME NEW S \in SUBSET Names, RemoveTokens(S), SameRecords
      PROVE  OnlyInstalled' /\ IndexesAgree'
  BY <1>2, RemoveLedger
<1>3. ASSUME NEW c \in Calls, pc[c] = "install", Admissible(c), ReplaceToken(c),
             UNCHANGED arg, pc' = [pc EXCEPT ![c] = "installed"]
      PROVE  OnlyInstalled' /\ IndexesAgree'
  BY <1>3, ReplaceLedger
<1>4. CASE Restart
  BY <1>4, RestartLedger
<1>5. QED
  BY <1>1, <1>2, <1>3, <1>4 DEF LedgerEffect

LEMMA SticksNext ==
  ASSUME LedgerInv, CallInv, RevocationSticks, LedgerEffect
  PROVE  RevocationSticks'
<1> USE NoneAssumption DEF LedgerInv, LedgerTypeOK
<1>1. CASE UNCHANGED ledgerVars /\ UNCHANGED Flags /\ SameRecords
  BY <1>1 DEF RevocationSticks, OnlyInstalled, SameRecords, ledgerVars, Flags
<1>2. ASSUME NEW S \in SUBSET Names, RemoveTokens(S), SameRecords,
             caseRevoked' = caseRevoked \/ S = Names,
             revokedRuns' = revokedRuns \/ \E r \in Runs :
               /\ revokedRuns' = revokedRuns \cup {r}
               /\ \A n \in Names : tokens[n] # None /\ arg[tokens[n]].run = r => n \in S
      PROVE  RevocationSticks'
  <2>1. \A n \in Names : tokens'[n] = IF n \in S THEN None ELSE tokens[n]
    BY <1>2 DEF RemoveTokens
  <2>2. \A n \in Names : tokens[n] # None =>
          tokens[n] \in Calls /\ arg'[tokens[n]].run = arg[tokens[n]].run
    BY <1>2 DEF OnlyInstalled, SameRecords
  <2>3. caseRevoked' => \A n \in Names : tokens'[n] = None
    BY <1>2, <2>1 DEF RevocationSticks
  <2>4. \A n \in Names : tokens'[n] # None => arg'[tokens'[n]].run \notin revokedRuns'
    BY <1>2, <2>1, <2>2 DEF RevocationSticks
  <2>5. QED BY <2>3, <2>4 DEF RevocationSticks
<1>3. ASSUME NEW c \in Calls, pc[c] = "install", Admissible(c), ReplaceToken(c),
             UNCHANGED <<arg, Flags>>
      PROVE  RevocationSticks'
  <2>1. arg[c].name \in Names
    BY <1>3 DEF CallInv, CallShape
  <2>2. \A n \in Names : tokens'[n] = IF n = arg[c].name THEN c ELSE tokens[n]
    BY <1>3, <2>1 DEF ReplaceToken
  <2>3. ~caseRevoked /\ arg[c].run \notin revokedRuns
    BY <1>3 DEF Admissible
  <2>4. QED BY <1>3, <2>2, <2>3 DEF RevocationSticks, Flags
<1>4. CASE Restart
  BY <1>4 DEF Restart, RevocationSticks
<1>5. QED
  BY <1>1, <1>2, <1>3, <1>4 DEF LedgerEffect

LEMMA CaseNext ==
  ASSUME TypeOK, [Next]_vars
  PROVE  CaseTypeOK'
<1> USE DEF TypeOK, MemoryTypeOK, RequestTypeOK
<1>1. ASSUME NEW q \in Requests, RequestNext(q)
      PROVE  CaseTypeOK'
  <2>1. \/ UNCHANGED caseVars
        \/ SaveRefresh(storeVersion, caseConn, Provider(req[q].kind), NextCreds(q))
        \/ Rotate(Provider(req[q].kind), creds[Provider(req[q].kind)])
    BY <1>1 DEF RequestNext, Admit, CancelRequest, EnterRefresh, ReadBody, RefuseBody,
                IssuerGrants, IssuerFails, SaveCommits, SaveFails, FailSave, Publish, Inject,
                Finish, AbortStream, EndRequest
  <2>2. QED BY <2>1, CaseTypeNext
<1>2. ASSUME NEW c \in Calls, CallNext(c)
      PROVE  UNCHANGED caseVars
  BY <1>2 DEF CallNext, BeginIssue, BeginRestore, Begin, LoadCase, CompareCase,
              Install, Expire
<1>3. ASSUME \/ \E n \in Names : RevokeToken(n)
             \/ \E r \in Runs : RevokeRun(r)
             \/ RevokeCase \/ ExpireLoop \/ Stop \/ Shutdown \/ Restart
             \/ UNCHANGED vars
      PROVE  UNCHANGED caseVars
  BY <1>3 DEF RevokeToken, RevokeRun, RevokeCase, ExpireLoop, Stop, Shutdown,
              Restart, vars
<1>4. CASE UNCHANGED caseVars
  BY <1>4 DEF caseVars, CaseTypeOK
<1>5. CASE HostDisconnects
  BY <1>5 DEF HostDisconnects, Disconnect, CaseTypeOK, Cases
<1>6. CASE HostReconnects
  BY <1>6, BoundsAssumption DEF HostReconnects, Create, CaseTypeOK, Cases, Generations
<1>7. QED
  BY <1>1, <1>2, <1>3, <1>4, <1>5, <1>6 DEF Next

LEMMA TypeNext ==
  ASSUME TypeOK, CallInv, [Next]_vars
  PROVE  TypeOK'
<1>1. CaseTypeOK'
  BY CaseNext
<1>2. CallTypeOK'
  BY CallSteps DEF CallInv
<1>3. LedgerTypeOK'
  <2> USE DEF TypeOK, LedgerTypeOK
  <2>1. expired' \subseteq Calls
    <3>1. ASSUME NEW q \in Requests, RequestNext(q)
          PROVE  expired' = expired
      BY <3>1 DEF RequestNext, Admit, CancelRequest, EnterRefresh, ReadBody, RefuseBody,
                  IssuerGrants, IssuerFails, SaveCommits, SaveFails, FailSave,
                  Publish, Inject, Finish, AbortStream, EndRequest
    <3>2. ASSUME NEW c \in Calls, CallNext(c)
          PROVE  expired' \subseteq expired \cup {c}
      BY <3>2 DEF CallNext, BeginIssue, BeginRestore, Begin, LoadCase,
                  CompareCase, Install, Expire
    <3>3. ASSUME \/ \E n \in Names : RevokeToken(n)
                 \/ \E r \in Runs : RevokeRun(r)
                 \/ RevokeCase \/ ExpireLoop \/ Stop \/ Shutdown \/ Restart
                 \/ HostDisconnects \/ HostReconnects \/ UNCHANGED vars
          PROVE  expired' = expired
      BY <3>3 DEF RevokeToken, RevokeRun, RevokeCase, ExpireLoop, Stop, Shutdown,
                  Restart, HostDisconnects, HostReconnects, vars
    <3>4. QED BY <3>1, <3>2, <3>3 DEF Next
  <2>2. LedgerEffect
    BY LedgerSteps
  <2>3. CASE UNCHANGED ledgerVars
    BY <2>1, <2>3 DEF ledgerVars
  <2>4. ASSUME NEW S \in SUBSET Names, RemoveTokens(S)
        PROVE  LedgerTypeOK'
    BY <2>1, <2>4, RemoveTokensType
  <2>5. ASSUME NEW c \in Calls, pc[c] = "install", ReplaceToken(c)
        PROVE  LedgerTypeOK'
    <3>1. arg[c].name \in Names
      BY <2>5 DEF CallInv, CallShape
    <3>2. QED BY <2>1, <2>5, <3>1, ReplaceTokenType
  <2>6. CASE Restart
    BY <2>1, <2>6 DEF Restart
  <2>7. QED
    BY <2>2, <2>3, <2>4, <2>5, <2>6 DEF LedgerEffect
<1>4. RequestTypeOK' /\ MemoryTypeOK'
  <2>1. ASSUME NEW q \in Requests, RequestNext(q)
        PROVE  RequestTypeOK' /\ MemoryTypeOK'
    BY <2>1, RequestTypes DEF TypeOK, RequestNext
  <2>2. ASSUME NEW c \in Calls, CallNext(c)
        PROVE  RequestTypeOK' /\ MemoryTypeOK'
    <3>1. UNCHANGED <<req, genVars, phase, revokedRuns, adminRevoked, saveFailed, lost>>
      BY <2>2 DEF CallNext, BeginIssue, BeginRestore, Begin, LoadCase,
                  CompareCase, Install, Expire, flagVars
    <3>2. caseRevoked' = caseRevoked \/ caseRevoked' = TRUE
      BY <2>2 DEF CallNext, BeginIssue, BeginRestore, Begin, LoadCase,
                  CompareCase, Install, Expire, RevokeCaseTokens, flagVars
    <3>3. refreshMu' \in {refreshMu, c, None}
      BY <2>2 DEF CallNext, BeginIssue, BeginRestore, Begin, LoadCase,
                  CompareCase, Install, Expire
    <3>4. RequestTypeOK'
      BY <3>1 DEF TypeOK, RequestTypeOK
    <3>5. MemoryTypeOK'
      BY <3>1, <3>2, <3>3 DEF genVars, TypeOK, MemoryTypeOK
    <3>6. QED BY <3>4, <3>5
  <2>3. ASSUME \/ \E n \in Names : RevokeToken(n)
               \/ \E r \in Runs : RevokeRun(r)
               \/ RevokeCase \/ ExpireLoop \/ Stop \/ Shutdown
               \/ HostDisconnects \/ HostReconnects \/ UNCHANGED vars
        PROVE  RequestTypeOK' /\ MemoryTypeOK'
    BY <2>3 DEF RevokeToken, RevokeRun, RevokeCase, ExpireLoop, Stop, Shutdown,
                HostDisconnects, HostReconnects, RevokeCaseTokens, flagVars,
                genVars, vars, TypeOK, RequestTypeOK, MemoryTypeOK
  <2>4. ASSUME Restart
        PROVE  RequestTypeOK' /\ MemoryTypeOK'
    <3>1. NoReq \in Reqs
      BY DEF NoReq, Reqs
    <3>2. store.version \in Nat /\ store.conn \in Nat /\ store.refresh \in Generations
      BY DEF TypeOK, CaseTypeOK, Cases
    <3>3. \A q \in UnsavedRotations : Provider(req[q].kind) \in Providers
      BY DEF Provider, Providers
    <3>4. QED
      BY <2>4, <3>1, <3>2, <3>3
         DEF Restart, TypeOK, RequestTypeOK, MemoryTypeOK
  <2>5. QED
    BY <2>1, <2>2, <2>3, <2>4 DEF Next
<1>5. QED BY <1>1, <1>2, <1>3, <1>4 DEF TypeOK

LEMMA InitInv == Init => Inv
<1> SUFFICES ASSUME Init PROVE Inv
  OBVIOUS
<1> USE NoneAssumption DEF Init
<1>1. CaseTypeOK
  BY CaseTypeInit
<1>2. LedgerTypeOK
  BY DEF LedgerTypeOK
<1>3. CallTypeOK
  BY DEF CallTypeOK, NoArg, Args
<1>4. RequestTypeOK
  BY DEF RequestTypeOK, NoReq, Reqs
<1>5. MemoryTypeOK
  BY <1>1 DEF MemoryTypeOK, CaseTypeOK, Cases
<1>6. CallShape /\ FreshValues
  BY DEF CallShape, FreshValues, NoArg
<1>7. OnlyInstalled /\ IndexesAgree
  BY DEF OnlyInstalled, IndexesAgree
<1>8. RevocationSticks
  BY DEF RevocationSticks
<1>9. QED
  BY <1>1, <1>2, <1>3, <1>4, <1>5, <1>6, <1>7, <1>8
     DEF Inv, TypeOK, CallInv, LedgerInv

LEMMA NextInv == Inv /\ [Next]_vars => Inv'
<1> SUFFICES ASSUME Inv, [Next]_vars PROVE Inv'
  OBVIOUS
<1>1. TypeOK /\ CallInv /\ LedgerInv /\ RevocationSticks
  BY DEF Inv
<1>2. LedgerEffect
  BY <1>1, LedgerSteps
<1>3. TypeOK'
  BY <1>1, TypeNext
<1>4. CallInv'
  BY <1>1, CallSteps
<1>5. OnlyInstalled' /\ IndexesAgree'
  BY <1>1, <1>2, LedgerNext
<1>6. RevocationSticks'
  BY <1>1, <1>2, SticksNext
<1>7. QED
  BY <1>3, <1>4, <1>5, <1>6 DEF Inv, LedgerInv, TypeOK

\* The inductive invariant holds in every state of the auth proxy.
THEOREM Invariance == Spec => []Inv
  BY InitInv, NextInv, PTL DEF Spec

\* Every variable keeps its type, for any number of calls, requests and
\* versions.
THEOREM TypeCorrect == Spec => []TypeOK
<1>1. Inv => TypeOK
  BY DEF Inv
<1>2. QED BY <1>1, Invariance, PTL

\* The two indexes of the token ledger never disagree, whatever issues,
\* restores, revocations, expiries, stops and restarts interleave.
THEOREM LedgerConsistent == Spec => []IndexesAgree
<1>1. Inv => IndexesAgree
  BY DEF Inv, LedgerInv
<1>2. QED BY <1>1, Invariance, PTL

\* A revoked run and a revoked case own no token, even when an issue or a
\* restore passed its checks before the revocation.
THEOREM RevocationHolds == Spec => []RevocationSticks
<1>1. Inv => RevocationSticks
  BY DEF Inv
<1>2. QED BY <1>1, Invariance, PTL

-----------------------------------------------------------------------------
(* Refreshes, replaced logins and what a call may conclude from the case.   *)

\* Who works under refreshMu, and what it refreshes.
Holding(q) == req[q].pc \in {"body", "issuer", "save", "saved"}
Saving(q) == req[q].pc \in {"save", "saved"}
Refreshes(q) == Provider(req[q].kind)

\* refreshMu spans the generation check of a call and a refresh from the
\* worker's body or the issuer's request to the publication.
MutexInv ==
  /\ \A c \in Calls : pc[c] = "compare" <=> refreshMu = c
  /\ \A q \in Requests : Holding(q) <=> refreshMu = q

\* Versions and refresh tokens are never from the future.
VersionInv ==
  /\ store.version <= lastVersion /\ store.conn <= lastVersion
  /\ storeVersion <= lastVersion /\ caseConn <= lastVersion
  /\ \A q \in Requests : req[q].pc = "saved" =>
       storeVersion < req[q].version /\ req[q].version <= lastVersion
TokenInv ==
  /\ \A p \in Providers : store.refresh[p] <= lastToken[p] /\ creds[p] <= lastToken[p]
  /\ \A q \in Requests : Saving(q) =>
       LET p == Refreshes(q)
       IN creds[p] <= req[q].next /\ req[q].next <= lastToken[p] /\ req[q].next \in valid[p]

\* What the proxy has in memory, against the record of its own login.
SyncInv ==
  /\ storeCreds = creds
  /\ CaseCurrent =>
       /\ \A q \in Requests : req[q].pc = "saved" =>
            store.version = req[q].version /\ store.refresh = NextCreds(q)
       /\ (\A q \in Requests : req[q].pc # "saved") =>
            \/ store.version = storeVersion /\ store.refresh = creds
            \/ store.version # storeVersion /\ caseRevoked /\ saveFailed

\* A newer login shares no refresh token with what the proxy knows.
LoginInv ==
  store.present /\ ~CaseCurrent =>
    /\ \A p \in Providers : store.refresh[p] # creds[p]
    /\ \A q \in Requests : Saving(q) => store.refresh[Refreshes(q)] # req[q].next

\* What revokes the case.
Cause == adminRevoked \/ saveFailed \/ ~CaseCurrent

\* What a call has seen of the case is still so when it acts on it.
SeenAt(c) ==
  /\ pc[c] = "check" /\ arg[c].late => ~CaseCurrent
  /\ pc[c] = "compare" /\ arg[c].seen = "match" => ~arg[c].late
  /\ pc[c] = "compare" /\ arg[c].seen \in {"gone", "changed"} => Cause
  /\ pc[c] \in {"install", "installed"} => arg[c].seen = "match" /\ ~arg[c].late
SeenInv == \A c \in Calls : SeenAt(c)

\* The refresh token in memory works, is being replaced, or is known not to.
UsableInv ==
  CaseCurrent /\ ~saveFailed =>
    \A p \in Providers : \/ creds[p] \in valid[p] \/ p \in lost
                         \/ \E q \in Requests : Saving(q) /\ Refreshes(q) = p

\* So does the one in the store.
DurableInv ==
  store.present =>
    \A p \in Providers : \/ store.refresh[p] \in valid[p] \/ p \in lost
                         \/ \E q \in UnsavedRotations : Refreshes(q) = p

RefreshInv ==
  /\ MutexInv /\ VersionInv /\ TokenInv /\ SyncInv /\ LoginInv /\ SeenInv
  /\ NoSelfRevocation /\ UsableInv /\ DurableInv

-----------------------------------------------------------------------------
\* The types that the proofs need.
LEMMA RefreshTypes ==
  ASSUME TypeOK
  PROVE  /\ store \in Cases /\ store.refresh \in Generations /\ creds \in Generations
         /\ storeCreds \in Generations
         /\ lastVersion \in Nat /\ storeVersion \in Nat /\ caseConn \in Nat
         /\ store.version \in Nat /\ store.conn \in Nat /\ store.present \in BOOLEAN
         /\ valid \in [Providers -> SUBSET Nat] /\ lastToken \in [Providers -> Nat]
         /\ lost \subseteq Providers
         /\ req \in [Requests -> Reqs] /\ arg \in [Calls -> Args]
         /\ pc \in [Calls -> {"idle", "check", "compare", "install", "installed", "refused"}]
         /\ \A q \in Requests : /\ Refreshes(q) \in Providers /\ req[q].next \in Nat
                                /\ req[q].version \in Nat
                                /\ NextCreds(q) \in Generations
  BY DEF TypeOK, CaseTypeOK, MemoryTypeOK, RequestTypeOK, CallTypeOK, Cases, Refreshes,
     Provider, Providers, Reqs, NextCreds, Generations

\* What the invariant reads of the requests stays as it is.
SameRefresh ==
  /\ req' \in [Requests -> Reqs]
  /\ \A q \in Requests :
       /\ (Holding(q)' <=> Holding(q)) /\ (Saving(q)' <=> Saving(q))
       /\ Saving(q) => /\ req'[q].pc = req[q].pc /\ req'[q].kind = req[q].kind
                        /\ req'[q].next = req[q].next /\ req'[q].version = req[q].version

\* So do the case and what the proxy knows of it.
SameCase ==
  UNCHANGED <<genVars, caseVars, refreshMu, caseRevoked, adminRevoked, saveFailed, lost>>

\* What the rest does: the calls act on what they have seen.
Quiet ==
  /\ SameCase /\ SameRefresh
  /\ \A c \in Calls : (pc'[c] = "compare" <=> pc[c] = "compare") /\ (SeenAt(c) => SeenAt(c)')

\* EnterRefresh, where it goes on to the worker's body or to the issuer.
TakesMu(q) ==
  /\ req[q].pc = "queued" /\ refreshMu = None
  /\ refreshMu' = q
  /\ req' = [req EXCEPT ![q].pc = IF req[q].kind = "refresh" THEN "body" ELSE "issuer"]
  /\ UNCHANGED <<ledgerVars, expired, flagVars, callVars, genVars, phase, caseVars>>

\* A call loads the case under refreshMu.
LEMMA LoadCaseInv ==
  ASSUME RefreshInv, NEW c \in Calls, TypeOK, LoadCase(c)
  PROVE  RefreshInv'
<1>1. /\ pc[c] = "check" /\ pc' = [pc EXCEPT ![c] = "compare"]
      /\ refreshMu = None /\ refreshMu' = c
      /\ UNCHANGED <<store, lastVersion, valid, lastToken, storeVersion, storeCreds, creds,
                     caseConn, caseRevoked, adminRevoked, saveFailed, lost, req>>
  BY DEF LoadCase, genVars, caseVars, flagVars, callVars, ledgerVars, RefreshMuFree
<1>2. PICK s \in {"match", "changed", "gone", "error"} :
        /\ arg' = [arg EXCEPT ![c].seen = s]
        /\ s = "match" => CaseCurrent
        /\ s \in {"gone", "changed"} => Cause
  <2>1. PICK s \in {Observed, "error"} : arg' = [arg EXCEPT ![c].seen = s]
    BY DEF LoadCase
  <2>2. \A r \in Requests : req[r].pc # "saved"
    BY <1>1, NoneAssumption DEF RefreshInv, MutexInv, Holding
  <2>3. s = "match" => CaseCurrent
    BY <2>1 DEF Observed, CaseCurrent
  <2>4. s \in {"gone", "changed"} => Cause
    BY <2>1, <2>2 DEF Observed, RefreshInv, SyncInv, Cause, CaseCurrent
  <2>5. s \in {"match", "changed", "gone", "error"}
    BY <2>1 DEF Observed
  <2>6. QED BY <2>1, <2>3, <2>4, <2>5
<1>3. MutexInv'
  BY <1>1, <1>2, RefreshTypes, NoneAssumption DEF RefreshInv, MutexInv, Holding
<1>4. SeenInv'
  BY <1>1, <1>2, RefreshTypes, NoneAssumption DEF RefreshInv, SeenInv, SeenAt, CaseCurrent,
     Cause
<1>5. VersionInv' /\ TokenInv' /\ SyncInv' /\ LoginInv' /\ NoSelfRevocation' /\ UsableInv' /\
      DurableInv'
  BY <1>1, <1>2 DEF RefreshInv, VersionInv, TokenInv, SyncInv, LoginInv, NoSelfRevocation,
                    UsableInv, DurableInv, Saving, Refreshes, CaseCurrent, NextCreds,
                    UnsavedRotations
<1>6. QED BY <1>3, <1>4, <1>5 DEF RefreshInv

\* A call acts on what it has seen.
LEMMA CompareCaseInv ==
  ASSUME RefreshInv, NEW c \in Calls, TypeOK, CompareCase(c)
  PROVE  RefreshInv'
<1>1. /\ pc[c] = "compare" /\ refreshMu' = None
      /\ UNCHANGED <<store, lastVersion, valid, lastToken, storeVersion, storeCreds, creds,
                     caseConn, adminRevoked, saveFailed, lost, arg, req>>
  BY DEF CompareCase, genVars, caseVars, flagVars, callVars, ledgerVars, RevokeCaseTokens
<1>2. \/ /\ arg[c].seen \in {"gone", "changed"} /\ caseRevoked' = TRUE
         /\ pc' = [pc EXCEPT ![c] = "refused"]
      \/ /\ arg[c].seen = "match" /\ caseRevoked' = caseRevoked
         /\ pc' = [pc EXCEPT ![c] = "install"]
      \/ /\ pc' = [pc EXCEPT ![c] = "refused"] /\ caseRevoked' = caseRevoked
  BY DEF CompareCase, RevokeCaseTokens
<1>3. MutexInv'
  BY <1>1, <1>2, RefreshTypes, NoneAssumption DEF RefreshInv, MutexInv, Holding
<1>4. SyncInv'
  BY <1>1, <1>2, RefreshTypes, NoneAssumption DEF RefreshInv, SyncInv, CaseCurrent, NextCreds
<1>5. SeenInv'
  BY <1>1, <1>2, RefreshTypes, NoneAssumption DEF RefreshInv, SeenInv, SeenAt, CaseCurrent,
     Cause
<1>6. NoSelfRevocation'
  BY <1>1, <1>2, RefreshTypes, NoneAssumption DEF RefreshInv, NoSelfRevocation, CaseCurrent,
     Generations, SeenInv, SeenAt, SyncInv, Cause, NextCreds
<1>7. VersionInv' /\ TokenInv' /\ LoginInv' /\ UsableInv' /\ DurableInv'
  BY <1>1, <1>2 DEF RefreshInv, VersionInv, TokenInv, LoginInv, UsableInv, DurableInv, Saving,
                    Refreshes, CaseCurrent, UnsavedRotations
<1>8. QED BY <1>3, <1>4, <1>5, <1>6, <1>7 DEF RefreshInv

\* A refresh takes refreshMu and reads the body or asks the issuer.
LEMMA TakesMuInv ==
  ASSUME RefreshInv, NEW q \in Requests, TypeOK, TakesMu(q)
  PROVE  RefreshInv'
<1>1. req' \in [Requests -> Reqs] /\ req'[q].pc \in {"body", "issuer"}
      /\ \A r \in Requests \ {q} : req'[r] = req[r] /\ ~Holding(r)
  <2> DEFINE x == IF req[q].kind = "refresh" THEN "body" ELSE "issuer"
  <2>0. x \in {"body", "issuer"} /\ req' = [req EXCEPT ![q].pc = x]
    BY DEF TakesMu
  <2> HIDE DEF x
  <2>1. [req[q] EXCEPT !.pc = x] \in Reqs /\ [req[q] EXCEPT !.pc = x].pc = x
    BY <2>0, RefreshTypes DEF Reqs
  <2>2. req' = [req EXCEPT ![q] = [req[q] EXCEPT !.pc = x]]
    BY <2>0
  <2>3. \A r \in Requests : ~Holding(r)
    BY NoneAssumption DEF RefreshInv, MutexInv, TakesMu
  <2>4. QED BY <2>0, <2>1, <2>2, <2>3, RefreshTypes
<1>2. refreshMu = None /\ refreshMu' = q /\ ~Holding(q)
      /\ UNCHANGED <<store, lastVersion, valid, lastToken, storeVersion, storeCreds, creds,
                     caseConn, caseRevoked, adminRevoked, saveFailed, lost, pc, arg>>
  BY DEF TakesMu, Holding, genVars, caseVars, flagVars, callVars, ledgerVars
<1>3. MutexInv'
  BY <1>1, <1>2, RefreshTypes, NoneAssumption DEF RefreshInv, MutexInv, Holding
<1>4. VersionInv'
  BY <1>1, <1>2, RefreshTypes, NoneAssumption DEF RefreshInv, VersionInv
<1>5. TokenInv'
  BY <1>1, <1>2, RefreshTypes, NoneAssumption DEF RefreshInv, TokenInv, Saving, Refreshes
<1>6. SyncInv'
  BY <1>1, <1>2, RefreshTypes, NoneAssumption DEF RefreshInv, SyncInv, CaseCurrent, Generations,
     MutexInv, VersionInv, NextCreds, Holding
<1>7. LoginInv'
  BY <1>1, <1>2, RefreshTypes, NoneAssumption DEF RefreshInv, LoginInv, CaseCurrent, Saving,
     Refreshes
<1>8. UsableInv'
  BY <1>1, <1>2, RefreshTypes, NoneAssumption DEF RefreshInv, UsableInv, CaseCurrent,
     Generations, TokenInv, MutexInv, Saving, Refreshes, Holding
<1>9. DurableInv'
  BY <1>1, <1>2, RefreshTypes, NoneAssumption DEF RefreshInv, DurableInv, SyncInv, MutexInv,
     CaseCurrent, TokenInv, VersionInv, LoginInv, Generations, UnsavedRotations, Refreshes,
     NextCreds, Holding, Saving
<1>10. SeenInv' /\ NoSelfRevocation'
  BY <1>1, <1>2 DEF RefreshInv, SeenInv, NoSelfRevocation, SeenAt, CaseCurrent, Cause
<1>11. QED BY <1>3, <1>4, <1>5, <1>6, <1>7, <1>8, <1>9, <1>10 DEF RefreshInv

\* The issuer answers, with a new refresh token or without.
LEMMA IssuerGrantsInv ==
  ASSUME RefreshInv, NEW q \in Requests, TypeOK, IssuerGrants(q)
  PROVE  RefreshInv'
<1>1. req[q].pc = "issuer" /\ \A r \in Requests \ {q} : ~Holding(r)
  BY NoneAssumption DEF IssuerGrants, RefreshInv, MutexInv, Holding
<1>2. PICK n \in Nat :
        /\ req' = [req EXCEPT ![q].pc = "save", ![q].next = n]
        /\ creds[Refreshes(q)] \in valid[Refreshes(q)]
        /\ \/ /\ n = lastToken[Refreshes(q)] + 1
              /\ lastToken' = [lastToken EXCEPT ![Refreshes(q)] = n]
              /\ valid' = [valid EXCEPT ![Refreshes(q)] =
                             (valid[Refreshes(q)] \ {creds[Refreshes(q)]}) \cup {n}]
           \/ n = creds[Refreshes(q)] /\ UNCHANGED <<valid, lastToken>>
  <2> DEFINE p == Refreshes(q)
  <2>1. p \in Providers /\ lastToken[p] \in Nat /\ creds[p] \in Nat
    BY RefreshTypes DEF Generations
  <2>2. CASE /\ req' = [req EXCEPT ![q].pc = "save", ![q].next = lastToken[p] + 1]
             /\ Rotate(p, creds[p])
    <3>1. creds[p] \in valid[p] /\ lastToken' = [lastToken EXCEPT ![p] = lastToken[p] + 1]
          /\ valid' = [valid EXCEPT ![p] = (valid[p] \ {creds[p]}) \cup {lastToken[p] + 1}]
      BY <2>1, <2>2, RefreshTypes DEF Rotate
    <3> DEFINE n == lastToken[p] + 1
    <3>2. n \in Nat
      BY <2>1
    <3>3. n = lastToken[p] + 1
      OBVIOUS
    <3> HIDE DEF n
    <3>4. QED BY <2>2, <3>1, <3>2, <3>3
  <2>3. CASE /\ req' = [req EXCEPT ![q].pc = "save", ![q].next = creds[p]]
             /\ creds[p] \in valid[p] /\ UNCHANGED caseVars
    BY <2>1, <2>3 DEF caseVars
  <2>4. QED BY <2>2, <2>3 DEF IssuerGrants, Refreshes
<1>3. /\ req' \in [Requests -> Reqs] /\ req'[q].pc = "save" /\ req'[q].next = n
      /\ req'[q].kind = req[q].kind /\ req'[q].version = req[q].version
      /\ \A r \in Requests \ {q} : req'[r] = req[r]
  <2>1. [req[q] EXCEPT !.pc = "save", !.next = n] \in Reqs
    BY RefreshTypes DEF Reqs
  <2>2. req' = [req EXCEPT ![q] = [req[q] EXCEPT !.pc = "save", !.next = n]]
    BY <1>2, RefreshTypes DEF Reqs
  <2>3. QED BY <2>1, <2>2, RefreshTypes DEF Reqs
<1>4. UNCHANGED <<store, lastVersion, storeVersion, storeCreds, creds, caseConn, refreshMu,
                  caseRevoked, adminRevoked, saveFailed, lost, pc, arg>>
  BY DEF IssuerGrants, genVars, caseVars, flagVars, callVars, ledgerVars, Rotate
<1>5. MutexInv'
  BY <1>1, <1>2, <1>3, <1>4, RefreshTypes, NoneAssumption DEF RefreshInv, MutexInv, Rotate,
     Holding
<1>6. VersionInv'
  BY <1>1, <1>2, <1>3, <1>4, RefreshTypes, NoneAssumption DEF RefreshInv, VersionInv, Rotate
<1>7. TokenInv'
  BY <1>1, <1>2, <1>3, <1>4, RefreshTypes, NoneAssumption DEF RefreshInv, TokenInv, SyncInv,
     MutexInv, CaseCurrent, VersionInv, LoginInv, Generations, Rotate, Saving, Refreshes,
     NextCreds, Holding
<1>8. SyncInv'
  BY <1>1, <1>2, <1>3, <1>4, RefreshTypes, NoneAssumption DEF RefreshInv, SyncInv, Rotate,
     CaseCurrent, NextCreds
<1>9. LoginInv'
  BY <1>1, <1>2, <1>3, <1>4, RefreshTypes, NoneAssumption DEF RefreshInv, LoginInv, CaseCurrent,
     Generations, TokenInv, VersionInv, Rotate, Saving, Refreshes
<1>10. UsableInv'
  BY <1>1, <1>2, <1>3, <1>4, RefreshTypes, NoneAssumption DEF RefreshInv, UsableInv, Rotate,
     CaseCurrent, Saving, Refreshes
<1>11. DurableInv'
  BY <1>1, <1>2, <1>3, <1>4, RefreshTypes, NoneAssumption DEF RefreshInv, DurableInv, SyncInv,
     MutexInv, CaseCurrent, TokenInv, VersionInv, LoginInv, Generations, Rotate,
     UnsavedRotations, Refreshes, NextCreds, Holding, Saving
<1>12. SeenInv' /\ NoSelfRevocation'
  BY <1>1, <1>2, <1>3, <1>4 DEF RefreshInv, SeenInv, NoSelfRevocation, SeenAt, CaseCurrent,
     Cause
<1>13. QED BY <1>5, <1>6, <1>7, <1>8, <1>9, <1>10, <1>11, <1>12 DEF RefreshInv

\* The issuer refuses, or its answer is lost, or the worker's body is refused.
LEMMA IssuerFailsInv ==
  ASSUME RefreshInv, NEW q \in Requests, TypeOK, IssuerFails(q) \/ RefuseBody(q)
  PROVE  RefreshInv'
<1>1. req[q].pc \in {"body", "issuer"} /\ \A r \in Requests \ {q} : ~Holding(r)
  BY NoneAssumption DEF IssuerFails, RefuseBody, RefreshInv, MutexInv, Holding
<1>2. /\ req' \in [Requests -> Reqs] /\ req'[q].pc = "idle"
      /\ \A r \in Requests \ {q} : req'[r] = req[r]
  <2>1. NoReq \in Reqs /\ NoReq.pc = "idle"
    BY DEF NoReq, Reqs
  <2>2. QED BY <2>1, RefreshTypes DEF IssuerFails, RefuseBody, Abandon
<1>3. \/ UNCHANGED <<valid, lastToken, lost>>
      \/ /\ lastToken' = [lastToken EXCEPT ![Refreshes(q)] = @ + 1]
         /\ valid' = [valid EXCEPT ![Refreshes(q)] =
                        (@ \ {creds[Refreshes(q)]}) \cup {lastToken[Refreshes(q)] + 1}]
         /\ lost' = IF CaseCurrent THEN lost \cup {Refreshes(q)} ELSE lost
  BY DEF IssuerFails, RefuseBody, Rotate, Refreshes, caseVars, flagVars
<1>4. refreshMu' = None /\ UNCHANGED <<store, lastVersion, storeVersion, storeCreds, creds,
                                       caseConn, caseRevoked, adminRevoked, saveFailed, pc,
                                       arg>>
  BY DEF IssuerFails, RefuseBody, genVars, caseVars, flagVars, callVars, ledgerVars,
         Abandon, Rotate
<1>5. MutexInv'
  BY <1>1, <1>2, <1>3, <1>4, RefreshTypes, NoneAssumption DEF RefreshInv, MutexInv, Rotate,
     CaseCurrent, Holding
<1>6. VersionInv'
  BY <1>1, <1>2, <1>3, <1>4, RefreshTypes, NoneAssumption DEF RefreshInv, VersionInv, Rotate,
     CaseCurrent
<1>7. TokenInv'
  <2>1. \A p \in Providers : lastToken'[p] \in Nat /\ lastToken[p] <= lastToken'[p]
    BY <1>3, RefreshTypes
  <2>2. \A r \in Requests : ~Saving(r)'
    BY <1>1, <1>2 DEF Holding, Saving
  <2>3. \A p \in Providers : /\ store.refresh[p] <= lastToken[p] /\ creds[p] <= lastToken[p]
                             /\ store.refresh[p] \in Nat /\ creds[p] \in Nat
                             /\ lastToken[p] \in Nat
    BY RefreshTypes DEF RefreshInv, TokenInv, Generations
  <2>4. \A p \in Providers : store.refresh[p] <= lastToken'[p] /\ creds[p] <= lastToken'[p]
    BY <2>1, <2>3
  <2>5. QED BY <1>4, <2>2, <2>4 DEF TokenInv
<1>8. SyncInv'
  BY <1>1, <1>2, <1>3, <1>4, RefreshTypes, NoneAssumption DEF RefreshInv, SyncInv, Rotate,
     CaseCurrent, NextCreds
<1>9. LoginInv'
  BY <1>1, <1>2, <1>3, <1>4, RefreshTypes, NoneAssumption DEF RefreshInv, LoginInv, Rotate,
     CaseCurrent, Saving, Refreshes
<1>10. UsableInv'
  BY <1>1, <1>2, <1>3, <1>4, RefreshTypes, NoneAssumption DEF RefreshInv, UsableInv, Rotate,
     CaseCurrent, Saving, Refreshes
<1>11. DurableInv'
  BY <1>1, <1>2, <1>3, <1>4, RefreshTypes, NoneAssumption DEF RefreshInv, DurableInv, SyncInv,
     MutexInv, CaseCurrent, TokenInv, VersionInv, LoginInv, Generations, Rotate,
     UnsavedRotations, Refreshes, NextCreds, Holding, Saving
<1>12. SeenInv' /\ NoSelfRevocation'
  BY <1>1, <1>2, <1>3, <1>4 DEF RefreshInv, SeenInv, NoSelfRevocation, SeenAt, CaseCurrent,
     Cause
<1>13. QED BY <1>5, <1>6, <1>7, <1>8, <1>9, <1>10, <1>11, <1>12 DEF RefreshInv

\* The store commits a refresh.
LEMMA SaveCommitsInv ==
  ASSUME RefreshInv, NEW q \in Requests, TypeOK, SaveCommits(q)
  PROVE  RefreshInv'
<1>1. req[q].pc = "save" /\ \A r \in Requests \ {q} : ~Holding(r)
  BY NoneAssumption DEF SaveCommits, RefreshInv, MutexInv, Holding
<1>2. /\ req' \in [Requests -> Reqs] /\ req'[q].pc = "saved" /\ req'[q].next = req[q].next
      /\ req'[q].kind = req[q].kind /\ req'[q].version = lastVersion + 1
      /\ \A r \in Requests \ {q} : req'[r] = req[r]
  <2>0. lastVersion' = lastVersion + 1
    BY DEF SaveCommits, SaveRefresh
  <2>1. PICK v \in Nat : v = lastVersion + 1
    BY RefreshTypes
  <2>2. [req[q] EXCEPT !.pc = "saved", !.version = v] \in Reqs
    <3>1. req[q] \in Reqs
      BY RefreshTypes
    <3>2. [req[q] EXCEPT !.pc = "saved"] \in Reqs
      BY <3>1 DEF Reqs
    <3>3. QED BY <3>2 DEF Reqs
  <2>3. req' = [req EXCEPT ![q] = [req[q] EXCEPT !.pc = "saved", !.version = v]]
    BY <2>0, <2>1, RefreshTypes DEF SaveCommits, Reqs
  <2>4. QED BY <2>1, <2>2, <2>3, RefreshTypes DEF Reqs
<1>3. /\ CaseCurrent /\ store.version = storeVersion /\ lastVersion' = lastVersion + 1
      /\ store' = [present |-> TRUE, version |-> lastVersion + 1, conn |-> store.conn,
                    refresh |-> NextCreds(q)]
  BY DEF SaveCommits, SaveRefresh, RefreshAccepted, CaseCurrent
<1>4. UNCHANGED <<valid, lastToken, storeVersion, storeCreds, creds, caseConn, refreshMu,
                  caseRevoked, adminRevoked, saveFailed, lost, pc, arg>>
  BY DEF SaveCommits, genVars, caseVars, flagVars, callVars, ledgerVars, SaveRefresh
<1>5. store.refresh = creds /\ storeCreds = creds
  BY <1>1, <1>3 DEF RefreshInv, SyncInv, Holding
<1>6. /\ store'.refresh[Refreshes(q)] = req[q].next
      /\ \A p \in Providers \ {Refreshes(q)} : store'.refresh[p] = store.refresh[p]
  BY <1>3, <1>5, RefreshTypes DEF NextCreds, Refreshes, Generations
<1>7. MutexInv'
  BY <1>1, <1>2, <1>3, <1>4, <1>5, <1>6, RefreshTypes, NoneAssumption DEF RefreshInv, MutexInv,
     SaveRefresh, RefreshAccepted, NextCreds, Holding
<1>8. VersionInv'
  BY <1>1, <1>2, <1>3, <1>4, <1>5, <1>6, RefreshTypes, NoneAssumption DEF RefreshInv,
     VersionInv, CaseCurrent, Generations, SaveRefresh, RefreshAccepted, NextCreds
<1>9. TokenInv'
  BY <1>1, <1>2, <1>3, <1>4, <1>5, <1>6, RefreshTypes, NoneAssumption DEF RefreshInv, TokenInv,
     SaveRefresh, RefreshAccepted, NextCreds, Saving, Refreshes
<1>10. SyncInv'
  <2>1. storeCreds' = creds'
    BY <1>4, <1>5
  <2>2. NextCreds(q)' = NextCreds(q)
    BY <1>2, <1>4 DEF NextCreds
  <2>3. \A r \in Requests : req'[r].pc = "saved" => r = q
    BY <1>1, <1>2 DEF Holding
  <2>4. store'.version = req'[q].version /\ store'.refresh = NextCreds(q)'
    BY <1>2, <1>3, <2>2
  <2>5. QED BY <1>2, <2>1, <2>3, <2>4 DEF SyncInv
<1>11. LoginInv'
  BY <1>1, <1>2, <1>3, <1>4, <1>5, <1>6, RefreshTypes, NoneAssumption DEF RefreshInv, LoginInv,
     SaveRefresh, RefreshAccepted, NextCreds, CaseCurrent, Saving, Refreshes
<1>12. SeenInv'
  BY <1>1, <1>2, <1>3, <1>4, <1>5, <1>6, RefreshTypes, NoneAssumption DEF RefreshInv, SeenInv,
     SaveRefresh, RefreshAccepted, NextCreds, SeenAt, CaseCurrent, Cause
<1>13. NoSelfRevocation'
  BY <1>1, <1>2, <1>3, <1>4, <1>5, <1>6, RefreshTypes, NoneAssumption DEF RefreshInv,
     NoSelfRevocation, SaveRefresh, RefreshAccepted, NextCreds, CaseCurrent
<1>14. UsableInv'
  BY <1>1, <1>2, <1>3, <1>4, <1>5, <1>6, RefreshTypes, NoneAssumption DEF RefreshInv, UsableInv,
     SaveRefresh, RefreshAccepted, NextCreds, CaseCurrent, Saving, Refreshes
<1>15. DurableInv'
  BY <1>1, <1>2, <1>3, <1>4, <1>5, <1>6, RefreshTypes, NoneAssumption DEF RefreshInv,
     DurableInv, CaseCurrent, Generations, LoginInv, TokenInv, SaveRefresh, RefreshAccepted,
     NextCreds, UnsavedRotations, Refreshes, Saving
<1>16. QED BY <1>7, <1>8, <1>9, <1>10, <1>11, <1>12, <1>13, <1>14, <1>15 DEF RefreshInv

\* The store refuses a refresh, or nobody knows.
LEMMA SaveFailsInv ==
  ASSUME RefreshInv, NEW q \in Requests, TypeOK, SaveFails(q)
  PROVE  RefreshInv'
<1>1. PICK outage \in BOOLEAN :
        /\ FailSave(q, outage)
        /\ ~outage =>
             /\ req[q].pc = "save"
             /\ ~RefreshAccepted(storeVersion, caseConn, Provider(req[q].kind), NextCreds(q))
        /\ Saving(q)
  BY DEF SaveFails, Saving
<1>2. \A r \in Requests \ {q} : ~Holding(r)
  BY <1>1, NoneAssumption DEF RefreshInv, MutexInv, Holding, Saving
<1>3. /\ req' \in [Requests -> Reqs] /\ req'[q].pc = "idle"
      /\ \A r \in Requests \ {q} : req'[r] = req[r]
  <2>1. NoReq \in Reqs /\ NoReq.pc = "idle"
    BY DEF NoReq, Reqs
  <2>2. QED BY <1>1, <2>1, RefreshTypes DEF FailSave, Abandon
<1>4. /\ refreshMu' = None /\ caseRevoked' = TRUE /\ saveFailed' = (saveFailed \/ outage)
      /\ lost' = IF CaseCurrent /\ store.refresh[Refreshes(q)] # req[q].next
                 THEN lost \cup {Refreshes(q)} ELSE lost
      /\ UNCHANGED <<store, lastVersion, valid, lastToken, storeVersion, storeCreds, creds,
                     caseConn, adminRevoked, pc, arg>>
  BY <1>1 DEF FailSave, genVars, caseVars, flagVars, callVars, ledgerVars, Abandon,
       RevokeCaseTokens, Refreshes
<1>5. ~outage => ~CaseCurrent \/ saveFailed
  <2> SUFFICES ASSUME ~outage, CaseCurrent PROVE saveFailed
    OBVIOUS
  <2>1. \A r \in Requests : req[r].pc # "saved"
    BY <1>1, <1>2 DEF Holding
  <2>2. CASE store.version = storeVersion /\ store.refresh = creds
    <3>1. storeCreds = creds
      BY DEF RefreshInv, SyncInv
    <3>2. \A p \in Providers \ {Refreshes(q)} : store.refresh[p] = NextCreds(q)[p]
      BY <2>2, <3>1, RefreshTypes DEF NextCreds, Refreshes, Generations
    <3>3. QED BY <1>1, <2>2, <3>2 DEF RefreshAccepted, CaseCurrent, Refreshes
  <2>3. QED BY <2>1, <2>2 DEF RefreshInv, SyncInv
<1>6. MutexInv'
  <2>1. refreshMu = q
    BY <1>1 DEF RefreshInv, MutexInv, Saving, Holding
  <2>2. \A c \in Calls : pc[c] # "compare"
    BY <2>1, NoneAssumption DEF RefreshInv, MutexInv
  <2>3. \A r \in Requests : ~Holding(r)'
    BY <1>2, <1>3 DEF Holding
  <2>4. QED BY <1>4, <2>2, <2>3, NoneAssumption DEF MutexInv
<1>7. VersionInv'
  BY <1>1, <1>2, <1>3, <1>4, <1>5, RefreshTypes, NoneAssumption DEF RefreshInv, VersionInv,
     RefreshAccepted, NextCreds, FailSave, CaseCurrent
<1>8. TokenInv'
  BY <1>1, <1>2, <1>3, <1>4, <1>5, RefreshTypes, NoneAssumption DEF RefreshInv, TokenInv,
     RefreshAccepted, NextCreds, FailSave, CaseCurrent, Saving, Refreshes
<1>9. SyncInv'
  <2>1. storeCreds' = creds'
    BY <1>4 DEF RefreshInv, SyncInv
  <2>2. \A r \in Requests : req'[r].pc # "saved"
    BY <1>2, <1>3 DEF Holding
  <2>3. ASSUME CaseCurrent'
        PROVE  \/ store.version = storeVersion /\ store.refresh = creds
               \/ store.version # storeVersion /\ saveFailed'
    <3>1. CaseCurrent
      BY <1>4, <2>3 DEF CaseCurrent
    <3>2. CASE req[q].pc = "saved"
      <4>1. store.version = req[q].version /\ storeVersion < req[q].version
        BY <3>1, <3>2 DEF RefreshInv, SyncInv, VersionInv
      <4>2. store.version # storeVersion
        BY <4>1, RefreshTypes
      <4>3. QED BY <1>1, <1>4, <3>2, <4>2
    <3>3. CASE req[q].pc = "save"
      <4>1. \A r \in Requests : req[r].pc # "saved"
        BY <1>2, <3>3 DEF Holding
      <4>2. QED BY <1>4, <3>1, <4>1 DEF RefreshInv, SyncInv
    <3>4. QED BY <1>1, <3>2, <3>3 DEF Saving
  <2>4. QED BY <1>4, <2>1, <2>2, <2>3 DEF SyncInv
<1>10. LoginInv'
  BY <1>1, <1>2, <1>3, <1>4, <1>5, RefreshTypes, NoneAssumption DEF RefreshInv, LoginInv,
     RefreshAccepted, NextCreds, FailSave, CaseCurrent, Saving, Refreshes
<1>11. SeenInv'
  BY <1>1, <1>2, <1>3, <1>4, <1>5, RefreshTypes, NoneAssumption DEF RefreshInv, SeenInv,
     RefreshAccepted, NextCreds, FailSave, CaseCurrent, SeenAt, Cause
<1>12. NoSelfRevocation'
  BY <1>1, <1>2, <1>3, <1>4, <1>5, RefreshTypes, NoneAssumption DEF RefreshInv,
     NoSelfRevocation, RefreshAccepted, NextCreds, FailSave, CaseCurrent
<1>13. UsableInv'
  BY <1>1, <1>2, <1>3, <1>4, <1>5, RefreshTypes, NoneAssumption DEF RefreshInv, UsableInv,
     RefreshAccepted, NextCreds, FailSave, CaseCurrent, Saving, Refreshes
<1>14. DurableInv'
  BY <1>1, <1>2, <1>3, <1>4, <1>5, RefreshTypes, NoneAssumption DEF RefreshInv, DurableInv,
     RefreshAccepted, NextCreds, FailSave, CaseCurrent, UnsavedRotations, Refreshes
<1>15. QED BY <1>6, <1>7, <1>8, <1>9, <1>10, <1>11, <1>12, <1>13, <1>14 DEF RefreshInv

\* The proxy publishes what it has saved.
LEMMA PublishInv ==
  ASSUME RefreshInv, NEW q \in Requests, TypeOK, Publish(q)
  PROVE  RefreshInv'
<1>1. req[q].pc = "saved" /\ \A r \in Requests \ {q} : ~Holding(r)
  BY NoneAssumption DEF Publish, RefreshInv, MutexInv, Holding
<1>2. /\ req' \in [Requests -> Reqs] /\ req'[q].pc \in {"idle", "inject"}
      /\ \A r \in Requests \ {q} : req'[r] = req[r]
  <2>1. NoReq \in Reqs /\ NoReq.pc = "idle" /\ [req[q] EXCEPT !.pc = "inject"] \in Reqs
    BY RefreshTypes DEF NoReq, Reqs
  <2>2. \/ req' = [req EXCEPT ![q] = NoReq]
        \/ req' = [req EXCEPT ![q] = [req[q] EXCEPT !.pc = "inject"]]
    BY DEF Publish
  <2>3. QED BY <2>1, <2>2, RefreshTypes DEF Reqs
<1>3. /\ refreshMu' = None /\ storeVersion' = req[q].version /\ storeCreds' = NextCreds(q)
      /\ creds' = [creds EXCEPT ![Refreshes(q)] = req[q].next]
      /\ UNCHANGED <<store, lastVersion, valid, lastToken, caseConn, caseRevoked,
                     adminRevoked, saveFailed, lost, pc, arg>>
  BY DEF Publish, genVars, caseVars, flagVars, callVars, ledgerVars, Refreshes
<1>4. storeCreds' = creds'
  BY <1>3 DEF NextCreds, Refreshes, RefreshInv, SyncInv
<1>5. /\ creds'[Refreshes(q)] = req[q].next
      /\ \A p \in Providers \ {Refreshes(q)} : creds'[p] = creds[p]
  BY <1>3, RefreshTypes DEF Generations
<1>6. MutexInv'
  BY <1>1, <1>2, <1>3, <1>4, <1>5, RefreshTypes, NoneAssumption DEF RefreshInv, MutexInv,
     NextCreds, NoReq, Holding
<1>7. VersionInv'
  BY <1>1, <1>2, <1>3, <1>4, <1>5, RefreshTypes, NoneAssumption DEF RefreshInv, VersionInv,
     SyncInv, MutexInv, CaseCurrent, TokenInv, LoginInv, Generations, NextCreds, NoReq, Holding,
     Saving, Refreshes
<1>8. TokenInv'
  BY <1>1, <1>2, <1>3, <1>4, <1>5, RefreshTypes, NoneAssumption DEF RefreshInv, TokenInv,
     SyncInv, MutexInv, CaseCurrent, VersionInv, LoginInv, Generations, NextCreds, NoReq,
     Saving, Refreshes, Holding
<1>9. SyncInv'
  <2>1. \A r \in Requests : req'[r].pc # "saved"
    BY <1>1, <1>2 DEF Holding
  <2>2. ASSUME CaseCurrent' PROVE store.version = storeVersion' /\ store.refresh = creds'
    <3>1. CaseCurrent
      BY <1>3, <2>2 DEF CaseCurrent
    <3>2. store.version = req[q].version /\ store.refresh = NextCreds(q)
      BY <1>1, <3>1 DEF RefreshInv, SyncInv
    <3>3. QED BY <1>3, <1>4, <3>2
  <2>3. QED BY <1>3, <1>4, <2>1, <2>2 DEF SyncInv
<1>10. LoginInv'
  BY <1>1, <1>2, <1>3, <1>4, <1>5, RefreshTypes, NoneAssumption DEF RefreshInv, LoginInv,
     NextCreds, NoReq, CaseCurrent, Saving, Refreshes
<1>11. UsableInv'
  BY <1>1, <1>2, <1>3, <1>4, <1>5, RefreshTypes, NoneAssumption DEF RefreshInv, UsableInv,
     CaseCurrent, Generations, TokenInv, MutexInv, NextCreds, NoReq, Saving, Refreshes, Holding
<1>12. DurableInv'
  BY <1>1, <1>2, <1>3, <1>4, <1>5, RefreshTypes, NoneAssumption DEF RefreshInv, DurableInv,
     NextCreds, NoReq, UnsavedRotations, CaseCurrent, Refreshes
<1>13. SeenInv' /\ NoSelfRevocation'
  BY <1>1, <1>2, <1>3, <1>4, <1>5 DEF RefreshInv, SeenInv, NoSelfRevocation, SeenAt,
     CaseCurrent, Cause
<1>14. QED BY <1>6, <1>7, <1>8, <1>9, <1>10, <1>11, <1>12, <1>13 DEF RefreshInv

\* The product logs out.
LEMMA HostDisconnectsInv ==
  ASSUME RefreshInv, TypeOK, HostDisconnects
  PROVE  RefreshInv'
<1>1. store.present /\ store' = [store EXCEPT !.present = FALSE]
      /\ UNCHANGED <<lastVersion, valid, lastToken, storeVersion, storeCreds, creds,
                     caseConn, refreshMu, caseRevoked, adminRevoked, saveFailed, lost, pc,
                     arg, req>>
  BY DEF HostDisconnects, genVars, caseVars, flagVars, callVars, ledgerVars, Disconnect
<1>2. /\ ~store'.present /\ store'.version = store.version /\ store'.conn = store.conn
      /\ store'.refresh = store.refresh
  BY <1>1, RefreshTypes DEF Cases
<1>3. VersionInv'
  BY <1>1, <1>2, RefreshTypes, NoneAssumption DEF RefreshInv, VersionInv, Disconnect
<1>4. TokenInv'
  BY <1>1, <1>2, RefreshTypes, NoneAssumption DEF RefreshInv, TokenInv, Disconnect, Saving,
     Refreshes
<1>5. SyncInv'
  BY <1>1, <1>2, RefreshTypes, NoneAssumption DEF RefreshInv, SyncInv, Disconnect, CaseCurrent,
     NextCreds
<1>6. LoginInv'
  BY <1>1, <1>2, RefreshTypes, NoneAssumption DEF RefreshInv, LoginInv, Disconnect, CaseCurrent,
     Saving, Refreshes
<1>7. SeenInv'
  BY <1>1, <1>2, RefreshTypes, NoneAssumption DEF RefreshInv, SeenInv, Disconnect, SeenAt,
     CaseCurrent, Cause
<1>8. NoSelfRevocation'
  BY <1>1, <1>2, RefreshTypes, NoneAssumption DEF RefreshInv, NoSelfRevocation, Disconnect,
     CaseCurrent
<1>9. UsableInv'
  BY <1>1, <1>2, RefreshTypes, NoneAssumption DEF RefreshInv, UsableInv, Disconnect,
     CaseCurrent, Saving, Refreshes
<1>10. DurableInv'
  BY <1>1, <1>2, RefreshTypes, NoneAssumption DEF RefreshInv, DurableInv, Disconnect,
     UnsavedRotations, CaseCurrent, Refreshes
<1>11. MutexInv'
  BY <1>1, <1>2 DEF RefreshInv, MutexInv, Holding
<1>12. QED BY <1>3, <1>4, <1>5, <1>6, <1>7, <1>8, <1>9, <1>10, <1>11 DEF RefreshInv

\* The product logs in again.
LEMMA HostReconnectsInv ==
  ASSUME RefreshInv, TypeOK, HostReconnects
  PROVE  RefreshInv'
<1>1. /\ ~store.present /\ lost' = {} /\ lastVersion' = lastVersion + 2
      /\ lastToken' = [p \in Providers |-> lastToken[p] + 1]
      /\ valid' = [p \in Providers |-> valid[p] \cup {lastToken[p] + 1}]
      /\ store' = [present |-> TRUE, version |-> lastVersion + 1, conn |-> lastVersion + 2,
                    refresh |-> [p \in Providers |-> lastToken[p] + 1]]
      /\ UNCHANGED <<storeVersion, storeCreds, creds, caseConn, refreshMu, caseRevoked,
                     adminRevoked, saveFailed, pc, arg, req>>
  BY DEF HostReconnects, genVars, caseVars, flagVars, callVars, ledgerVars, Create
<1>2. ~CaseCurrent /\ ~CaseCurrent'
  BY <1>1, RefreshTypes DEF CaseCurrent, RefreshInv, VersionInv
<1>3. VersionInv'
  BY <1>1, <1>2, RefreshTypes, NoneAssumption DEF RefreshInv, VersionInv, Create
<1>4. TokenInv'
  BY <1>1, <1>2, RefreshTypes, NoneAssumption DEF RefreshInv, TokenInv, CaseCurrent,
     Generations, Create, Saving, Refreshes
<1>5. SyncInv'
  BY <1>1, <1>2, RefreshTypes, NoneAssumption DEF RefreshInv, SyncInv, Create, CaseCurrent,
     NextCreds
<1>6. LoginInv'
  BY <1>1, <1>2, RefreshTypes, NoneAssumption DEF RefreshInv, LoginInv, CaseCurrent,
     Generations, TokenInv, VersionInv, Create, Saving, Refreshes
<1>7. SeenInv'
  BY <1>1, <1>2, RefreshTypes, NoneAssumption DEF RefreshInv, SeenInv, Create, SeenAt,
     CaseCurrent, Cause
<1>8. NoSelfRevocation'
  BY <1>1, <1>2, RefreshTypes, NoneAssumption DEF RefreshInv, NoSelfRevocation, Create,
     CaseCurrent
<1>9. UsableInv'
  BY <1>1, <1>2, RefreshTypes, NoneAssumption DEF RefreshInv, UsableInv, Create, CaseCurrent,
     Saving, Refreshes
<1>10. DurableInv'
  BY <1>1, <1>2, RefreshTypes, NoneAssumption DEF RefreshInv, DurableInv, Create,
     UnsavedRotations, CaseCurrent, Refreshes
<1>11. MutexInv'
  BY <1>1, <1>2 DEF RefreshInv, MutexInv, Holding
<1>12. QED BY <1>3, <1>4, <1>5, <1>6, <1>7, <1>8, <1>9, <1>10, <1>11 DEF RefreshInv

\* The product revokes the case.
LEMMA RevokeCaseInv ==
  ASSUME RefreshInv, TypeOK, RevokeCase
  PROVE  RefreshInv'
<1>1. caseRevoked' = TRUE /\ adminRevoked' = TRUE
      /\ UNCHANGED <<store, lastVersion, valid, lastToken, storeVersion, storeCreds, creds,
                     caseConn, refreshMu, saveFailed, lost, pc, arg, req>>
  BY DEF RevokeCase, genVars, caseVars, flagVars, callVars, ledgerVars, RevokeCaseTokens
<1>2. SyncInv'
  BY <1>1, RefreshTypes, NoneAssumption DEF RefreshInv, SyncInv, CaseCurrent, NextCreds
<1>3. SeenInv'
  BY <1>1, RefreshTypes, NoneAssumption DEF RefreshInv, SeenInv, SeenAt, CaseCurrent, Cause
<1>4. NoSelfRevocation'
  BY <1>1, RefreshTypes, NoneAssumption DEF RefreshInv, NoSelfRevocation, CaseCurrent
<1>5. MutexInv' /\ VersionInv' /\ TokenInv' /\ LoginInv' /\ UsableInv' /\ DurableInv'
  BY <1>1 DEF RefreshInv, MutexInv, VersionInv, TokenInv, LoginInv, UsableInv, DurableInv,
              Holding, Saving, Refreshes, CaseCurrent, UnsavedRotations
<1>6. QED BY <1>2, <1>3, <1>4, <1>5 DEF RefreshInv

\* A new process loads the case.
LEMMA RestartInv ==
  ASSUME RefreshInv, TypeOK, Restart
  PROVE  RefreshInv'
<1>1. /\ store.present /\ refreshMu' = None
      /\ storeVersion' = store.version /\ caseConn' = store.conn
      /\ storeCreds' = store.refresh /\ creds' = store.refresh
      /\ ~caseRevoked' /\ ~adminRevoked' /\ ~saveFailed'
      /\ lost' = lost \cup {Refreshes(q) : q \in UnsavedRotations}
      /\ UNCHANGED <<store, lastVersion, valid, lastToken, arg>>
  BY DEF Restart, genVars, caseVars, flagVars, callVars, ledgerVars, Refreshes
<1>2. /\ \A q \in Requests : req'[q].pc = "idle"
      /\ \A c \in Calls : /\ pc'[c] \notin {"check", "compare", "install"}
                          /\ pc'[c] = "installed" => pc[c] = "installed"
  BY RefreshTypes DEF Restart, NoReq
<1>3. MutexInv'
  BY <1>1, <1>2, RefreshTypes, NoneAssumption DEF RefreshInv, MutexInv, NoReq, UnsavedRotations,
     CaseCurrent, Holding
<1>4. VersionInv'
  BY <1>1, <1>2, RefreshTypes, NoneAssumption DEF RefreshInv, VersionInv, NoReq,
     UnsavedRotations, CaseCurrent
<1>5. TokenInv'
  BY <1>1, <1>2, RefreshTypes, NoneAssumption DEF RefreshInv, TokenInv, NoReq, UnsavedRotations,
     CaseCurrent, Saving, Refreshes
<1>6. SyncInv'
  BY <1>1, <1>2, RefreshTypes, NoneAssumption DEF RefreshInv, SyncInv, NoReq, UnsavedRotations,
     CaseCurrent, NextCreds
<1>7. LoginInv'
  BY <1>1, <1>2, RefreshTypes, NoneAssumption DEF RefreshInv, LoginInv, NoReq, UnsavedRotations,
     CaseCurrent, Saving, Refreshes
<1>8. SeenInv'
  BY <1>1, <1>2, RefreshTypes, NoneAssumption DEF RefreshInv, SeenInv, NoReq, UnsavedRotations,
     CaseCurrent, SeenAt, Cause
<1>9. NoSelfRevocation'
  BY <1>1, <1>2, RefreshTypes, NoneAssumption DEF RefreshInv, NoSelfRevocation, NoReq,
     UnsavedRotations, CaseCurrent
<1>10. UsableInv'
  <2>1. \A p \in Providers : store.refresh[p] \in valid[p] \/ p \in lost'
    BY <1>1 DEF RefreshInv, DurableInv
  <2>2. QED BY <1>1, <2>1 DEF UsableInv
<1>11. DurableInv'
  BY <1>1, <1>2, RefreshTypes, NoneAssumption DEF RefreshInv, DurableInv, NoReq,
     UnsavedRotations, CaseCurrent, Refreshes
<1>12. QED BY <1>3, <1>4, <1>5, <1>6, <1>7, <1>8, <1>9, <1>10, <1>11 DEF RefreshInv

\* The other steps.
LEMMA QuietInv ==
  ASSUME RefreshInv, TypeOK, Quiet
  PROVE  RefreshInv'
<1>1. SameCase /\ SameRefresh
  BY DEF Quiet
<1>2. \A c \in Calls : (pc'[c] = "compare" <=> pc[c] = "compare") /\ (SeenAt(c) => SeenAt(c)')
  BY DEF Quiet
<1>3. MutexInv'
  BY <1>1, <1>2, RefreshTypes, NoneAssumption DEF SameCase, SameRefresh, genVars, caseVars,
     Holding, RefreshInv, MutexInv, SeenAt, CaseCurrent, Cause
<1>4. VersionInv'
  BY <1>1, <1>2, RefreshTypes, NoneAssumption DEF SameCase, SameRefresh, genVars, caseVars,
     Saving, RefreshInv, VersionInv
<1>5. TokenInv'
  BY <1>1, <1>2, RefreshTypes, NoneAssumption DEF SameCase, SameRefresh, genVars, caseVars,
     Holding, RefreshInv, TokenInv, SeenAt, CaseCurrent, Cause, Saving, Refreshes
<1>6. SyncInv'
  BY <1>1, <1>2, RefreshTypes, NoneAssumption DEF SameCase, SameRefresh, genVars, caseVars,
     Saving, RefreshInv, SyncInv, CaseCurrent, NextCreds
<1>7. LoginInv'
  BY <1>1, <1>2, RefreshTypes, NoneAssumption DEF SameCase, SameRefresh, genVars, caseVars,
     Holding, RefreshInv, LoginInv, SeenAt, CaseCurrent, Cause, Saving, Refreshes
<1>8. SeenInv'
  BY <1>1, <1>2, RefreshTypes, NoneAssumption DEF SameCase, SameRefresh, genVars, caseVars,
     Holding, RefreshInv, SeenInv, SeenAt, CaseCurrent, Cause
<1>9. UsableInv'
  BY <1>1, <1>2, RefreshTypes, NoneAssumption DEF SameCase, SameRefresh, genVars, caseVars,
     Holding, RefreshInv, UsableInv, SeenAt, CaseCurrent, Cause, Saving, Refreshes
<1>10. DurableInv'
  <2>1. UNCHANGED <<store, caseConn, valid, lost>>
    BY <1>1 DEF SameCase, genVars, caseVars
  <2>2. \A q \in Requests : q \in UnsavedRotations =>
          q \in UnsavedRotations' /\ Refreshes(q)' = Refreshes(q)
    BY <1>1, <2>1 DEF SameRefresh, Saving, UnsavedRotations, CaseCurrent, Refreshes
  <2>3. QED BY <2>1, <2>2 DEF RefreshInv, DurableInv, UnsavedRotations
<1>11. NoSelfRevocation'
  BY <1>1, <1>2 DEF SameCase, SameRefresh, genVars, caseVars, Holding, RefreshInv,
                    NoSelfRevocation, CaseCurrent
<1>12. QED BY <1>3, <1>4, <1>5, <1>6, <1>7, <1>8, <1>9, <1>10, <1>11 DEF RefreshInv

-----------------------------------------------------------------------------
(* The steps that the invariant hardly notices.                             *)

\* A request that moves while it does not hold refreshMu, or has its body read.
LEMMA IdleRequest ==
  ASSUME TypeOK, NEW q \in Requests, NEW x \in Reqs, req' = [req EXCEPT ![q] = x],
         \/ ~Holding(q) /\ x.pc \in {"idle", "queued", "inject", "upstream"}
         \/ x = [req[q] EXCEPT !.gone = TRUE]
         \/ req[q].pc = "body" /\ x = [req[q] EXCEPT !.pc = "issuer"]
  PROVE  SameRefresh
<1>1. req' \in [Requests -> Reqs] /\ req'[q] = x /\ \A r \in Requests \ {q} : req'[r] = req[r]
  BY RefreshTypes
<1>2. CASE ~Holding(q) /\ x.pc \in {"idle", "queued", "inject", "upstream"}
  BY <1>1, <1>2 DEF SameRefresh, Holding, Saving
<1>3. CASE x = [req[q] EXCEPT !.gone = TRUE]
  <2>1. /\ x.pc = req[q].pc /\ x.kind = req[q].kind /\ x.next = req[q].next
        /\ x.version = req[q].version
    BY <1>3, RefreshTypes DEF Reqs
  <2>2. QED BY <1>1, <2>1 DEF SameRefresh, Holding, Saving
<1>4. CASE req[q].pc = "body" /\ x = [req[q] EXCEPT !.pc = "issuer"]
  <2>1. x.pc = "issuer"
    BY <1>4, RefreshTypes DEF Reqs
  <2>2. QED BY <1>1, <1>4, <2>1 DEF SameRefresh, Holding, Saving
<1>5. QED BY <1>2, <1>3, <1>4

\* With the case and the calls as they are, nothing is to be shown of the calls.
LEMMA IdleCalls ==
  ASSUME SameCase, SameRefresh, UNCHANGED callVars
  PROVE  Quiet
  BY DEF Quiet, SameCase, callVars, genVars, caseVars, SeenAt, Cause, CaseCurrent

\* A request is admitted, read, cancelled, forwarded or over.
LEMMA RequestQuiet ==
  ASSUME TypeOK, NEW q \in Requests,
         \/ \E kind \in Kinds, v \in Values : Admit(q, kind, v)
         \/ CancelRequest(q) \/ Inject(q) \/ Finish(q) \/ AbortStream(q)
         \/ ReadBody(q) \/ (EnterRefresh(q) /\ ~TakesMu(q))
  PROVE  Quiet
<1>0. NoReq \in Reqs /\ NoReq.pc = "idle"
  BY DEF NoReq, Reqs
<1>1. ASSUME NEW kind \in Kinds, NEW v \in Values, Admit(q, kind, v) PROVE Quiet
  <2> DEFINE x == [NoReq EXCEPT !.kind = kind, !.lease = byValue[v],
                     !.pc = IF kind = "api" THEN "inject" ELSE "queued"]
  <2>1. x \in Reqs /\ x.pc \in {"inject", "queued"}
    BY <1>0, KindsAssumption DEF NoReq, Reqs, TypeOK, LedgerTypeOK
  <2>2. req' = [req EXCEPT ![q] = x] /\ ~Holding(q)
    BY <1>1 DEF Admit, Holding
  <2> HIDE DEF x
  <2>3. SameRefresh
    BY <2>1, <2>2, IdleRequest
  <2>4. SameCase /\ UNCHANGED callVars
    BY <1>1 DEF Admit, SameCase, flagVars
  <2>5. QED BY <2>3, <2>4, IdleCalls
<1>2. CASE CancelRequest(q)
  <2> DEFINE x == [req[q] EXCEPT !.gone = TRUE]
  <2>1. x \in Reqs
    BY RefreshTypes DEF Reqs
  <2>2. req' = [req EXCEPT ![q] = x]
    BY <1>2 DEF CancelRequest
  <2>3. SameRefresh
    BY <2>1, <2>2, IdleRequest
  <2>4. SameCase /\ UNCHANGED callVars
    BY <1>2 DEF CancelRequest, SameCase, flagVars
  <2>5. QED BY <2>3, <2>4, IdleCalls
<1>3. CASE Inject(q) \/ Finish(q) \/ AbortStream(q) \/ (EnterRefresh(q) /\ ~TakesMu(q))
  <2>1. ~Holding(q)
    BY <1>3 DEF Inject, Finish, AbortStream, EnterRefresh, Holding
  <2>2. PICK x \in {NoReq, [req[q] EXCEPT !.pc = "upstream"], [req[q] EXCEPT !.pc = "inject"]} :
          req' = [req EXCEPT ![q] = x]
    BY <1>3 DEF Inject, Finish, AbortStream, EndRequest, EnterRefresh, TakesMu, RefreshMuFree
  <2>3. x \in Reqs /\ x.pc \in {"idle", "inject", "upstream"}
    BY <1>0, <2>2, RefreshTypes DEF Reqs
  <2>4. SameRefresh
    BY <2>1, <2>2, <2>3, IdleRequest
  <2>5. SameCase /\ UNCHANGED callVars
    BY <1>3 DEF Inject, Finish, AbortStream, EndRequest, EnterRefresh, TakesMu, RefreshMuFree,
       SameCase, flagVars
  <2>6. QED BY <2>4, <2>5, IdleCalls
<1>4. CASE ReadBody(q)
  <2> DEFINE x == [req[q] EXCEPT !.pc = "issuer"]
  <2>1. x \in Reqs
    BY RefreshTypes DEF Reqs
  <2>2. req' = [req EXCEPT ![q] = x] /\ req[q].pc = "body"
    BY <1>4 DEF ReadBody
  <2>3. SameRefresh
    BY <2>1, <2>2, IdleRequest
  <2>4. SameCase /\ UNCHANGED callVars
    BY <1>4 DEF ReadBody, SameCase, flagVars
  <2>5. QED BY <2>3, <2>4, IdleCalls
<1>5. QED BY <1>1, <1>2, <1>3, <1>4

\* A call begins, or installs its token after its checks.
LEMMA CallQuiet ==
  ASSUME TypeOK, NEW c \in Calls,
         \/ \E n \in Names, r \in Runs : BeginIssue(c, n, r) \/ BeginRestore(c, n, r)
         \/ Install(c)
  PROVE  Quiet
<1>1. ASSUME NEW n \in Names, NEW r \in Runs, BeginIssue(c, n, r) \/ BeginRestore(c, n, r)
      PROVE  Quiet
  <2>1. PICK op \in {"issue", "restore"}, v \in Values, k \in {caseConn, store.conn} :
          Begin(c, op, n, r, v, k)
    BY <1>1 DEF BeginIssue, BeginRestore
  <2>2. SameCase /\ UNCHANGED req
    BY <2>1 DEF Begin, SameCase, flagVars
  <2>3. SameRefresh
    BY <2>2, RefreshTypes DEF SameRefresh, Holding, Saving
  <2>4. /\ pc[c] = "idle" /\ pc'[c] = "check" /\ arg'[c].late = ~CaseCurrent
        /\ \A d \in Calls \ {c} : pc'[d] = pc[d] /\ arg'[d] = arg[d]
    BY <2>1, RefreshTypes DEF Begin
  <2>5. CaseCurrent' = CaseCurrent /\ Cause' = Cause
    BY <2>2 DEF SameCase, genVars, caseVars, CaseCurrent, Cause
  <2>6. QED BY <2>2, <2>3, <2>4, <2>5 DEF Quiet, SeenAt
<1>2. CASE Install(c)
  <2>1. SameCase /\ UNCHANGED <<req, arg>>
    BY <1>2 DEF Install, SameCase, flagVars
  <2>2. SameRefresh
    BY <2>1, RefreshTypes DEF SameRefresh, Holding, Saving
  <2>3. /\ pc[c] = "install" /\ pc'[c] \in {"installed", "refused"}
        /\ \A d \in Calls \ {c} : pc'[d] = pc[d]
    BY <1>2, RefreshTypes DEF Install
  <2>4. CaseCurrent' = CaseCurrent /\ Cause' = Cause
    BY <2>1 DEF SameCase, genVars, caseVars, CaseCurrent, Cause
  <2>5. QED BY <2>1, <2>2, <2>3, <2>4 DEF Quiet, SeenAt
<1>3. QED BY <1>1, <1>2

\* What happens to the ledger alone.
LEMMA LedgerQuiet ==
  ASSUME TypeOK,
         \/ \E c \in Calls : Expire(c)
         \/ \E n \in Names : RevokeToken(n)
         \/ \E r \in Runs : RevokeRun(r)
         \/ ExpireLoop \/ Stop \/ Shutdown \/ UNCHANGED vars
  PROVE  Quiet
<1>1. SameCase /\ UNCHANGED <<req, callVars>>
  BY DEF Expire, RevokeToken, RevokeRun, ExpireLoop, Stop, Shutdown, vars, SameCase, flagVars
<1>2. SameRefresh
  BY <1>1, RefreshTypes DEF SameRefresh, Holding, Saving
<1>3. QED BY <1>1, <1>2, IdleCalls

-----------------------------------------------------------------------------
(* The theorems about refreshes and replaced cases.                         *)

\* A new proxy knows what the store holds, and the issuer accepts it.
LEMMA RefreshInit == Init => RefreshInv
<1> SUFFICES ASSUME Init PROVE RefreshInv
  OBVIOUS
<1>1. /\ \A q \in Requests : req[q].pc = "idle"
      /\ \A c \in Calls : pc[c] = "idle"
      /\ refreshMu = None /\ ~caseRevoked
  BY DEF Init, NoReq
<1>2. /\ store.version = 1 /\ store.conn = 1 /\ lastVersion = 1
      /\ storeVersion = 1 /\ caseConn = 1
      /\ storeCreds = store.refresh /\ creds = store.refresh
      /\ \A p \in Providers : store.refresh[p] = 0 /\ lastToken[p] = 0 /\ 0 \in valid[p]
  BY DEF Init, CaseInit
<1>3. MutexInv
  BY <1>1, NoneAssumption DEF MutexInv, Holding
<1>4. VersionInv /\ TokenInv /\ SyncInv
  BY <1>1, <1>2 DEF VersionInv, TokenInv, SyncInv, Saving
<1>5. LoginInv /\ SeenInv /\ NoSelfRevocation
  BY <1>1, <1>2 DEF LoginInv, CaseCurrent, SeenInv, SeenAt, NoSelfRevocation
<1>6. UsableInv /\ DurableInv
  BY <1>2 DEF UsableInv, DurableInv
<1>7. QED BY <1>3, <1>4, <1>5, <1>6 DEF RefreshInv

\* Every step keeps it.
LEMMA RefreshNext == Inv /\ RefreshInv /\ [Next]_vars => RefreshInv'
<1> SUFFICES ASSUME TypeOK, RefreshInv, [Next]_vars PROVE RefreshInv'
  BY DEF Inv
<1>1. ASSUME NEW c \in Calls, CallNext(c) PROVE RefreshInv'
  <2>1. CASE \E n \in Names, r \in Runs : BeginIssue(c, n, r) \/ BeginRestore(c, n, r)
    BY <2>1, CallQuiet, QuietInv
  <2>2. CASE LoadCase(c) \/ CompareCase(c)
    BY <2>2, LoadCaseInv, CompareCaseInv
  <2>3. CASE Install(c)
    BY <2>3, CallQuiet, QuietInv
  <2>4. CASE Expire(c)
    BY <2>4, LedgerQuiet, QuietInv
  <2>5. QED BY <1>1, <2>1, <2>2, <2>3, <2>4 DEF CallNext
<1>2. ASSUME NEW q \in Requests, RequestNext(q) PROVE RefreshInv'
  <2>1. CASE \/ \E kind \in Kinds, v \in Values : Admit(q, kind, v)
             \/ CancelRequest(q) \/ Inject(q) \/ Finish(q) \/ AbortStream(q)
             \/ ReadBody(q) \/ (EnterRefresh(q) /\ ~TakesMu(q))
    BY <2>1, RequestQuiet, QuietInv
  <2>2. CASE TakesMu(q)
    BY <2>2, TakesMuInv
  <2>3. CASE IssuerGrants(q) \/ IssuerFails(q) \/ RefuseBody(q)
    BY <2>3, IssuerGrantsInv, IssuerFailsInv
  <2>4. CASE SaveCommits(q) \/ SaveFails(q) \/ Publish(q)
    BY <2>4, SaveCommitsInv, SaveFailsInv, PublishInv
  <2>5. QED BY <1>2, <2>1, <2>2, <2>3, <2>4 DEF RequestNext
<1>3. CASE \/ \E n \in Names : RevokeToken(n)
           \/ \E r \in Runs : RevokeRun(r)
           \/ ExpireLoop \/ Stop \/ Shutdown \/ UNCHANGED vars
  BY <1>3, LedgerQuiet, QuietInv
<1>4. CASE RevokeCase \/ Restart \/ HostDisconnects \/ HostReconnects
  BY <1>4, RevokeCaseInv, RestartInv, HostDisconnectsInv, HostReconnectsInv
<1>5. QED BY <1>1, <1>2, <1>3, <1>4 DEF Next

\* What refreshMu protects holds for any number of requests, refreshes and logins.
THEOREM RefreshInvariance == Spec => []RefreshInv
<1>1. Init => RefreshInv
  BY RefreshInit
<1>2. Inv /\ RefreshInv /\ [Next]_vars => RefreshInv'
  BY RefreshNext
<1>3. QED BY <1>1, <1>2, Invariance, PTL DEF Spec

\* No call that began after the login was replaced gets a token from a retained
\* proxy.
THEOREM ReplacedCaseIssuesNothing == Spec => []NoTokenForReplacedCase
<1>1. RefreshInv => NoTokenForReplacedCase
  BY DEF RefreshInv, SeenInv, SeenAt, NoTokenForReplacedCase
<1>2. QED BY <1>1, RefreshInvariance, PTL

\* The proxy never takes its own refreshes for a foreign change: it revokes its
\* case only for a cause.
THEOREM RevokedForCause == Spec => []NoSelfRevocation
<1>1. RefreshInv => NoSelfRevocation
  BY DEF RefreshInv
<1>2. QED BY <1>1, RefreshInvariance, PTL

\* What is published is durable, or the case was revoked.
THEOREM PersistedBeforePublished == Spec => []PublishedIsDurable
<1>1. RefreshInv => PublishedIsDurable
  <2> SUFFICES ASSUME RefreshInv, refreshMu = None, CaseCurrent
               PROVE  (store.version = storeVersion /\ creds = store.refresh) \/ caseRevoked
    BY DEF PublishedIsDurable
  <2>1. \A q \in Requests : req[q].pc # "saved"
    BY NoneAssumption DEF RefreshInv, MutexInv, Holding
  <2>2. QED BY <2>1 DEF RefreshInv, SyncInv
<1>2. QED BY <1>1, RefreshInvariance, PTL

\* A refresh token that was replaced is not presented again, unless the
\* replacement was lost or could not be saved.
THEOREM ReplacedTokenUnused == Spec => []NoReplay
<1>1. Inv /\ RefreshInv => NoReplay
  <2> SUFFICES ASSUME TypeOK, RefreshInv, NEW q \in Requests, req[q].pc = "issuer",
                      CaseCurrent, ~saveFailed
               PROVE  creds[Refreshes(q)] \in valid[Refreshes(q)] \/ Refreshes(q) \in lost
    BY DEF Inv, NoReplay, Refreshes
  <2>1. \A r \in Requests : ~Saving(r)
    BY NoneAssumption DEF RefreshInv, MutexInv, Holding, Saving
  <2>2. Refreshes(q) \in Providers
    BY RefreshTypes
  <2>3. QED BY <2>1, <2>2 DEF RefreshInv, UsableInv
<1>2. QED BY <1>1, RefreshInvariance, Invariance, PTL

\* A restart loads refresh tokens that the issuer accepts, or that are known to
\* be lost.
THEOREM RestartIsUsable == Spec => []RestartLoadsUsableCredentials
<1>1. RefreshInv => RestartLoadsUsableCredentials
  <2> SUFFICES ASSUME RefreshInv, store.present, refreshMu = None, NEW p \in Providers
               PROVE  store.refresh[p] \in valid[p] \/ p \in lost
    BY DEF RestartLoadsUsableCredentials
  <2>1. UnsavedRotations = {}
    BY NoneAssumption DEF UnsavedRotations, RefreshInv, MutexInv, Holding
  <2>2. QED BY <2>1 DEF RefreshInv, DurableInv
<1>2. QED BY <1>1, RefreshInvariance, PTL

\* What a step does to the refresh tokens of a login.
KeepsLogin ==
  store.present /\ store'.present /\ store.conn = store'.conn =>
    \A p \in Providers : store'.refresh[p] >= store.refresh[p]

\* The store only changes when a refresh is saved or the product logs in or out.
LEMMA StoreSteps ==
  ASSUME [Next]_vars
  PROVE  \/ UNCHANGED store \/ HostDisconnects \/ HostReconnects
         \/ \E q \in Requests : SaveCommits(q)
<1> SUFFICES ASSUME ~HostDisconnects, ~HostReconnects, \A q \in Requests : ~SaveCommits(q)
             PROVE  UNCHANGED store
  OBVIOUS
<1>1. CASE \E c \in Calls : CallNext(c)
  BY <1>1 DEF CallNext, BeginIssue, BeginRestore, Begin, LoadCase, CompareCase, Install, Expire,
     caseVars
<1>2. CASE \E q \in Requests : RequestNext(q)
  BY <1>2 DEF RequestNext, Admit, CancelRequest, EnterRefresh, ReadBody,
     RefuseBody, IssuerGrants, IssuerFails, Rotate, SaveFails, FailSave, Publish, Inject, Finish, AbortStream, EndRequest, caseVars
<1>3. CASE \/ \E n \in Names : RevokeToken(n)
           \/ \E r \in Runs : RevokeRun(r)
           \/ RevokeCase \/ ExpireLoop \/ Stop \/ Shutdown \/ Restart \/ UNCHANGED vars
  BY <1>3 DEF RevokeToken, RevokeRun, RevokeCase, ExpireLoop, Stop, Shutdown, Restart, vars,
     caseVars
<1>4. QED BY <1>1, <1>2, <1>3 DEF Next

\* The refresh of an older login never overwrites a newer one, nor an older
\* generation a newer one.
THEOREM LoginKept == Spec => LoginNeverOverwritten
<1>1. Inv /\ RefreshInv /\ [Next]_vars => [KeepsLogin]_vars
  <2> SUFFICES ASSUME TypeOK, RefreshInv, [Next]_vars,
                      store.present, store'.present, store.conn = store'.conn,
                      NEW p \in Providers
               PROVE  store'.refresh[p] >= store.refresh[p]
    BY DEF Inv, KeepsLogin
  <2>0. store.refresh[p] \in Nat
    BY RefreshTypes DEF Generations
  <2>1. CASE UNCHANGED store
    BY <2>0, <2>1
  <2>2. CASE HostDisconnects \/ HostReconnects
    BY <2>2, RefreshTypes DEF HostDisconnects, HostReconnects, Disconnect, Create, Cases
  <2>3. ASSUME NEW q \in Requests, SaveCommits(q)
        PROVE  store'.refresh[p] >= store.refresh[p]
    <3>1. /\ CaseCurrent /\ store.version = storeVersion /\ req[q].pc = "save"
          /\ store'.refresh = NextCreds(q)
      BY <2>3 DEF SaveCommits, SaveRefresh, RefreshAccepted, CaseCurrent
    <3>2. \A r \in Requests : req[r].pc # "saved"
      BY <3>1, NoneAssumption DEF RefreshInv, MutexInv, Holding
    <3>3. store.refresh = creds /\ storeCreds = creds
      BY <3>1, <3>2 DEF RefreshInv, SyncInv
    <3>4. CASE p = Refreshes(q)
      <4>1. NextCreds(q)[p] = req[q].next
        BY <3>4, RefreshTypes DEF NextCreds, Refreshes, Generations
      <4>2. creds[p] <= req[q].next
        BY <3>1, <3>4 DEF RefreshInv, TokenInv, Saving
      <4>3. QED BY <2>0, <3>1, <3>3, <4>1, <4>2, RefreshTypes
    <3>5. CASE p # Refreshes(q)
      <4>1. NextCreds(q)[p] = storeCreds[p]
        BY <3>5, RefreshTypes DEF NextCreds, Refreshes, Generations
      <4>2. QED BY <2>0, <3>1, <3>3, <4>1
    <3>6. QED BY <3>4, <3>5
  <2>4. QED BY <2>1, <2>2, <2>3, StoreSteps
<1>2. Spec => [][KeepsLogin]_vars
  BY <1>1, RefreshInvariance, Invariance, PTL DEF Spec
<1>3. QED BY <1>2 DEF LoginNeverOverwritten, KeepsLogin
=============================================================================
