------------------------------ MODULE AuthProxy ------------------------------
(***************************************************************************)
(* internal/authproxy with an external CredentialStore: the token ledger   *)
(* (two indexes, leases, revocation), the issue and restore calls that     *)
(* check the credential generation before they take p.mu, the worker       *)
(* requests that live under a lease, and the OAuth refreshes of both       *)
(* providers serialised by refreshMu.                                      *)
(*                                                                         *)
(* Every admin call makes at most one token record, so the record, its     *)
(* lease context and the call share one identifier c \in Calls.  p.mu is   *)
(* held only inside single actions; refreshMu spans several.               *)
(***************************************************************************)
EXTENDS CredentialCase, FiniteSets

CONSTANTS Names,     \* container names
          Runs,      \* run identities of this case
          Values,    \* placeholder token values
          Calls,     \* admin issue and restore calls
          Requests,  \* concurrent worker requests
          Kinds,     \* subset of {"api", "claude", "refresh"} under study
          None       \* no call, no name, free mutex

ASSUME NoneAssumption ==
  /\ None \notin Calls \cup Names \cup Runs \cup Values \cup Requests
  /\ Calls \cap Requests = {}
ASSUME KindsAssumption == Kinds \subseteq {"api", "claude", "refresh"}

VARIABLES
  tokens,       \* p.tokens: container name -> record
  byValue,      \* p.tokensByValue: token value -> record
  cancelled,    \* records whose lease context was cancelled
  expired,      \* records whose deadline has passed
  revokedRuns,  \* p.revokedRuns
  caseRevoked,  \* p.caseRevoked
  pc,           \* where each admin call is
  arg,          \* what each admin call was asked
  req,          \* the worker requests
  refreshMu,    \* the holder of p.refreshMu
  storeVersion, \* p.storeVersion
  storeCreds,   \* p.storeCreds: refresh generation of each provider
  creds,        \* *p.oauthCreds and *p.anthropicOAuth, as published
  caseConn,     \* p.caseConnectionVersion
  phase,        \* "up", "stopping", "down"
  adminRevoked, \* history: /admin/revoke-case was called
  saveFailed,   \* history: the store failed to confirm a refresh
  lost          \* history: providers whose last rotation never became durable

ledgerVars == <<tokens, byValue, cancelled>>
flagVars == <<revokedRuns, caseRevoked, adminRevoked, saveFailed, lost>>
callVars == <<pc, arg>>
genVars == <<storeVersion, storeCreds, creds, caseConn>>
vars == <<ledgerVars, expired, flagVars, callVars, req, refreshMu, genVars,
          phase, caseVars>>

NoArg == [op |-> "none", name |-> None, run |-> None, value |-> None,
          conn |-> 0, seen |-> "none", late |-> FALSE]
NoReq == [pc |-> "idle", kind |-> "none", lease |-> None, gone |-> FALSE,
          next |-> 0, version |-> 0]

Args == [op : {"none", "issue", "restore"}, name : Names \cup {None},
         run : Runs \cup {None}, value : Values \cup {None}, conn : Nat,
         seen : {"none", "match", "changed", "gone", "error"}, late : BOOLEAN]
Reqs == [pc : {"idle", "queued", "body", "issuer", "save", "saved",
               "inject", "upstream"},
         kind : {"none", "api", "claude", "refresh"},
         lease : Calls \cup {None}, gone : BOOLEAN, next : Nat, version : Nat]

LedgerTypeOK ==
  /\ tokens \in [Names -> Calls \cup {None}]
  /\ byValue \in [Values -> Calls \cup {None}]
  /\ cancelled \subseteq Calls /\ expired \subseteq Calls
CallTypeOK ==
  /\ pc \in [Calls -> {"idle", "check", "compare", "install", "installed",
                       "refused"}]
  /\ arg \in [Calls -> Args]
RequestTypeOK == req \in [Requests -> Reqs]
MemoryTypeOK ==
  /\ refreshMu \in Calls \cup Requests \cup {None}
  /\ storeVersion \in Nat /\ caseConn \in Nat
  /\ storeCreds \in Generations /\ creds \in Generations
  /\ revokedRuns \subseteq Runs /\ caseRevoked \in BOOLEAN
  /\ phase \in {"up", "stopping", "down"}
  /\ adminRevoked \in BOOLEAN /\ saveFailed \in BOOLEAN
  /\ lost \subseteq Providers
TypeOK ==
  CaseTypeOK /\ LedgerTypeOK /\ CallTypeOK /\ RequestTypeOK /\ MemoryTypeOK

\* NewProxy: credentials and versions come from the store, the ledger is empty.
Init ==
  /\ CaseInit
  /\ tokens = [n \in Names |-> None] /\ byValue = [v \in Values |-> None]
  /\ cancelled = {} /\ expired = {}
  /\ revokedRuns = {} /\ caseRevoked = FALSE
  /\ pc = [c \in Calls |-> "idle"] /\ arg = [c \in Calls |-> NoArg]
  /\ req = [q \in Requests |-> NoReq]
  /\ refreshMu = None
  /\ storeVersion = store.version /\ caseConn = store.conn
  /\ storeCreds = store.refresh /\ creds = store.refresh
  /\ phase = "up"
  /\ adminRevoked = FALSE /\ saveFailed = FALSE /\ lost = {}

-----------------------------------------------------------------------------
(* The ledger, as replaceTokenLocked and removeTokenLocked change it.       *)

Dead == cancelled \cup expired

\* The durable case is still the login this proxy was started with.
CaseCurrent == store.present /\ store.conn = caseConn

\* Mutant: refreshMu is not taken.
RefreshMuFree_Ignored == TRUE
RefreshMuFree == refreshMu = None

Records(S) == {tokens[n] : n \in S} \ {None}

\* removeTokenLocked for every name in S: cancel the lease, drop both entries.
RemoveTokens(S) ==
  /\ cancelled' = cancelled \cup Records(S)
  /\ byValue' = [v \in Values |->
                   IF \E c \in Records(S) : arg[c].value = v THEN None
                                                             ELSE byValue[v]]
  /\ tokens' = [n \in Names |-> IF n \in S THEN None ELSE tokens[n]]

\* replaceTokenLocked: remove the name's record, then enter c in both indexes.
ReplaceToken(c) ==
  LET n == arg[c].name
      old == Records({n})
  IN /\ cancelled' = cancelled \cup old
     /\ byValue' = [v \in Values |->
                      CASE v = arg[c].value -> c
                        [] v # arg[c].value /\ (\E d \in old : arg[d].value = v)
                             -> None
                        [] OTHER -> byValue[v]]
     /\ tokens' = [tokens EXCEPT ![n] = c]

\* revokeCaseTokens.
RevokeCaseTokens ==
  /\ caseRevoked' = TRUE
  /\ RemoveTokens(Names)

-----------------------------------------------------------------------------
(* Issue and restore.                                                       *)

Begin(c, op, n, r, v, k) ==
  /\ phase # "down" /\ pc[c] = "idle"
  /\ pc' = [pc EXCEPT ![c] = "check"]
  /\ arg' = [arg EXCEPT ![c] =
              [op |-> op, name |-> n, run |-> r, value |-> v, conn |-> k,
               seen |-> "none", late |-> ~CaseCurrent]]
  /\ UNCHANGED <<ledgerVars, expired, flagVars, req, refreshMu, genVars, phase,
                 caseVars>>

\* generateToken draws 32 random bytes: a value nobody has.
BeginIssue(c, n, r) ==
  \E v \in Values, k \in {caseConn, store.conn} :
    /\ \A d \in Calls : arg[d].value # v
    /\ Begin(c, "issue", n, r, v, k)

\* A restore brings back whatever placeholder a worker holds: one that was never
\* issued here, or one whose issue has returned it.
BeginRestore(c, n, r) ==
  \E v \in Values, k \in {caseConn, store.conn} :
    /\ \A d \in Calls : arg[d].op = "issue" /\ arg[d].value = v
                          => pc[d] = "installed"
    /\ Begin(c, "restore", n, r, v, k)

\* Mutant: the version read at start-up is trusted for ever.
Observed_Assumed == "match"

\* What Load tells the generation check, against the versions under refreshMu.
Observed ==
  IF ~store.present THEN "gone"
  ELSE IF store.version # storeVersion \/ store.conn # caseConn
       THEN "changed" ELSE "match"

\* checkCaseGeneration, first half: take refreshMu and load the case.
LoadCase(c) ==
  /\ pc[c] = "check" /\ RefreshMuFree
  /\ refreshMu' = c
  /\ pc' = [pc EXCEPT ![c] = "compare"]
  /\ \E seen \in {Observed, "error"} : arg' = [arg EXCEPT ![c].seen = seen]
  /\ UNCHANGED <<ledgerVars, expired, flagVars, req, genVars, phase, caseVars>>

\* checkCaseGeneration, second half, and checkTokenIdentity: a replaced or
\* disconnected case revokes everything, an unreachable store only refuses.
CompareCase(c) ==
  /\ pc[c] = "compare"
  /\ refreshMu' = None
  /\ \/ /\ arg[c].seen \in {"gone", "changed"}
        /\ RevokeCaseTokens
        /\ pc' = [pc EXCEPT ![c] = "refused"]
     \/ /\ \/ arg[c].seen = "error"
           \/ arg[c].seen = "match" /\ arg[c].conn # caseConn
        /\ pc' = [pc EXCEPT ![c] = "refused"]
        /\ UNCHANGED <<ledgerVars, caseRevoked>>
     \/ /\ arg[c].seen = "match" /\ arg[c].conn = caseConn
        /\ pc' = [pc EXCEPT ![c] = "install"]
        /\ UNCHANGED <<ledgerVars, caseRevoked>>
  /\ UNCHANGED <<expired, revokedRuns, adminRevoked, saveFailed, lost, arg, req,
                 genVars, phase, caseVars>>

\* Mutants: no recheck under p.mu; no collision check.
Admissible_NoRecheck(c) ==
  arg[c].op = "restore" =>
    LET d == byValue[arg[c].value] IN d # None => arg[d].name = arg[c].name
Admissible_NoOwnerCheck(c) == ~caseRevoked /\ arg[c].run \notin revokedRuns

\* The recheck under p.mu, and RestoreTokenWithPolicy's collision check.
Admissible(c) ==
  /\ ~caseRevoked
  /\ arg[c].run \notin revokedRuns
  /\ arg[c].op = "restore" =>
       LET d == byValue[arg[c].value] IN d # None => arg[d].name = arg[c].name

Install(c) ==
  /\ pc[c] = "install"
  /\ \/ /\ Admissible(c)
        /\ ReplaceToken(c)
        /\ pc' = [pc EXCEPT ![c] = "installed"]
     \/ /\ ~Admissible(c)
        /\ pc' = [pc EXCEPT ![c] = "refused"]
        /\ UNCHANGED ledgerVars
  /\ UNCHANGED <<expired, flagVars, arg, req, refreshMu, genVars, phase, caseVars>>

-----------------------------------------------------------------------------
(* Revocation and expiry.                                                   *)

RevokeToken(n) ==
  /\ phase # "down" /\ tokens[n] # None
  /\ RemoveTokens({n})
  /\ UNCHANGED <<expired, flagVars, callVars, req, refreshMu, genVars, phase,
                 caseVars>>

RevokeRun(r) ==
  /\ phase # "down"
  /\ revokedRuns' = revokedRuns \cup {r}
  /\ RemoveTokens({n \in Names : tokens[n] # None /\ arg[tokens[n]].run = r})
  /\ UNCHANGED <<expired, caseRevoked, adminRevoked, saveFailed, lost, callVars,
                 req, refreshMu, genVars, phase, caseVars>>

RevokeCase ==
  /\ phase # "down"
  /\ RevokeCaseTokens
  /\ adminRevoked' = TRUE
  /\ UNCHANGED <<expired, revokedRuns, saveFailed, lost, callVars, req,
                 refreshMu, genVars, phase, caseVars>>

\* The record's deadline passes; its context ends by itself.
Expire(c) ==
  /\ pc[c] = "installed" /\ c \notin Dead
  /\ expired' = expired \cup {c}
  /\ UNCHANGED <<ledgerVars, flagVars, callVars, req, refreshMu, genVars, phase,
                 caseVars>>

\* expireTokens, one tick of the cleanup loop.
ExpireLoop ==
  LET due == {n \in Names : tokens[n] \in expired}
  IN /\ due # {}
     /\ RemoveTokens(due)
     /\ UNCHANGED <<expired, flagVars, callVars, req, refreshMu, genVars, phase,
                    caseVars>>

-----------------------------------------------------------------------------
(* Worker requests.  "api" and "claude" are reverse-proxied requests of the *)
(* two providers, "refresh" is POST /oauth/token.                           *)

Provider(kind) == IF kind = "claude" THEN "anthropic" ELSE "openai"

\* workerRequest, or handleOAuthTokenRefresh's first lookup.
Admit(q, kind, v) ==
  /\ phase # "down" /\ req[q].pc = "idle"
  /\ byValue[v] # None /\ byValue[v] \notin Dead
  /\ req' = [req EXCEPT ![q] =
              [NoReq EXCEPT !.kind = kind, !.lease = byValue[v],
                 !.pc = IF kind = "api" THEN "inject" ELSE "queued"]]
  /\ UNCHANGED <<ledgerVars, expired, flagVars, callVars, refreshMu, genVars,
                 phase, caseVars>>

\* Mutant: only the deadline ends a lease context.
LeaseEnded_DeadlineOnly(q) == req[q].lease \in expired
LeaseEnded(q) == req[q].lease \in Dead

\* context.AfterFunc: the request's context ends some time after its lease.
\* handleOAuthTokenRefresh runs under the client's context alone.
CancelRequest(q) ==
  /\ req[q].pc # "idle" /\ req[q].kind # "refresh" /\ ~req[q].gone
  /\ LeaseEnded(q)
  /\ req' = [req EXCEPT ![q].gone = TRUE]
  /\ UNCHANGED <<ledgerVars, expired, flagVars, callVars, refreshMu, genVars,
                 phase, caseVars>>

\* handleOAuthTokenRefresh's recheck after queueing for refreshMu.
StillIssued(q) ==
  LET c == req[q].lease
      d == tokens[arg[c].name]
  IN d # None /\ arg[d].value = arg[c].value /\ d \notin expired

\* Take refreshMu.  /oauth/token rechecks its token and goes on to the worker's
\* body; the Anthropic path skips the refresh when the access token is not about
\* to expire, and its upstream call fails at once when the request's context has
\* already ended.
EnterRefresh(q) ==
  /\ req[q].pc = "queued" /\ RefreshMuFree
  /\ \/ /\ IF req[q].kind = "refresh" THEN StillIssued(q) ELSE ~req[q].gone
        /\ refreshMu' = q
        /\ req' = [req EXCEPT ![q].pc =
                    IF req[q].kind = "refresh" THEN "body" ELSE "issuer"]
     \/ /\ IF req[q].kind = "refresh" THEN ~StillIssued(q) ELSE req[q].gone
        /\ req' = [req EXCEPT ![q] = NoReq]
        /\ UNCHANGED refreshMu
     \/ /\ req[q].kind = "claude"
        /\ req' = [req EXCEPT ![q].pc = "inject"]
        /\ UNCHANGED refreshMu
  /\ UNCHANGED <<ledgerVars, expired, flagVars, callVars, genVars, phase, caseVars>>

\* Mutant: an error path without the Unlock.
Abandon_KeepsMutex(q) == req' = [req EXCEPT ![q] = NoReq] /\ UNCHANGED refreshMu

\* The handler returns an error and its deferred Unlock runs.
Abandon(q) ==
  /\ req' = [req EXCEPT ![q] = NoReq]
  /\ refreshMu' = None

\* handleOAuthTokenRefresh reads the worker's body with refreshMu held: the
\* issuer is called with it, or it never arrives whole or does not parse.
ReadBody(q) ==
  /\ req[q].pc = "body"
  /\ req' = [req EXCEPT ![q].pc = "issuer"]
  /\ UNCHANGED <<ledgerVars, expired, flagVars, callVars, refreshMu, genVars,
                 phase, caseVars>>
RefuseBody(q) ==
  /\ req[q].pc = "body"
  /\ Abandon(q)
  /\ UNCHANGED <<ledgerVars, expired, flagVars, callVars, genVars, phase, caseVars>>

\* The issuer answers 200: it rotated the refresh token, or kept it and only
\* renewed the access token.
IssuerGrants(q) ==
  LET p == Provider(req[q].kind)
  IN /\ req[q].pc = "issuer"
     /\ \/ /\ Rotate(p, creds[p])
           /\ req' = [req EXCEPT ![q].pc = "save", ![q].next = lastToken[p] + 1]
        \/ /\ creds[p] \in valid[p]
           /\ req' = [req EXCEPT ![q].pc = "save", ![q].next = creds[p]]
           /\ UNCHANGED caseVars
     /\ UNCHANGED <<ledgerVars, expired, flagVars, callVars, refreshMu, genVars,
                    phase>>

\* The issuer refuses or is not reached; or it rotated the token and the
\* answer never arrives (timeout, disconnect, unreadable body).
IssuerFails(q) ==
  LET p == Provider(req[q].kind)
  IN /\ req[q].pc = "issuer"
     /\ Abandon(q)
     /\ \/ UNCHANGED <<caseVars, lost>>
        \/ Rotate(p, creds[p])
           /\ lost' = IF CaseCurrent THEN lost \cup {p} ELSE lost
     /\ UNCHANGED <<ledgerVars, expired, revokedRuns, caseRevoked, adminRevoked,
                    saveFailed, callVars, genVars, phase>>

\* Mutant: the snapshot taken before the refresh is what gets saved.
NextCreds_Stale(q) == storeCreds

\* What persistOAuthState asks the store to save: the last saved snapshot with
\* this provider's record replaced.
NextCreds(q) == [storeCreds EXCEPT ![Provider(req[q].kind)] = req[q].next]

SaveCommits(q) ==
  /\ req[q].pc = "save"
  /\ SaveRefresh(storeVersion, caseConn, Provider(req[q].kind), NextCreds(q))
  /\ req' = [req EXCEPT ![q].pc = "saved", ![q].version = lastVersion']
  /\ UNCHANGED <<ledgerVars, expired, flagVars, callVars, refreshMu, genVars,
                 phase>>

\* Mutant: a failed save is reported and nothing else.
FailSave_KeepsCase(q, outage) ==
  /\ Abandon(q)
  /\ saveFailed' = (saveFailed \/ outage)
  /\ UNCHANGED <<ledgerVars, caseRevoked, lost>>
  /\ UNCHANGED <<expired, revokedRuns, adminRevoked, callVars, genVars, phase,
                 caseVars>>

\* persistOAuthState's error path: the case is revoked before refreshMu is
\* released.  `outage' tells a store that failed from one that refused.
FailSave(q, outage) ==
  /\ RevokeCaseTokens
  /\ Abandon(q)
  /\ saveFailed' = (saveFailed \/ outage)
  /\ lost' = IF CaseCurrent /\ store.refresh[Provider(req[q].kind)] # req[q].next
             THEN lost \cup {Provider(req[q].kind)} ELSE lost
  /\ UNCHANGED <<expired, revokedRuns, adminRevoked, callVars, genVars, phase,
                 caseVars>>

\* The store refuses the save (ErrConflict, ErrNotFound), cannot be reached,
\* or commits it without the proxy ever learning the new version.
SaveFails(q) ==
  \/ /\ req[q].pc = "save"
     /\ ~RefreshAccepted(storeVersion, caseConn, Provider(req[q].kind), NextCreds(q))
     /\ FailSave(q, FALSE)
  \/ /\ req[q].pc \in {"save", "saved"}
     /\ FailSave(q, TRUE)

\* SaveRefresh returned the new version: record it, publish the now durable
\* generation in memory, release refreshMu, then answer the worker or go on to
\* the upstream request.
Publish(q) ==
  /\ req[q].pc = "saved"
  /\ storeVersion' = req[q].version
  /\ storeCreds' = NextCreds(q)
  /\ creds' = [creds EXCEPT ![Provider(req[q].kind)] = req[q].next]
  /\ refreshMu' = None
  /\ req' = IF req[q].kind = "refresh" THEN [req EXCEPT ![q] = NoReq]
            ELSE [req EXCEPT ![q].pc = "inject"]
  /\ UNCHANGED <<ledgerVars, expired, flagVars, callVars, caseConn, phase,
                 caseVars>>

\* reverseProxy's last context check, then credential injection.
Inject(q) ==
  /\ req[q].pc = "inject"
  /\ req' = IF req[q].gone THEN [req EXCEPT ![q] = NoReq]
            ELSE [req EXCEPT ![q].pc = "upstream"]
  /\ UNCHANGED <<ledgerVars, expired, flagVars, callVars, refreshMu, genVars,
                 phase, caseVars>>

EndRequest(q) ==
  /\ req' = [req EXCEPT ![q] = NoReq]
  /\ UNCHANGED <<ledgerVars, expired, flagVars, callVars, refreshMu, genVars,
                 phase, caseVars>>

\* The upstream exchange ends by itself, or because its context did.
Finish(q) == req[q].pc = "upstream" /\ EndRequest(q)
AbortStream(q) == req[q].pc = "upstream" /\ req[q].gone /\ EndRequest(q)

-----------------------------------------------------------------------------
(* Proxy lifetime.                                                          *)

\* Stop cancels every lease and empties both maps; the listeners close later.
Stop ==
  /\ phase = "up"
  /\ phase' = "stopping"
  /\ RemoveTokens(Names)
  /\ UNCHANGED <<expired, flagVars, callVars, req, refreshMu, genVars, caseVars>>

Shutdown ==
  /\ phase = "stopping"
  /\ phase' = "down"
  /\ UNCHANGED <<ledgerVars, expired, flagVars, callVars, req, refreshMu, genVars,
                 caseVars>>

\* Rotations the issuer has made and the store has not committed.
UnsavedRotations ==
  {q \in Requests : /\ req[q].pc = "save" /\ CaseCurrent
                    /\ req[q].next # store.refresh[Provider(req[q].kind)]}

\* The process is gone (crash, or exit after Stop) and a new one loads the
\* case: all memory is fresh, revocations included.  A rotation that was not
\* yet committed is lost.
Restart ==
  /\ store.present
  /\ tokens' = [n \in Names |-> None] /\ byValue' = [v \in Values |-> None]
  /\ cancelled' = {c \in Calls : pc[c] = "installed"}
  /\ pc' = [c \in Calls |-> IF pc[c] \in {"check", "compare", "install"}
                            THEN "refused" ELSE pc[c]]
  /\ req' = [q \in Requests |-> NoReq]
  /\ refreshMu' = None
  /\ revokedRuns' = {} /\ caseRevoked' = FALSE
  /\ adminRevoked' = FALSE /\ saveFailed' = FALSE
  /\ storeVersion' = store.version /\ caseConn' = store.conn
  /\ storeCreds' = store.refresh /\ creds' = store.refresh
  /\ lost' = lost \cup {Provider(req[q].kind) : q \in UnsavedRotations}
  /\ phase' = "up"
  /\ UNCHANGED <<expired, arg, caseVars>>

\* The host product logs out, or logs in again.
HostDisconnects ==
  Disconnect /\ UNCHANGED <<ledgerVars, expired, flagVars, callVars, req,
                            refreshMu, genVars, phase>>
HostReconnects ==
  /\ Create
  /\ lost' = {}
  /\ UNCHANGED <<ledgerVars, expired, revokedRuns, caseRevoked, adminRevoked,
                 saveFailed, callVars, req, refreshMu, genVars, phase>>

CallNext(c) ==
  \/ \E n \in Names, r \in Runs : BeginIssue(c, n, r) \/ BeginRestore(c, n, r)
  \/ LoadCase(c) \/ CompareCase(c) \/ Install(c) \/ Expire(c)
RequestNext(q) ==
  \/ \E kind \in Kinds, v \in Values : Admit(q, kind, v)
  \/ CancelRequest(q) \/ EnterRefresh(q) \/ ReadBody(q) \/ RefuseBody(q)
  \/ IssuerGrants(q) \/ IssuerFails(q) \/ SaveCommits(q) \/ SaveFails(q) \/ Publish(q)
  \/ Inject(q) \/ Finish(q) \/ AbortStream(q)
Next ==
  \/ \E c \in Calls : CallNext(c)
  \/ \E q \in Requests : RequestNext(q)
  \/ \E n \in Names : RevokeToken(n)
  \/ \E r \in Runs : RevokeRun(r)
  \/ RevokeCase \/ ExpireLoop \/ Stop \/ Shutdown \/ Restart
  \/ HostDisconnects \/ HostReconnects

Spec == Init /\ [][Next]_vars

\* Goroutines keep running; a sync.Mutex in starvation mode serves its waiters
\* in order, so a waiter that can take refreshMu again and again gets it.  The
\* loads and saves made under it and the Anthropic refresh have deadlines; the
\* body of a worker's /oauth/token and the issuer call made for it have none
\* but the worker's own connection, so neither is assumed to end.
Settle(q) ==
  \/ req[q].kind = "claude" /\ (IssuerGrants(q) \/ IssuerFails(q))
  \/ SaveCommits(q) \/ SaveFails(q) \/ Publish(q)
Fairness ==
  /\ \A c \in Calls : SF_vars(LoadCase(c)) /\ WF_vars(CompareCase(c))
                      /\ WF_vars(Install(c))
  /\ \A q \in Requests : WF_vars(Settle(q)) /\ WF_vars(CancelRequest(q))
                         /\ WF_vars(AbortStream(q))
FairSpec == Spec /\ Fairness

-----------------------------------------------------------------------------
(* Properties.                                                              *)

Installed(c) == \E n \in Names : tokens[n] = c

\* The two indexes of the ledger describe the same records, and a record is
\* indexed exactly as long as nobody cancelled its lease: no order of issue,
\* restore, revocation, expiry and stop leaves a value that authenticates
\* without an owner, or an owner whose cancelled placeholder still works.
IndexesAgree ==
  /\ \A n \in Names : tokens[n] # None =>
       /\ arg[tokens[n]].name = n
       /\ byValue[arg[tokens[n]].value] = tokens[n]
       /\ tokens[n] \notin cancelled
  /\ \A v \in Values : byValue[v] # None =>
       arg[byValue[v]].value = v /\ tokens[arg[byValue[v]].name] = byValue[v]
  /\ \A c \in Calls : pc[c] = "installed" /\ c \notin cancelled => Installed(c)

\* A call that passed its checks before a revocation and reaches p.mu after it
\* installs nothing: revoked runs and a revoked case own no token.
RevocationSticks ==
  /\ caseRevoked => \A n \in Names : tokens[n] = None
  /\ \A n \in Names : tokens[n] # None => arg[tokens[n]].run \notin revokedRuns

\* checkCaseGeneration: a retained proxy hands out no token to a call that
\* began after the product replaced or disconnected the case.
NoTokenForReplacedCase ==
  \A c \in Calls : pc[c] = "installed" => ~arg[c].late /\ arg[c].seen = "match"

\* The proxy revokes its own case only for a cause: the product asked, the
\* login was replaced, or the store failed.  In particular its own refreshes,
\* which move the version under its feet, never look like a foreign change.
NoSelfRevocation == caseRevoked => adminRevoked \/ saveFailed \/ ~CaseCurrent

\* Persist before publish: with refreshMu free, the generation in memory is
\* the durable one as long as the proxy's version is, and a proxy that fell
\* behind the version of its own login has revoked its case.
PublishedIsDurable ==
  refreshMu = None /\ CaseCurrent =>
    \/ store.version = storeVersion /\ creds = store.refresh
    \/ caseRevoked

\* A refresh token the issuer has already replaced is not presented again,
\* unless the replacement itself was lost or the store failed to save it.
NoReplay ==
  \A q \in Requests : req[q].pc = "issuer" =>
    LET p == Provider(req[q].kind)
    IN creds[p] \in valid[p] \/ p \in lost \/ saveFailed \/ ~CaseCurrent

\* What a restart would load still works at the issuer: every rotation became
\* durable before refreshMu was released, or is known to be lost.
RestartLoadsUsableCredentials ==
  store.present /\ refreshMu = None =>
    \A p \in Providers : store.refresh[p] \in valid[p] \/ p \in lost

\* A retained proxy never writes the refresh of an older login over a newer
\* one, nor an older generation of either provider over a newer one.
LoginNeverOverwritten ==
  [][store.present /\ store'.present /\ store.conn = store'.conn =>
       \A p \in Providers : store'.refresh[p] >= store.refresh[p]]_vars

\* A worker's /oauth/token holds refreshMu while it waits for that worker.
Stalled(q) == req[q].kind = "refresh" /\ req[q].pc \in {"body", "issuer"}

\* Every issue or restore that started is answered, whatever revocations,
\* refreshes and failing saves of either provider it meets at refreshMu.  One
\* wait alone can last for ever: that for a worker whose /oauth/token neither
\* finishes its body nor gets the issuer's answer and stays connected.
CallsSettle ==
  \A c \in Calls :
    pc[c] = "check" ~> \/ pc[c] \in {"installed", "refused"}
                       \/ \E q \in Requests : []Stalled(q)

\* An upstream exchange does not outlive its lease for ever: revocation,
\* replacement, expiry and stop end it.
StreamsEnd ==
  \A q \in Requests, c \in Calls :
    req[q].pc = "upstream" /\ req[q].lease = c /\ c \in Dead
      ~> ~(req[q].pc = "upstream" /\ req[q].lease = c)

\* "Stop shuts down the proxy and revokes all tokens."
StopRevokesAll == phase = "down" => \A n \in Names : tokens[n] = None
=============================================================================
