--------------------------- MODULE CredentialCase ---------------------------
(***************************************************************************)
(* The durable credential case behind credentialstore.Store: one record    *)
(* per case, holding one OAuth refresh generation per provider, a Version  *)
(* that changes with every durable update and a ConnectionVersion that     *)
(* changes only with a login.  FileStore performs each operation under one *)
(* exclusive flock and publishes it with one rename, so each is one step.  *)
(*                                                                         *)
(* The host product (login, disconnect) and the OAuth issuer share the     *)
(* module because they are what the record must agree with.                *)
(***************************************************************************)
EXTENDS Naturals

CONSTANTS MaxVersion,  \* bound: durable updates in one behaviour
          MaxToken     \* bound: refresh tokens the issuer mints per provider

ASSUME BoundsAssumption == MaxVersion \in Nat /\ MaxToken \in Nat

Providers == {"openai", "anthropic"}
Generations == [Providers -> Nat]

VARIABLES store,        \* the durable record; present = FALSE: no such case
          lastVersion,  \* versions are never recycled
          valid,        \* refresh tokens the issuer still accepts
          lastToken     \* the newest refresh token minted for each provider

caseVars == <<store, lastVersion, valid, lastToken>>

Cases == [present : BOOLEAN, version : Nat, conn : Nat, refresh : Generations]

CaseTypeOK ==
  /\ store \in Cases
  /\ lastVersion \in Nat
  /\ valid \in [Providers -> SUBSET Nat]
  /\ lastToken \in [Providers -> Nat]

CaseInit ==
  /\ store = [present |-> TRUE, version |-> 1, conn |-> 1,
              refresh |-> [p \in Providers |-> 0]]
  /\ lastVersion = 1
  /\ valid = [p \in Providers |-> {0}]
  /\ lastToken = [p \in Providers |-> 0]

-----------------------------------------------------------------------------
\* Mutant: last writer wins.
RefreshAccepted_NoCompare(expected, conn, provider, next) == store.present

\* FileStore.SaveRefresh's acceptance: the expected version is still the
\* durable one, the login is the same, and nothing but `provider' differs.
RefreshAccepted(expected, conn, provider, next) ==
  /\ store.present
  /\ store.version = expected
  /\ store.conn = conn
  /\ \A p \in Providers \ {provider} : store.refresh[p] = next[p]

\* Mutant: only the refreshed provider's record is written.
SaveRefresh_DropsOther(expected, conn, provider, next) ==
  /\ lastVersion < MaxVersion
  /\ RefreshAccepted(expected, conn, provider, next)
  /\ lastVersion' = lastVersion + 1
  /\ store' = [present |-> TRUE, version |-> lastVersion + 1,
               conn |-> store.conn, refresh |-> [p \in {provider} |-> next[p]]]
  /\ UNCHANGED <<valid, lastToken>>

\* FileStore.SaveRefresh: compare, then publish the next generation under a
\* fresh version.  The connection version is preserved.
SaveRefresh(expected, conn, provider, next) ==
  /\ lastVersion < MaxVersion
  /\ RefreshAccepted(expected, conn, provider, next)
  /\ lastVersion' = lastVersion + 1
  /\ store' = [present |-> TRUE, version |-> lastVersion + 1,
               conn |-> store.conn, refresh |-> next]
  /\ UNCHANGED <<valid, lastToken>>

\* The host product disconnects the case: the record is gone.
Disconnect ==
  /\ store.present
  /\ store' = [store EXCEPT !.present = FALSE]
  /\ UNCHANGED <<lastVersion, valid, lastToken>>

\* FileStore.Create after a new login: fresh version, fresh connection
\* version, newly minted refresh tokens.  It never replaces a record.
Create ==
  /\ ~store.present
  /\ lastVersion + 1 < MaxVersion
  /\ \A p \in Providers : lastToken[p] < MaxToken
  /\ lastVersion' = lastVersion + 2
  /\ lastToken' = [p \in Providers |-> lastToken[p] + 1]
  /\ valid' = [p \in Providers |-> valid[p] \cup {lastToken[p] + 1}]
  /\ store' = [present |-> TRUE, version |-> lastVersion + 1,
               conn |-> lastVersion + 2,
               refresh |-> [p \in Providers |-> lastToken[p] + 1]]

\* The issuer honours refresh token t of provider p and replaces it with a
\* new one (RFC 6749 section 6): t is worthless afterwards.
Rotate(p, t) ==
  /\ t \in valid[p]
  /\ lastToken[p] < MaxToken
  /\ lastToken' = [lastToken EXCEPT ![p] = @ + 1]
  /\ valid' = [valid EXCEPT ![p] = (@ \ {t}) \cup {lastToken[p] + 1}]
  /\ UNCHANGED <<store, lastVersion>>
=============================================================================
