----------------------------- MODULE LoginProofs -----------------------------
(***************************************************************************)
(* Logins: the vault of a profile keeps the newest one, for any number of  *)
(* callers, and the container of the auth proxy serves the one that its    *)
(* worker was started for, for any number of profiles, cases and commands. *)
(***************************************************************************)
EXTENDS ProfileVault, ProxyContainers, TLAPS

\* What holds between the steps of an operation that writes two files.
StepInv ==
  /\ step # "none" <=> flock # Absent
  /\ step = "create" => plain = Absent /\ vault = Absent
  /\ step = "encrypt" => plain # Absent
  /\ step = "unlink" => vault # Absent
  /\ step \in {"backup", "replace"} =>
       /\ plain = Absent /\ vault # Absent
       /\ vault.backend = "secret-service" => lastId \in ring
  /\ step \in {"create", "encrypt"} => lastId < MaxId

LoginInv ==
  /\ plain # Absent => plain.login = newest
  /\ vault # Absent => vault.record.login = newest
  /\ newest > 1 => plain # Absent \/ vault # Absent
  /\ vault # Absent /\ vault.backend = "secret-service" => vault.header \in ring

HeaderInv == vault # Absent => vault.header <= lastId

VaultInv == VaultTypeOK /\ StepInv /\ LoginInv /\ HeaderInv

\* What a step may do to the vault.
RekeyStep == vault # Absent => vault' # Absent /\ vault'.header >= vault.header

-----------------------------------------------------------------------------
\* A fresh id is new.
LEMMA FreshId ==
  ASSUME lastId \in Ids, lastId < MaxId
  PROVE  Fresh \in Ids /\ Fresh > lastId
  BY VaultAssumption DEF Ids, Fresh

\* Records, and the vaults that are written, have their types.
LEMMA RecordTypes ==
  ASSUME NEW id \in Ids
  PROVE  /\ \A login \in Ids : /\ NewRecord(id, login) \in Records
                               /\ NewRecord(id, login).login = login
         /\ \A b \in {"passphrase", "secret-service"}, k \in Ids, r \in Records :
              LET v == AgeVault(b, id, k, r) IN
              v \in Vaults /\ v.header = id /\ v.record = r /\ v.backend = b
<1>1. \A login \in Ids : NewRecord(id, login) \in Records /\ NewRecord(id, login).login = login
  BY DEF NewRecord, Records
<1>2. ASSUME NEW b \in {"passphrase", "secret-service"}, NEW k \in Ids, NEW r \in Records
      PROVE  LET v == AgeVault(b, id, k, r) IN
             v \in Vaults /\ v.header = id /\ v.record = r /\ v.backend = b
  BY DEF AgeVault, Vaults
<1>3. QED BY <1>1, <1>2

LEMMA RefreshedType ==
  ASSUME Fresh \in Ids, NEW r \in Records
  PROVE  Refreshed(r) \in Records /\ Refreshed(r).login = Fresh
  BY DEF Refreshed, Records

\* Nothing that is written is absent.
LEMMA Distinct ==
  /\ \A c \in Callers : c # Absent
  /\ \A r \in Records : r # Absent
  /\ \A v \in Vaults : v # Absent
  BY VaultAssumption

\* A handle stays a handle.
LEMMA HandleTypes ==
  ASSUME NEW c \in Callers, handle \in [Callers -> Handles]
  PROVE  /\ \A v \in Vaults : SetKey(c, v) => handle' \in [Callers -> Handles]
         /\ \A r \in Records : Told(c, r) => handle' \in [Callers -> Handles]
<1>1. handle[c] \in Handles
  OBVIOUS
<1>2. ASSUME NEW v \in Vaults, SetKey(c, v) PROVE handle' \in [Callers -> Handles]
  <2>1. v.header \in Ids /\ v.key \in Ids
    BY DEF Vaults
  <2>2. [handle[c] EXCEPT !.kind = "encrypted", !.header = v.header, !.key = v.key] \in Handles
    BY <1>1, <2>1 DEF Handles
  <2>3. QED BY <1>2, <2>2 DEF SetKey
<1>3. ASSUME NEW r \in Records, Told(c, r) PROVE handle' \in [Callers -> Handles]
  <2>1. [handle[c] EXCEPT !.base = r] \in Handles
    BY <1>1 DEF Handles
  <2>2. QED BY <1>3, <2>1 DEF Told
<1>4. QED BY <1>2, <1>3

\* The states that a profile may start in.
LEMMA VaultInitInv == VaultInit => VaultInv
  BY VaultAssumption, Distinct
  DEF VaultInit, VaultInv, VaultTypeOK, StepInv, LoginInv, HeaderInv, Ids, Records, Vaults,
      Closed, Handles

\* A step that writes no file: only handles, the lock and fresh ids move.
LEMMA FilesKept ==
  ASSUME VaultInv, UNCHANGED <<plain, vault, newest>>, handle' \in [Callers -> Handles],
         backup' \in {backup, vault}, ring \subseteq ring', ring' \subseteq Ids,
         lastId' \in Ids, lastId' >= lastId, flock' \in Callers \cup {Absent},
         step' \in {"none", "create", "encrypt", "unlink", "backup", "replace"}, StepInv'
  PROVE  VaultInv' /\ RekeyStep
  BY DEF VaultInv, VaultTypeOK, LoginInv, HeaderInv, RekeyStep, Vaults, Ids

\* The vault is replaced by one whose header is not older.
LEMMA PublishInv ==
  ASSUME VaultInv, NEW c \in Callers, NEW v \in Vaults, Publish(c, v), v.header >= lastId,
         plain = Absent, UNCHANGED <<plain, backup>>,
         flock' = Absent, step' = "none", ring \subseteq ring', ring' \subseteq Ids,
         v.backend = "secret-service" => v.header \in ring'
  PROVE  VaultInv' /\ RekeyStep
<1>1. v # Absent /\ v.header \in Ids
  BY Distinct DEF Vaults
<1>2. handle' \in [Callers -> Handles]
  BY HandleTypes DEF Publish, VaultInv, VaultTypeOK
<1>3. vault' = v /\ newest' = v.record.login /\ lastId' = v.header /\ newest' \in Ids
  BY DEF Publish, Vaults, Records
<1>4. VaultTypeOK'
  BY <1>1, <1>2, <1>3 DEF VaultInv, VaultTypeOK
<1>5. StepInv' /\ LoginInv'
  BY <1>1, <1>3 DEF StepInv, LoginInv
<1>6. HeaderInv' /\ RekeyStep
  BY <1>1, <1>3 DEF HeaderInv, RekeyStep, VaultInv, VaultTypeOK, Vaults, Ids
<1>7. QED BY <1>4, <1>5, <1>6 DEF VaultInv

-----------------------------------------------------------------------------
(* One lemma per kind of step.                                              *)

\* Opening, unlocking, loading, closing, failing.
LEMMA HandleSteps ==
  ASSUME VaultInv, NEW c \in Callers,
         OpenProfile(c) \/ CloseHandle(c) \/ Fails(c) \/ Unlock(c) \/ Load(c)
  PROVE  VaultInv' /\ RekeyStep
<1>1. handle \in [Callers -> Handles]
  BY DEF VaultInv, VaultTypeOK
<1>2. handle' \in [Callers -> Handles]
  <2>1. CASE OpenProfile(c)
    BY <1>1, <2>1 DEF OpenProfile, Handles
  <2>2. CASE CloseHandle(c) \/ Fails(c)
    BY <1>1, <2>2 DEF CloseHandle, Fails, Closed, Handles
  <2>3. CASE Unlock(c)
    BY <1>1, <2>3, HandleTypes DEF Unlock, VaultInv, VaultTypeOK
  <2>4. CASE Load(c)
    <3>1. PICK r \in Records : handle' = [handle EXCEPT ![c].base = r]
      BY <2>4 DEF Load, PlainLoads, VaultLoads, VaultInv, VaultTypeOK, Vaults
    <3>2. QED BY <1>1, <3>1, HandleTypes DEF Told
  <2>5. QED BY <2>1, <2>2, <2>3, <2>4
<1>3. flock' \in {flock, Absent} /\ step' \in {step, "none"} /\ StepInv'
  BY DEF OpenProfile, CloseHandle, Fails, Unlock, Load, Done, VaultInv, StepInv
<1>4. UNCHANGED <<plain, vault, backup, ring, lastId, newest>>
  BY DEF OpenProfile, CloseHandle, Fails, Unlock, Load
<1>5. QED BY <1>2, <1>3, <1>4, FilesKept DEF VaultInv, VaultTypeOK, Ids

\* The steps that only take the lock, store an item or keep a backup.
LEMMA LockSteps ==
  ASSUME VaultInv, NEW c \in Callers,
         \/ BeginCreateKeyring(c) \/ StrandItem(c) \/ BeginEncrypt(c)
         \/ BeginMigrate(c) \/ BackUp(c)
  PROVE  VaultInv' /\ RekeyStep
<1>1. UNCHANGED <<plain, vault, newest, handle>> /\ backup' \in {backup, vault}
  BY DEF BeginCreateKeyring, StrandItem, BeginEncrypt, BeginMigrate, BackUp
<1>2. StepInv'
  <2>1. CASE BeginMigrate(c)
    <3>1. vault \in Vaults /\ vault.backend \in {"passphrase", "secret-service"}
      BY <2>1, Distinct DEF BeginMigrate, VaultInv, VaultTypeOK, Vaults
    <3>2. QED BY <2>1, <3>1, Distinct DEF BeginMigrate, Take, Stored, StepInv
  <2>2. CASE BackUp(c)
    BY <2>2 DEF BackUp, VaultInv, StepInv
  <2>3. CASE BeginCreateKeyring(c) \/ StrandItem(c) \/ BeginEncrypt(c)
    BY <2>3, Distinct DEF BeginCreateKeyring, StrandItem, BeginEncrypt, Take, Done, Locked,
                          VaultInv, StepInv
  <2>4. QED BY <2>1, <2>2, <2>3
<1>3. /\ flock' \in Callers \cup {Absent}
      /\ step' \in {"none", "create", "encrypt", "unlink", "backup", "replace"}
  BY DEF BeginCreateKeyring, StrandItem, BeginEncrypt, BeginMigrate, BackUp, Take, Done,
         VaultInv, VaultTypeOK
<1>4. ring \subseteq ring' /\ ring' \subseteq Ids /\ lastId' \in Ids /\ lastId' >= lastId
  <2>1. lastId \in Ids /\ ring \subseteq Ids /\ lastId \in Nat
    BY DEF VaultInv, VaultTypeOK, Ids
  <2>2. CASE StrandItem(c) \/ BeginMigrate(c)
    <3>1. Fresh \in Ids /\ Fresh > lastId
      BY <2>1, <2>2, FreshId DEF StrandItem, BeginMigrate, Locked, VaultInv, StepInv
    <3>2. lastId' = Fresh /\ ring' \in {ring, ring \cup {Fresh}} /\ Fresh = lastId + 1
      BY <2>2 DEF StrandItem, BeginMigrate, Stored, Fresh
    <3>3. QED BY <2>1, <3>1, <3>2
  <2>3. CASE BeginCreateKeyring(c) \/ BeginEncrypt(c) \/ BackUp(c)
    <3>1. lastId' = lastId /\ ring' = ring
      BY <2>3 DEF BeginCreateKeyring, BeginEncrypt, BackUp
    <3>2. QED BY <2>1, <3>1
  <2>4. QED BY <2>2, <2>3
<1>5. QED BY <1>1, <1>2, <1>3, <1>4, FilesKept DEF VaultInv, VaultTypeOK

\* A refresh of the plaintext profile.
LEMMA SavePlainInv ==
  ASSUME VaultInv, NEW c \in Callers, SavePlain(c)
  PROVE  VaultInv' /\ RekeyStep
<1>1. Fresh \in Ids /\ Fresh > lastId /\ plain \in Records /\ vault = Absent
  BY FreshId DEF VaultInv, VaultTypeOK, SavePlain, Locked, PlainLoads
<1>2. Refreshed(plain) \in Records /\ Refreshed(plain).login = Fresh
  BY <1>1, RefreshedType
<1>3. handle' \in [Callers -> Handles]
  BY <1>2, HandleTypes DEF SavePlain, VaultInv, VaultTypeOK
<1>4. plain' = Refreshed(plain) /\ newest' = Fresh /\ lastId' = Fresh
  BY DEF SavePlain
<1>5. UNCHANGED <<vault, backup, ring, flock, step>> /\ step = "none"
  BY DEF SavePlain, Locked, VaultInv, StepInv
<1>6. VaultTypeOK'
  BY <1>1, <1>2, <1>3, <1>4, <1>5 DEF VaultInv, VaultTypeOK
<1>7. StepInv' /\ LoginInv' /\ HeaderInv' /\ RekeyStep
  BY <1>1, <1>2, <1>4, <1>5, Distinct DEF VaultInv, StepInv, LoginInv, HeaderInv, RekeyStep
<1>8. QED BY <1>6, <1>7 DEF VaultInv

\* A refresh of the vault, under the header it has.
LEMMA SaveVaultInv ==
  ASSUME VaultInv, NEW c \in Callers, SaveVault(c)
  PROVE  VaultInv' /\ RekeyStep
<1>1. /\ Fresh \in Ids /\ Fresh > lastId /\ plain = Absent /\ vault \in Vaults
      /\ handle[c] \in Handles
  BY FreshId DEF VaultInv, VaultTypeOK, SaveVault, Locked, VaultLoads
<1>2. vault.record \in Records /\ Refreshed(vault.record) \in Records
      /\ Refreshed(vault.record).login = Fresh
  BY <1>1, RefreshedType DEF Vaults
<1>3. handle[c].key \in Ids /\ handle[c].header = vault.header
  BY <1>1 DEF SaveVault, VaultLoads, SameHeader, Handles
<1>4. /\ vault' \in Vaults /\ vault'.record = Refreshed(vault.record)
      /\ vault'.header = vault.header /\ vault'.backend = vault.backend
  BY <1>1, <1>2, <1>3 DEF SaveVault, Vaults
<1>5. handle' \in [Callers -> Handles]
  BY <1>2, HandleTypes DEF SaveVault, VaultInv, VaultTypeOK
<1>6. /\ UNCHANGED <<plain, backup, ring, flock, step>> /\ step = "none"
      /\ newest' = Fresh /\ lastId' = Fresh
  BY DEF SaveVault, Locked, VaultInv, StepInv
<1>7. VaultTypeOK'
  BY <1>1, <1>4, <1>5, <1>6 DEF VaultInv, VaultTypeOK
<1>8. StepInv' /\ LoginInv'
  BY <1>1, <1>2, <1>4, <1>6, Distinct DEF VaultInv, StepInv, LoginInv
<1>9. HeaderInv' /\ RekeyStep
  BY <1>1, <1>4, <1>6, Distinct DEF VaultInv, VaultTypeOK, HeaderInv, RekeyStep, Vaults, Ids
<1>10. QED BY <1>7, <1>8, <1>9 DEF VaultInv

\* A new plaintext profile.
LEMMA CreatePlainInv ==
  ASSUME VaultInv, NEW c \in Callers, CreatePlain(c)
  PROVE  VaultInv' /\ RekeyStep
<1>1. Fresh \in Ids /\ Fresh > lastId /\ vault = Absent
  BY FreshId DEF VaultInv, VaultTypeOK, CreatePlain, Locked
<1>2. plain' \in Records /\ plain'.login = Fresh /\ newest' = Fresh /\ lastId' = Fresh
  BY <1>1, RecordTypes DEF CreatePlain
<1>3. UNCHANGED <<vault, backup, ring, flock, step, handle>> /\ step = "none"
  BY DEF CreatePlain, Locked, VaultInv, StepInv
<1>4. VaultTypeOK'
  BY <1>1, <1>2, <1>3 DEF VaultInv, VaultTypeOK
<1>5. StepInv' /\ LoginInv' /\ HeaderInv' /\ RekeyStep
  BY <1>1, <1>2, <1>3, Distinct DEF VaultInv, StepInv, LoginInv, HeaderInv, RekeyStep
<1>6. QED BY <1>4, <1>5 DEF VaultInv

\* The operations that publish a vault.
LEMMA PublishSteps ==
  ASSUME VaultInv, NEW c \in Callers,
         CreateVault(c) \/ CreateKeyring(c) \/ Migrate(c) \/ ChangePassphrase(c)
  PROVE  VaultInv' /\ RekeyStep
<1>0. lastId \in Ids /\ ring \subseteq Ids /\ handle[c] \in Handles
  BY DEF VaultInv, VaultTypeOK
<1>1. ASSUME CreateVault(c) \/ CreateKeyring(c) \/ ChangePassphrase(c)
      PROVE  Fresh \in Ids /\ Fresh >= lastId
  <2>1. lastId < MaxId
    BY <1>1 DEF CreateVault, CreateKeyring, ChangePassphrase, Locked, VaultInv, StepInv
  <2>2. QED BY <1>0, <2>1, FreshId DEF Ids
<1>2. CASE CreateVault(c)
  <2> DEFINE v == AgeVault("passphrase", Fresh, Fresh, NewRecord(Fresh, Fresh))
  <2>1. v \in Vaults /\ v.header = Fresh /\ v.backend = "passphrase"
    BY <1>1, <1>2, RecordTypes
  <2> HIDE DEF v
  <2>2. Publish(c, v) /\ plain = Absent
    BY <1>2 DEF CreateVault, v
  <2>3. UNCHANGED <<plain, backup, ring>> /\ flock' = Absent /\ step' = "none"
    BY <1>2 DEF CreateVault, Locked, VaultInv, StepInv
  <2>4. QED BY <1>0, <1>1, <1>2, <2>1, <2>2, <2>3, PublishInv
<1>3. CASE CreateKeyring(c)
  <2> DEFINE v == AgeVault("secret-service", Fresh, Fresh, NewRecord(Fresh, Fresh))
  <2>1. v \in Vaults /\ v.header = Fresh
    BY <1>1, <1>3, RecordTypes
  <2> HIDE DEF v
  <2>2. Publish(c, v) /\ plain = Absent
    BY <1>3 DEF CreateKeyring, VaultInv, StepInv, v
  <2>3. /\ UNCHANGED <<plain, backup>> /\ flock' = Absent /\ step' = "none"
        /\ ring' = ring \cup {Fresh}
    BY <1>3 DEF CreateKeyring, Done, Stored
  <2>4. QED BY <1>0, <1>1, <1>3, <2>1, <2>2, <2>3, PublishInv
<1>4. CASE Migrate(c)
  <2> DEFINE v == AgeVault(vault.backend, lastId, lastId, NewRecord(lastId, vault.record.login))
  <2>1. /\ plain = Absent /\ vault \in Vaults
        /\ vault.backend = "secret-service" => lastId \in ring
    BY <1>4 DEF Migrate, VaultInv, VaultTypeOK, StepInv
  <2>2. /\ vault.backend \in {"passphrase", "secret-service"} /\ vault.record \in Records
        /\ vault.record.login \in Ids
    BY <2>1 DEF Vaults, Records
  <2>3. v \in Vaults /\ v.header = lastId /\ v.backend = vault.backend
    BY <1>0, <2>2, RecordTypes
  <2> HIDE DEF v
  <2>4. /\ Publish(c, v) /\ UNCHANGED <<plain, backup, ring>>
        /\ flock' = Absent /\ step' = "none"
    BY <1>4 DEF Migrate, Done, v
  <2>5. v.header >= lastId
    BY <1>0, <2>3 DEF Ids
  <2>6. QED BY <1>0, <2>1, <2>3, <2>4, <2>5, PublishInv
<1>5. CASE ChangePassphrase(c)
  <2> DEFINE v == AgeVault("passphrase", Fresh, handle[c].key, vault.record)
  <2>1. plain = Absent /\ vault \in Vaults
    BY <1>5 DEF ChangePassphrase, VaultLoads, VaultInv, VaultTypeOK
  <2>2. vault.record \in Records /\ handle[c].key \in Ids
    BY <1>0, <1>5, <2>1 DEF ChangePassphrase, VaultLoads, SameHeader, Handles, Vaults
  <2>3. v \in Vaults /\ v.header = Fresh /\ v.backend = "passphrase"
    BY <1>1, <1>5, <2>2, RecordTypes
  <2> HIDE DEF v
  <2>4. /\ Publish(c, v) /\ UNCHANGED <<plain, backup, ring>>
        /\ flock' = Absent /\ step' = "none"
    BY <1>5 DEF ChangePassphrase, Locked, VaultInv, StepInv, v
  <2>5. QED BY <1>0, <1>1, <1>5, <2>1, <2>3, <2>4, PublishInv
<1>6. QED BY <1>2, <1>3, <1>4, <1>5

\* The verified write of an encryption: the plaintext is still there.
LEMMA WriteEncryptedInv ==
  ASSUME VaultInv, NEW c \in Callers, WriteEncrypted(c)
  PROVE  VaultInv' /\ RekeyStep
<1>1. Fresh \in Ids /\ Fresh > lastId /\ plain \in Records /\ lastId \in Ids
  BY FreshId DEF VaultInv, VaultTypeOK, WriteEncrypted, StepInv
<1>2. plain.login \in Ids
  BY <1>1 DEF Records
<1>3. /\ vault' \in Vaults /\ vault'.header = Fresh /\ vault'.backend = "passphrase"
      /\ vault'.record.login = plain.login
  BY <1>1, <1>2, RecordTypes DEF WriteEncrypted
<1>4. /\ UNCHANGED <<plain, backup, ring, flock, handle, newest>> /\ flock = c
      /\ lastId' = Fresh /\ step' = "unlink"
  BY DEF WriteEncrypted
<1>5. VaultTypeOK'
  BY <1>1, <1>3, <1>4 DEF VaultInv, VaultTypeOK
<1>6. StepInv' /\ LoginInv'
  BY <1>1, <1>3, <1>4, Distinct DEF VaultInv, StepInv, LoginInv
<1>7. HeaderInv' /\ RekeyStep
  BY <1>1, <1>3, <1>4, Distinct DEF VaultInv, VaultTypeOK, HeaderInv, RekeyStep, Vaults, Ids
<1>8. QED BY <1>5, <1>6, <1>7 DEF VaultInv

\* Its end: the vault has the login of the plaintext that goes.
LEMMA UnlinkInv ==
  ASSUME VaultInv, NEW c \in Callers, Unlink(c)
  PROVE  VaultInv' /\ RekeyStep
<1>1. vault \in Vaults /\ vault # Absent
  BY DEF VaultInv, VaultTypeOK, StepInv, Unlink
<1>2. handle' \in [Callers -> Handles]
  BY <1>1, HandleTypes DEF Unlink, VaultInv, VaultTypeOK
<1>3. /\ UNCHANGED <<vault, backup, ring, lastId, newest>> /\ plain' = Absent
      /\ flock' = Absent /\ step' = "none"
  BY DEF Unlink, Done
<1>4. VaultTypeOK'
  BY <1>2, <1>3 DEF VaultInv, VaultTypeOK
<1>5. StepInv' /\ LoginInv' /\ HeaderInv'
  BY <1>1, <1>3 DEF VaultInv, StepInv, LoginInv, HeaderInv
<1>6. RekeyStep
  BY <1>1, <1>3 DEF RekeyStep, Vaults, Ids
<1>7. QED BY <1>4, <1>5, <1>6 DEF VaultInv

-----------------------------------------------------------------------------
\* Every step keeps the invariant and rekeys forward only.
LEMMA VaultNextInv == VaultInv /\ [VaultNext]_vaultVars => VaultInv' /\ RekeyStep
<1> SUFFICES ASSUME VaultInv, [VaultNext]_vaultVars PROVE VaultInv' /\ RekeyStep
  OBVIOUS
<1>1. ASSUME NEW c \in Callers, VaultStep(c) PROVE VaultInv' /\ RekeyStep
  BY <1>1, HandleSteps, LockSteps, SavePlainInv, SaveVaultInv, CreatePlainInv, PublishSteps,
     WriteEncryptedInv, UnlinkInv DEF VaultStep
<1>2. CASE UNCHANGED vaultVars
  BY <1>2 DEF vaultVars, VaultInv, VaultTypeOK, StepInv, LoginInv, HeaderInv, RekeyStep,
              Vaults, Ids
<1>3. QED BY <1>1, <1>2 DEF VaultNext

\* The invariant holds in every state of a profile.
THEOREM VaultInvHolds == VaultSpec => []VaultInv
<1>1. VaultInv /\ [VaultNext]_vaultVars => VaultInv'
  BY VaultNextInv
<1>2. QED BY <1>1, VaultInitInv, PTL DEF VaultSpec

\* The newest login is never lost to an interrupted or concurrent operation.
THEOREM LoginSurvives == VaultSpec => []LoginIsKept
<1>1. VaultInv => LoginIsKept
  <2> SUFFICES ASSUME VaultInv PROVE LoginIsKept
    OBVIOUS
  <2>1. \A r \in Present : r.login = newest
    BY DEF Present, VaultInv, LoginInv
  <2>2. newest > 1 => Present # {}
    <3>1. vault # Absent => vault.record # Absent
      BY Distinct DEF VaultInv, VaultTypeOK, Vaults
    <3>2. QED BY <3>1 DEF Present, VaultInv, LoginInv
  <2>3. QED BY <2>1, <2>2 DEF LoginIsKept, VaultInv, LoginInv
<1>2. QED BY <1>1, VaultInvHolds, PTL

\* A caller with an old key never puts an old header back.
THEOREM RekeyHolds == VaultSpec => RekeyIsFinal
<1>1. VaultInv /\ [VaultNext]_vaultVars => [RekeyStep]_vaultVars
  BY VaultNextInv
<1>2. RekeyStep <=> (vault # Absent => vault' # Absent /\ vault'.header >= vault.header)
  BY DEF RekeyStep
<1>3. QED BY <1>1, <1>2, VaultInvHolds, PTL DEF VaultSpec, RekeyIsFinal

-----------------------------------------------------------------------------
\* The container of the auth proxy.

CommandRecords ==
  [step : Steps, label : Logins, print : Versions, key : BOOLEAN, own : BOOLEAN,
   moved : BOOLEAN, again : BOOLEAN, profile : Logins \cup {Nobody},
   ident : Logins \cup {Nobody}]

\* The profile login that a container serves as long as it exists.
ServedProfile == IF Owner(box) \in Profiles THEN box.label ELSE Nobody

\* A profile's container is of the profile's connection, until a new key makes
\* a plain one unusable; what it serves is what its label says.
LabelInv ==
  box # NoBox /\ Owner(box) \in Profiles =>
    /\ box.print # 0 => print[Owner(box)] # 0
    /\ (box.print = 0 /\ print[Owner(box)] # 0) \/ conn[Owner(box)] = box.label[2]
    /\ Serves => box.opened[1] = box.label[2]

\* A command that is about to place a token has looked at the profile that the
\* container serves, unless the container has moved since.
LookInv ==
  \A c \in Commands :
    /\ cmd[c].step = "issue" /\ ~cmd[c].moved =>
         box # NoBox /\ cmd[c].profile = ServedProfile
    /\ cmd[c].step = "restore" =>
         /\ worker # NoWorker
         /\ ~cmd[c].moved => box # NoBox /\ worker.profile = ServedProfile

\* A token is held by a proxy that serves, for a worker that is recorded.
HeldInv == held # "none" => Serves /\ worker # NoWorker

\* Who started a container on its own behalf will deliver the key or stop it.
TendedInv ==
  box # NoBox /\ box.run = "waiting" /\ ~box.left =>
    \E c \in Commands : cmd[c].step \in {"deliver", "halt"} /\ Target(c)

\* A command that is about to create a profile's container has opened the
\* profile: it is the one LabelInv asks for, or a new key has made it useless.
ConfiguredInv ==
  \A c \in Commands : LET p == cmd[c].label[1] IN
    cmd[c].step = "create" /\ p \in Profiles =>
      /\ cmd[c].print # 0 => print[p] # 0
      /\ (cmd[c].print = 0 /\ print[p] # 0) \/ conn[p] = cmd[c].label[2]

\* What it looks at is typed, too.
TypesInv == ProxyTypeOK /\ cmd \in [Commands -> CommandRecords]

\* The inductive invariant.
ContainerInv ==
  /\ TypesInv
  /\ LabelInv /\ LookInv /\ HeldInv /\ TokensStayWithLogin /\ TendedInv

-----------------------------------------------------------------------------
(* The helpers.                                                             *)

\* What the type of each variable says.
LEMMA TypeFacts ==
  ASSUME TypesInv
  PROVE  /\ conn \in [Owners -> Versions] /\ print \in [Owners -> Versions]
         /\ box \in ProxyBoxes \cup {NoBox} /\ worker \in WorkerRecords \cup {NoWorker}
         /\ held \in {"none", "placed", "blind"} /\ cmd \in [Commands -> CommandRecords]
         /\ NoBox \notin ProxyBoxes /\ NoWorker \notin WorkerRecords /\ Nobody \notin Logins
         /\ box # NoBox => /\ box.label \in Logins /\ Owner(box) \in Owners
                           /\ box.label[2] \in Versions
                           /\ box.label = <<Owner(box), box.label[2]>>
                           /\ box.opened[1] \in Versions
         /\ Host \in Owners /\ 0 \in Versions /\ <<Host, 0>> \in Logins
         /\ \A c \in Commands : cmd[c].label[1] \in Owners /\ cmd[c].label[2] \in Versions
  BY AbsenceAssumption, ProxyAssumption
     DEF TypesInv, ProxyTypeOK, ProxyBoxes, Logins, Owner, Owners, Versions, CommandRecords

\* A command that is not under way.
LEMMA RestingType ==
  TypesInv => Resting \in CommandRecords /\ Resting.step = "idle"
  BY TypeFacts DEF Resting, CommandRecords, Steps

\* A container that stops keeps its labels.
LEMMA StoppedEffect ==
  ASSUME NEW b \in ProxyBoxes
  PROVE  /\ Stopped(b) \in ProxyBoxes /\ Stopped(b).run = "stopped"
         /\ Stopped(b).label = b.label /\ Stopped(b).print = b.print
<1>1. NeverRead \in Versions \X Versions
  BY ProxyAssumption DEF NeverRead, Versions
<1>2. QED BY <1>1 DEF Stopped, ProxyBoxes

\* A container that has its key, or needs none, serves what is current, or
\* stops.
LEMMA LoadedEffect ==
  ASSUME TypesInv, box # NoBox, NEW key
  PROVE  LET b == Loaded(box, key)
         IN /\ b \in ProxyBoxes /\ b.run \in {"stopped", "serving"}
            /\ b.label = box.label /\ b.print = box.print
            /\ b.run = "serving" /\ Owner(box) \in Profiles =>
                 /\ b.opened[1] = conn[Owner(box)]
                 /\ box.print = 0 <=> print[Owner(box)] = 0
<1>1. box \in ProxyBoxes /\ Owner(box) \in Owners
  BY TypeFacts
<1>2. <<conn[Owner(box)], print[Owner(box)]>> \in Versions \X Versions
  BY <1>1, TypeFacts
<1> DEFINE s == [box EXCEPT !.run = "serving", !.left = FALSE,
                            !.opened = <<conn[Owner(box)], print[Owner(box)]>>]
<1>3. s \in ProxyBoxes /\ s.run = "serving" /\ s.label = box.label /\ s.print = box.print
      /\ s.opened[1] = conn[Owner(box)]
  BY <1>1, <1>2 DEF ProxyBoxes
<1>4. CASE /\ Loaded(box, key) = s
           /\ Owner(box) \in Profiles => (box.print = 0 <=> print[Owner(box)] = 0)
  BY <1>3, <1>4
<1>5. CASE Loaded(box, key) = Stopped(box)
  BY <1>1, <1>5, StoppedEffect
<1>6. QED BY <1>4, <1>5 DEF Loaded

\* What a proxy that serves has opened is what its label says.
LEMMA SeenIsServed ==
  ASSUME TypesInv, LabelInv, Serves
  PROVE  box # NoBox /\ SeenProfile = ServedProfile
  BY TypeFacts DEF LabelInv, Serves, SeenProfile, ServedProfile

\* What a command sees of a proxy that serves is a login or none.
LEMMA SeenType ==
  ASSUME TypesInv, Serves
  PROVE  SeenProfile \in Logins \cup {Nobody}
  BY TypeFacts DEF Serves, SeenProfile, Logins

-----------------------------------------------------------------------------
(* The effects that several steps share.                                    *)

\* One command goes on and nothing else changes.
LEMMA CommandGoesOn ==
  ASSUME ContainerInv, NEW c \in Commands, NEW x \in CommandRecords,
         cmd' = [cmd EXCEPT ![c] = x], UNCHANGED <<conn, print, box, worker, held>>,
         x.step \notin {"issue", "restore"} \/
           (box # NoBox /\ (x.step = "issue" => x.profile = ServedProfile)
            /\ (x.step = "restore" => worker # NoWorker /\ worker.profile = ServedProfile)),
         \/ cmd[c].step \notin {"deliver", "halt"} \/ ~Target(c)
         \/ x.step \in {"deliver", "halt"} /\ x.own = cmd[c].own /\ x.moved = cmd[c].moved
  PROVE  ContainerInv'
<1>1. TypesInv'
  BY TypeFacts DEF ContainerInv, TypesInv, ProxyTypeOK, CommandRecords
<1>2. /\ cmd'[c] = x
      /\ \A d \in Commands \ {c} : cmd'[d] = cmd[d]
  BY TypeFacts DEF ContainerInv
<1>3. LookInv'
  BY <1>2 DEF ContainerInv, LookInv, ServedProfile, Owner
<1>4. TendedInv'
  BY <1>2 DEF ContainerInv, TendedInv, Target
<1>5. LabelInv' /\ HeldInv' /\ TokensStayWithLogin'
  BY DEF ContainerInv, LabelInv, HeldInv, TokensStayWithLogin, Serves, Owner, SeenProfile
<1>6. QED BY <1>1, <1>3, <1>4, <1>5 DEF ContainerInv

\* The container goes; next is what the commands were going to be.
LEMMA ContainerGoes ==
  ASSUME ContainerInv, NEW next \in [Commands -> CommandRecords], Removed(next),
         UNCHANGED <<conn, print, worker>>,
         \A d \in Commands : next[d].step = "restore" => cmd[d].step = "restore"
  PROVE  ContainerInv'
<1>1. box' = NoBox /\ held' = "none"
  BY DEF Removed
<1>2. /\ cmd' \in [Commands -> CommandRecords]
      /\ \A d \in Commands : /\ cmd'[d].step = next[d].step
                             /\ cmd'[d].step \in {"issue", "restore"} => cmd'[d].moved
  <2>1. cmd' = [d \in Commands |-> [next[d] EXCEPT !.moved = next[d].moved \/ Looked(next[d])]]
    BY DEF Removed, Moved
  <2>2. ASSUME NEW d \in Commands
        PROVE  /\ [next[d] EXCEPT !.moved = next[d].moved \/ Looked(next[d])] \in CommandRecords
               /\ next[d].step \in {"issue", "restore"} => Looked(next[d])
    BY DEF CommandRecords, Looked
  <2>3. \A d \in Commands :
          /\ cmd'[d].step = next[d].step
          /\ cmd'[d].moved = (next[d].moved \/ Looked(next[d]))
    BY <2>1 DEF CommandRecords
  <2>4. QED BY <2>1, <2>2, <2>3
<1>3. TypesInv'
  BY <1>1, <1>2 DEF ContainerInv, TypesInv, ProxyTypeOK, CommandRecords
<1>4. LookInv'
  BY <1>2 DEF ContainerInv, LookInv
<1>5. LabelInv' /\ HeldInv' /\ TokensStayWithLogin' /\ TendedInv'
  BY <1>1 DEF LabelInv, HeldInv, TokensStayWithLogin, TendedInv
<1>6. QED BY <1>3, <1>4, <1>5 DEF ContainerInv

\* The container stops, and with it the proxy's ledger.
LEMMA ContainerStops ==
  ASSUME ContainerInv, box # NoBox, box' = Stopped(box), held' = "none",
         UNCHANGED <<conn, print>>,
         \/ worker' = worker
         \/ worker # NoWorker /\ worker' = [worker EXCEPT !.running = FALSE],
         \/ cmd' = cmd
         \/ \E c \in Commands : EndCommand(c)
  PROVE  ContainerInv'
<1>1. /\ box' \in ProxyBoxes /\ box'.run = "stopped" /\ box' # NoBox
      /\ box'.label = box.label /\ box'.print = box.print
  BY TypeFacts, StoppedEffect DEF ContainerInv
<1>2. /\ worker' \in WorkerRecords \cup {NoWorker}
      /\ worker # NoWorker => worker' # NoWorker /\ worker'.profile = worker.profile
  BY TypeFacts DEF ContainerInv, WorkerRecords
<1>3. /\ cmd' \in [Commands -> CommandRecords]
      /\ \A d \in Commands : cmd'[d] = cmd[d] \/ cmd'[d].step = "idle"
  BY TypeFacts, RestingType DEF ContainerInv, EndCommand
<1>4. TypesInv'
  BY <1>1, <1>2, <1>3 DEF ContainerInv, TypesInv, ProxyTypeOK, CommandRecords
<1>5. LabelInv' /\ HeldInv' /\ TokensStayWithLogin' /\ TendedInv'
  BY <1>1 DEF ContainerInv, LabelInv, HeldInv, TokensStayWithLogin, TendedInv, Serves, Owner
<1>6. LookInv'
  BY <1>1, <1>2, <1>3 DEF ContainerInv, LookInv, ServedProfile, Owner
<1>7. QED BY <1>4, <1>5, <1>6 DEF ContainerInv

-----------------------------------------------------------------------------
(* The commands.                                                            *)

\* The logins that a command may name.
LEMMA ProfileLoginType ==
  ASSUME TypesInv, NEW p \in Owners
  PROVE  ProfileLogin(p) \in Logins /\ <<p, 0>> \in Logins /\ <<p, conn[p]>> \in Logins
  BY TypeFacts DEF ProfileLogin, RunningEncrypted, Serves, Logins

\* What a command wants of the container, before it has looked.
LEMMA SpecOfType ==
  ASSUME TypesInv, NEW o \in Owners
  PROVE  SpecOf(o) \in CommandRecords /\ SpecOf(o).step = "inspect"
         /\ [SpecOf(o) EXCEPT !.again = TRUE] \in CommandRecords
         /\ [SpecOf(o) EXCEPT !.again = TRUE].step = "inspect"
<1>1. print[o] \in Versions /\ ProfileLogin(o) \in Logins /\ <<o, 0>> \in Logins
  BY TypeFacts, ProfileLoginType
<1>2. SpecOf(o) \in CommandRecords
  BY <1>1, RestingType DEF SpecOf, Resting, CommandRecords, Steps
<1>3. SpecOf(o).step = "inspect"
  BY DEF SpecOf, Resting
<1>4. \A x \in CommandRecords : /\ [x EXCEPT !.again = TRUE] \in CommandRecords
                              /\ [x EXCEPT !.again = TRUE].step = x.step
  BY DEF CommandRecords
<1>5. QED BY <1>2, <1>3, <1>4

\* Only the step of a command changes.
LEMMA StepType ==
  ASSUME TypesInv, NEW c \in Commands, NEW s \in Steps
  PROVE  /\ [cmd[c] EXCEPT !.step = s] \in CommandRecords
         /\ [cmd[c] EXCEPT !.step = s].step = s
         /\ [cmd[c] EXCEPT !.step = s].own = cmd[c].own
         /\ [cmd[c] EXCEPT !.step = s].moved = cmd[c].moved
         /\ [cmd[c] EXCEPT !.step = s].profile = cmd[c].profile
         /\ GoTo(c, s) => cmd' = [cmd EXCEPT ![c] = [cmd[c] EXCEPT !.step = s]]
  BY TypeFacts DEF CommandRecords, GoTo

\* A command begins, or decides after its inspection; only the command changes.
LEMMA BeginsInv ==
  ASSUME ContainerInv, NEW c \in Commands,
         \/ \E o \in Owners : BeginProxy(c, o)
         \/ InspectBox(c) \/ Configure(c)
         \/ \E p \in Profiles : BeginRekey(c, p) \/ BeginLock(c, p)
         \/ \E a \in Cases : BeginClear(c, a)
  PROVE  ContainerInv'
<1>0. TypesInv
  BY DEF ContainerInv
<1>1. PICK x \in CommandRecords :
        /\ cmd' = [cmd EXCEPT ![c] = x]
        /\ x.step \notin {"issue", "restore"}
  <2>1. ASSUME NEW o \in Owners, BeginProxy(c, o)
        PROVE  \E x \in CommandRecords : cmd' = [cmd EXCEPT ![c] = x]
                                         /\ x.step \notin {"issue", "restore"}
    BY <1>0, <2>1, SpecOfType DEF BeginProxy
  <2>2. CASE InspectBox(c)
    <3>1. EndCommand(c) \/ \E s \in {"configure", "replace", "start", "wait"} : GoTo(c, s)
      BY <2>2 DEF InspectBox, Await
    <3>2. CASE EndCommand(c)
      BY <1>0, <3>2, RestingType DEF EndCommand
    <3>3. ASSUME NEW s \in {"configure", "replace", "start", "wait"}, GoTo(c, s)
          PROVE  \E x \in CommandRecords : cmd' = [cmd EXCEPT ![c] = x]
                                           /\ x.step \notin {"issue", "restore"}
      <4>1. s \in Steps /\ s \notin {"issue", "restore"}
        BY DEF Steps
      <4>2. /\ [cmd[c] EXCEPT !.step = s] \in CommandRecords
            /\ [cmd[c] EXCEPT !.step = s].step = s
            /\ cmd' = [cmd EXCEPT ![c] = [cmd[c] EXCEPT !.step = s]]
        BY <1>0, <3>3, <4>1, StepType
      <4>3. QED BY <4>1, <4>2
    <3>4. QED BY <3>1, <3>2, <3>3
  <2>3. ASSUME NEW p \in Profiles, BeginRekey(c, p)
        PROVE  \E x \in CommandRecords : cmd' = [cmd EXCEPT ![c] = x]
                                         /\ x.step \notin {"issue", "restore"}
    <3> DEFINE s == IF Mounts(p) THEN "drop" ELSE "rekey"
    <3>1. p \in Owners /\ print[p] \in Versions /\ <<p, 0>> \in Logins
      BY <1>0, TypeFacts, ProfileLoginType DEF Owners
    <3>2. cmd' = [cmd EXCEPT ![c] = [cmd[c] EXCEPT !.step = s, !.label = <<p, 0>>,
                                                   !.print = print[p]]]
      BY <1>0, <2>3, TypeFacts DEF BeginRekey
    <3>3. s \in Steps \ {"issue", "restore"}
      BY DEF Steps
    <3> HIDE DEF s
    <3>4. [cmd[c] EXCEPT !.step = s, !.label = <<p, 0>>, !.print = print[p]]
            \in CommandRecords
      BY <1>0, <3>1, <3>3, TypeFacts DEF CommandRecords
    <3>5. [cmd[c] EXCEPT !.step = s, !.label = <<p, 0>>, !.print = print[p]].step = s
      BY <1>0, TypeFacts DEF CommandRecords
    <3>6. QED BY <3>2, <3>3, <3>4, <3>5
  <2>4. ASSUME NEW p \in Profiles, BeginLock(c, p)
        PROVE  \E x \in CommandRecords : cmd' = [cmd EXCEPT ![c] = x]
                                         /\ x.step \notin {"issue", "restore"}
    <3>1. p \in Owners /\ <<p, 0>> \in Logins /\ LiveWorkerOf(p) \in BOOLEAN
      BY <1>0, ProfileLoginType DEF Owners, LiveWorkerOf
    <3> DEFINE x == [cmd[c] EXCEPT !.step = "lock", !.label = <<p, 0>>,
                                   !.again = LiveWorkerOf(p)]
    <3>2. cmd' = [cmd EXCEPT ![c] = x]
      BY <1>0, <2>4, TypeFacts DEF BeginLock
    <3>3. x \in CommandRecords /\ x.step = "lock"
      BY <1>0, <3>1, TypeFacts DEF CommandRecords, Steps
    <3>4. QED BY <3>2, <3>3
  <2>5. ASSUME NEW a \in Cases, BeginClear(c, a)
        PROVE  \E x \in CommandRecords : cmd' = [cmd EXCEPT ![c] = x]
                                         /\ x.step \notin {"issue", "restore"}
    BY <1>0, <2>5, StepType DEF BeginClear, Steps
  <2>6. CASE Configure(c)
    BY <1>0, <2>6, StepType DEF Configure, Steps
  <2>7. QED BY <2>1, <2>2, <2>3, <2>4, <2>5, <2>6
<1>2. cmd[c].step \notin {"deliver", "halt"} /\ UNCHANGED <<conn, print, box, worker, held>>
  <2>1. cmd[c] = Resting \/ cmd[c].step \in {"inspect", "configure"}
    BY DEF BeginProxy, InspectBox, Configure, BeginRekey, BeginLock, BeginClear
  <2>2. cmd[c].step \in {"idle", "inspect", "configure"}
    BY <1>0, <2>1, RestingType
  <2>3. UNCHANGED <<conn, print, box, worker, held>>
    BY DEF BeginProxy, InspectBox, Configure, BeginRekey, BeginLock, BeginClear
  <2>4. QED BY <2>2, <2>3
<1>3. QED BY <1>1, <1>2, CommandGoesOn

\* A launch or restart looks at the proxy.
LEMMA LooksInv ==
  ASSUME ContainerInv, NEW c \in Commands,
         \/ \E sel \in Profiles \cup {Host} : BeginRun(c, sel)
         \/ Reconnect(c) \/ BeginRestart(c)
         \/ \E id \in {<<o, conn[o]>> : o \in Profiles \cup Cases} \cup {Nobody} : BeginLaunch(c, id)
  PROVE  ContainerInv'
<1>0. TypesInv /\ LabelInv
  BY DEF ContainerInv
<1>1. Serves /\ UNCHANGED <<conn, print, box, worker, held>>
      /\ cmd[c].step \notin {"deliver", "halt"}
  BY DEF BeginRun, Reconnect, BeginRestart, BeginLaunch, Resting
<1>2. box # NoBox /\ SeenProfile = ServedProfile /\ SeenProfile \in Logins \cup {Nobody}
  BY <1>0, <1>1, SeenIsServed, TypeFacts DEF ServedProfile
<1>3. PICK x \in CommandRecords :
        /\ cmd' = [cmd EXCEPT ![c] = x]
        /\ x.step = "issue" => x.profile = SeenProfile
        /\ x.step = "restore" => worker # NoWorker /\ worker.profile = SeenProfile
  <2> DEFINE P(x) == /\ x \in CommandRecords /\ cmd' = [cmd EXCEPT ![c] = x]
                     /\ x.step = "issue" => x.profile = SeenProfile
                     /\ x.step = "restore" => worker # NoWorker /\ worker.profile = SeenProfile
  <2>1. ASSUME NEW sel \in Profiles \cup {Host}, BeginRun(c, sel) PROVE \E x : P(x)
    <3>1. CASE cmd' = [cmd EXCEPT ![c].step = "recreate"]
      <4>1. P([cmd[c] EXCEPT !.step = "recreate"])
        BY <1>0, <3>1, StepType, TypeFacts DEF Steps
      <4>2. QED BY <4>1
    <3>2. CASE cmd' = [cmd EXCEPT ![c].step = "issue", ![c].profile = SeenProfile]
      <4> DEFINE x == [cmd[c] EXCEPT !.step = "issue", !.profile = SeenProfile]
      <4>1. x \in CommandRecords /\ x.step = "issue" /\ x.profile = SeenProfile
        BY <1>0, <1>2, TypeFacts DEF CommandRecords, Steps
      <4>2. cmd' = [cmd EXCEPT ![c] = x]
        BY <1>0, <3>2, TypeFacts
      <4>3. QED BY <4>1, <4>2
    <3>3. QED BY <2>1, <3>1, <3>2 DEF BeginRun
  <2>2. CASE Reconnect(c)
    <3> DEFINE x == [Resting EXCEPT !.step = "issue", !.profile = SeenProfile]
    <3>1. x \in CommandRecords /\ x.step = "issue" /\ x.profile = SeenProfile
      BY <1>0, <1>2, RestingType DEF CommandRecords, Steps
    <3>2. cmd' = [cmd EXCEPT ![c] = x]
      BY <2>2 DEF Reconnect
    <3>3. QED BY <3>1, <3>2
  <2>3. CASE BeginRestart(c)
    <3>1. P([cmd[c] EXCEPT !.step = "restore"])
      BY <1>0, <2>3, StepType, TypeFacts DEF Steps, BeginRestart, SameProfile
    <3>2. QED BY <3>1
  <2>4. ASSUME NEW id \in {<<o, conn[o]>> : o \in Profiles \cup Cases} \cup {Nobody},
               BeginLaunch(c, id)
        PROVE  \E x : P(x)
    <3>1. id \in Logins \cup {Nobody}
      BY <1>0, ProfileLoginType DEF Owners
    <3> DEFINE x == [cmd[c] EXCEPT !.step = "issue", !.profile = SeenProfile, !.ident = id]
    <3>2. x \in CommandRecords /\ x.step = "issue" /\ x.profile = SeenProfile
      BY <1>0, <1>2, <3>1, TypeFacts DEF CommandRecords, Steps
    <3>3. cmd' = [cmd EXCEPT ![c] = x]
      BY <1>0, <2>4, TypeFacts DEF BeginLaunch
    <3>4. QED BY <3>2, <3>3
  <2>5. QED BY <2>1, <2>2, <2>3, <2>4
<1>4. QED BY <1>1, <1>2, <1>3, CommandGoesOn

-----------------------------------------------------------------------------
(* The container.                                                           *)

\* A container is removed by `proxy rm', or by a command that replaces it.
LEMMA RemovesInv ==
  ASSUME ContainerInv,
         \/ \E force \in BOOLEAN : ProxyRemoved(force)
         \/ \E c \in Commands : ReplaceBox(c) \/ RecreateBox(c) \/ ClearBox(c)
  PROVE  ContainerInv'
<1>0. TypesInv /\ cmd \in [Commands -> CommandRecords]
  BY DEF ContainerInv, TypesInv
<1>1. ASSUME NEW c \in Commands, NEW x \in CommandRecords, x.step # "restore",
             Removed([cmd EXCEPT ![c] = x]), UNCHANGED <<conn, print, worker>>
      PROVE  ContainerInv'
  <2> DEFINE next == [cmd EXCEPT ![c] = x]
  <2>1. next \in [Commands -> CommandRecords]
        /\ \A d \in Commands : next[d].step = "restore" => cmd[d].step = "restore"
    BY <1>0, <1>1
  <2>2. Removed(next)
    BY <1>1
  <2> HIDE DEF next
  <2>3. QED BY <1>1, <2>1, <2>2, ContainerGoes
<1>2. CASE \E force \in BOOLEAN : ProxyRemoved(force)
  <2>1. Removed(cmd) /\ UNCHANGED <<conn, print, worker>>
    BY <1>2 DEF ProxyRemoved
  <2>2. QED BY <1>0, <2>1, ContainerGoes
<1>3. ASSUME NEW c \in Commands, ReplaceBox(c) PROVE ContainerInv'
  <2>1. Removed([cmd EXCEPT ![c] = [cmd[c] EXCEPT !.step = "configure"]])
        /\ UNCHANGED <<conn, print, worker>>
    BY <1>0, <1>3 DEF ReplaceBox
  <2>2. [cmd[c] EXCEPT !.step = "configure"] \in CommandRecords
        /\ [cmd[c] EXCEPT !.step = "configure"].step = "configure"
    BY <1>0, StepType DEF Steps
  <2>3. QED BY <1>1, <2>1, <2>2
<1>4. ASSUME NEW c \in Commands, RecreateBox(c) PROVE ContainerInv'
  <2>1. Removed([cmd EXCEPT ![c] = [SpecOf(Host) EXCEPT !.again = TRUE]])
        /\ UNCHANGED <<conn, print, worker>>
    BY <1>4 DEF RecreateBox
  <2>2. [SpecOf(Host) EXCEPT !.again = TRUE] \in CommandRecords
        /\ [SpecOf(Host) EXCEPT !.again = TRUE].step = "inspect"
    BY <1>0, SpecOfType, TypeFacts
  <2>3. QED BY <1>1, <2>1, <2>2
<1>5. ASSUME NEW c \in Commands, ClearBox(c) PROVE ContainerInv'
  <2>1. Removed([cmd EXCEPT ![c] = Resting]) /\ UNCHANGED <<conn, print, worker>>
    BY <1>5 DEF ClearBox
  <2>2. QED BY <1>0, <1>1, <2>1, RestingType
<1>6. QED BY <1>2, <1>3, <1>4, <1>5

\* A profile command removes a stopped container before it draws a new key.
LEMMA DropBoxInv ==
  ASSUME ContainerInv, NEW c \in Commands, DropBox(c)
  PROVE  ContainerInv'
<1>0. TypesInv /\ cmd \in [Commands -> CommandRecords]
  BY DEF ContainerInv, TypesInv
<1>1. /\ [cmd[c] EXCEPT !.step = "rekey"] \in CommandRecords
      /\ [cmd[c] EXCEPT !.step = "rekey"].step = "rekey"
  BY <1>0, StepType DEF Steps
<1>2. UNCHANGED <<conn, print, worker>> /\ cmd[c].step = "drop"
  BY DEF DropBox
<1>3. CASE GoTo(c, "rekey") /\ UNCHANGED <<box, held>>
  <2>1. cmd' = [cmd EXCEPT ![c] = [cmd[c] EXCEPT !.step = "rekey"]]
    BY <1>0, <1>3 DEF GoTo
  <2>2. QED BY <1>1, <1>2, <1>3, <2>1, CommandGoesOn
<1>4. CASE Removed([cmd EXCEPT ![c].step = "rekey"])
  <2> DEFINE next == [cmd EXCEPT ![c] = [cmd[c] EXCEPT !.step = "rekey"]]
  <2>1. next \in [Commands -> CommandRecords]
        /\ \A d \in Commands : next[d].step = "restore" => cmd[d].step = "restore"
    BY <1>0, <1>1
  <2>2. Removed(next)
    BY <1>0, <1>4
  <2> HIDE DEF next
  <2>3. QED BY <1>2, <2>1, <2>2, ContainerGoes
<1>5. QED BY <1>3, <1>4 DEF DropBox

\* A container stops: by itself, after a failed delivery, or as its profile is
\* locked.
LEMMA StopsInv ==
  ASSUME ContainerInv, BoxExits \/ \E c \in Commands : HaltBox(c) \/ LockBox(c)
  PROVE  ContainerInv'
<1>0. TypesInv
  BY DEF ContainerInv
<1>1. CASE BoxExits
  <2>1. box # NoBox /\ box' = Stopped(box) /\ held' = "none"
        /\ UNCHANGED <<conn, print, worker, cmd>>
    BY <1>1 DEF BoxExits, Runs
  <2>2. QED BY <2>1, ContainerStops
<1>2. ASSUME NEW c \in Commands, HaltBox(c) PROVE ContainerInv'
  <2>1. EndCommand(c) /\ UNCHANGED <<conn, print, worker>>
    BY <1>2 DEF HaltBox
  <2>2. CASE Target(c)
    <3>1. box # NoBox /\ box' = Stopped(box) /\ held' = "none"
      BY <1>2, <2>2 DEF HaltBox, Halted, Target
    <3>2. QED BY <2>1, <3>1, ContainerStops
  <2>3. CASE ~Target(c)
    <3>1. UNCHANGED <<box, held>> /\ cmd' = [cmd EXCEPT ![c] = Resting]
      BY <1>2, <2>1, <2>3 DEF HaltBox, EndCommand
    <3>2. QED BY <1>0, <2>1, <2>3, <3>1, RestingType, CommandGoesOn
  <2>4. QED BY <2>2, <2>3
<1>3. ASSUME NEW c \in Commands, LockBox(c) PROVE ContainerInv'
  <2>1. /\ EndCommand(c) /\ UNCHANGED <<conn, print>> /\ cmd[c].step = "lock"
        /\ \/ worker' = worker
           \/ worker # NoWorker /\ worker' = [worker EXCEPT !.running = FALSE]
    BY <1>3 DEF LockBox
  <2>2. CASE box # NoBox /\ ~cmd[c].moved
    <3>1. box # NoBox /\ box' = Stopped(box) /\ held' = "none"
      BY <1>3, <2>2 DEF LockBox
    <3>2. QED BY <2>1, <3>1, ContainerStops
  <2>3. CASE ~(box # NoBox /\ ~cmd[c].moved)
    <3>1. UNCHANGED <<box, held>>
      BY <1>3, <2>3 DEF LockBox
    <3>2. /\ cmd'[c].step = "idle"
          /\ cmd' \in [Commands -> CommandRecords]
          /\ \A d \in Commands \ {c} : cmd'[d] = cmd[d]
      BY <1>0, <2>1, TypeFacts, RestingType DEF EndCommand
    <3>3. /\ worker' \in WorkerRecords \cup {NoWorker}
          /\ worker # NoWorker => /\ worker' # NoWorker /\ worker'.profile = worker.profile
                                  /\ worker'.ident = worker.ident
      BY <1>0, <2>1, TypeFacts DEF WorkerRecords
    <3>4. TypesInv'
      BY <1>0, <2>1, <3>1, <3>2, <3>3 DEF TypesInv, ProxyTypeOK, CommandRecords
    <3>5. LookInv'
      BY <3>1, <3>2, <3>3 DEF ContainerInv, LookInv, ServedProfile, Owner
    <3>6. TendedInv'
      BY <2>1, <3>1, <3>2 DEF ContainerInv, TendedInv, Target
    <3>7. HeldInv' /\ TokensStayWithLogin' /\ LabelInv'
      BY <2>1, <3>1, <3>3
         DEF ContainerInv, HeldInv, TokensStayWithLogin, LabelInv, Serves, Owner, SeenProfile
    <3>8. QED BY <3>4, <3>5, <3>6, <3>7 DEF ContainerInv
  <2>4. QED BY <2>2, <2>3
<1>4. QED BY <1>1, <1>2, <1>3

\* A container is created for the login that was opened.
LEMMA CreateProxyBoxInv ==
  ASSUME ContainerInv, ConfiguredInv, NEW c \in Commands, CreateProxyBox(c)
  PROVE  ContainerInv'
<1>0. TypesInv /\ held = "none"
  BY DEF ContainerInv, HeldInv, Serves, CreateProxyBox
<1>1. /\ cmd[c].step = "create" /\ box = NoBox /\ UNCHANGED <<conn, print, worker, held>>
      /\ box' = [label |-> cmd[c].label, print |-> cmd[c].print, old |-> FALSE,
                 left |-> FALSE, run |-> "stopped", opened |-> NeverRead]
  BY DEF CreateProxyBox
<1>2. /\ box' \in ProxyBoxes /\ box'.run = "stopped" /\ Owner(box)' = cmd[c].label[1]
      /\ box'.label[2] = cmd[c].label[2] /\ box'.print = cmd[c].print
  <2>1. NeverRead \in Versions \X Versions
    BY ProxyAssumption DEF NeverRead, Versions
  <2>2. cmd[c].label \in Logins /\ cmd[c].print \in Versions
    BY <1>0, TypeFacts DEF CommandRecords
  <2>3. QED BY <1>1, <2>1, <2>2 DEF ProxyBoxes, Owner
<1>3. /\ cmd' \in [Commands -> CommandRecords] /\ cmd'[c].step = "start"
      /\ \A d \in Commands \ {c} : cmd'[d] = cmd[d]
  <2> DEFINE x == [cmd[c] EXCEPT !.step = "start", !.own = TRUE, !.moved = FALSE]
  <2>1. x \in CommandRecords /\ x.step = "start"
    BY <1>0, TypeFacts DEF CommandRecords, Steps
  <2>2. cmd' = [cmd EXCEPT ![c] = x]
    BY <1>0, TypeFacts DEF CreateProxyBox
  <2>3. QED BY <1>0, <2>1, <2>2, TypeFacts
<1>4. TypesInv'
  BY <1>0, <1>1, <1>2, <1>3 DEF TypesInv, ProxyTypeOK, CommandRecords
<1>5. LabelInv'
  BY <1>1, <1>2 DEF LabelInv, ConfiguredInv, Serves
<1>6. LookInv'
  BY <1>1, <1>3 DEF ContainerInv, LookInv
<1>7. HeldInv' /\ TokensStayWithLogin' /\ TendedInv'
  BY <1>0, <1>1, <1>2 DEF HeldInv, TokensStayWithLogin, TendedInv
<1>8. QED BY <1>4, <1>5, <1>6, <1>7 DEF ContainerInv

\* A container that does not serve becomes b, of the same labels; whoever has to
\* tend b is at hand.
LEMMA ContainerBecomes ==
  ASSUME ContainerInv, box # NoBox, ~Serves, NEW b \in ProxyBoxes, box' = b,
         UNCHANGED <<conn, print, worker, held>>,
         b.label = box.label, b.print = box.print,
         b.run = "serving" /\ Owner(box) \in Profiles => b.opened[1] = box.label[2],
         NEW c \in Commands, NEW x \in CommandRecords, cmd' = [cmd EXCEPT ![c] = x],
         x.step \notin {"issue", "restore"},
         b.run = "waiting" /\ ~b.left => x.step = "deliver" /\ (x.own => ~x.moved)
  PROVE  ContainerInv'
<1>0. TypesInv /\ held = "none"
  BY DEF ContainerInv, HeldInv
<1>1. /\ cmd' \in [Commands -> CommandRecords] /\ cmd'[c] = x
      /\ \A d \in Commands \ {c} : cmd'[d] = cmd[d]
  BY <1>0, TypeFacts
<1>2. TypesInv'
  BY <1>0, <1>1 DEF TypesInv, ProxyTypeOK, CommandRecords
<1>3. LabelInv'
  BY DEF ContainerInv, LabelInv, Serves, Owner
<1>4. LookInv'
  BY <1>0, <1>1, TypeFacts DEF ContainerInv, LookInv, ServedProfile, Owner
<1>5. HeldInv' /\ TokensStayWithLogin'
  BY <1>0 DEF HeldInv, TokensStayWithLogin
<1>6. TendedInv'
  BY <1>1 DEF TendedInv, Target
<1>7. QED BY <1>2, <1>3, <1>4, <1>5, <1>6 DEF ContainerInv

\* What a command that awaits the proxy goes on with.
LEMMA AwaitEffect ==
  ASSUME TypesInv, NEW c \in Commands, Await(c)
  PROVE  \E x \in CommandRecords : cmd' = [cmd EXCEPT ![c] = x] /\ x.step \in {"idle", "wait"}
<1>1. CASE GoTo(c, "wait")
  <2>1. "wait" \in Steps
    BY DEF Steps
  <2>2. /\ [cmd[c] EXCEPT !.step = "wait"] \in CommandRecords
        /\ [cmd[c] EXCEPT !.step = "wait"].step = "wait"
        /\ cmd' = [cmd EXCEPT ![c] = [cmd[c] EXCEPT !.step = "wait"]]
    BY <1>1, <2>1, StepType
  <2>3. QED BY <2>2
<1>2. CASE EndCommand(c)
  BY <1>2, RestingType DEF EndCommand
<1>3. QED BY <1>1, <1>2 DEF Await

\* A command starts the container that it created, or that has the name.
LEMMA StartBoxInv ==
  ASSUME ContainerInv, NEW c \in Commands, StartBox(c)
  PROVE  ContainerInv'
<1>0. TypesInv /\ LabelInv
  BY DEF ContainerInv
<1>1. /\ cmd[c].step = "start" /\ box # NoBox /\ (cmd[c].own => ~cmd[c].moved)
      /\ UNCHANGED <<conn, print, worker, held>>
  BY DEF StartBox, Target
<1>2. PICK x \in CommandRecords :
        /\ cmd' = [cmd EXCEPT ![c] = x] /\ x.step \in {"idle", "wait", "deliver"}
        /\ cmd[c].print # 0 => x.step = "deliver" /\ (x.own => ~x.moved)
  <2>1. CASE cmd[c].print = 0
    <3>1. Await(c)
      BY <2>1 DEF StartBox
    <3>2. QED BY <1>0, <2>1, <3>1, AwaitEffect
  <2>2. CASE cmd[c].print # 0
    <3>1. GoTo(c, "deliver")
      BY <2>2 DEF StartBox
    <3>2. "deliver" \in Steps
      BY DEF Steps
    <3>3. /\ [cmd[c] EXCEPT !.step = "deliver"] \in CommandRecords
          /\ [cmd[c] EXCEPT !.step = "deliver"].step = "deliver"
          /\ [cmd[c] EXCEPT !.step = "deliver"].own = cmd[c].own
          /\ [cmd[c] EXCEPT !.step = "deliver"].moved = cmd[c].moved
          /\ cmd' = [cmd EXCEPT ![c] = [cmd[c] EXCEPT !.step = "deliver"]]
      BY <1>0, <3>1, <3>2, StepType
    <3>4. QED BY <1>1, <3>3
  <2>3. QED BY <2>1, <2>2
<1>3. CASE Runs
  <2>1. box' = box
    BY <1>3 DEF StartBox
  <2>2. QED BY <1>1, <1>2, <2>1, CommandGoesOn
<1>4. CASE ~Runs /\ box.print = 0
  <2> DEFINE b == Loaded(box, Host)
  <2>1. box' = b
    BY <1>4 DEF StartBox
  <2>2. /\ b \in ProxyBoxes /\ b.run \in {"stopped", "serving"}
        /\ b.label = box.label /\ b.print = box.print
        /\ b.run = "serving" /\ Owner(box) \in Profiles =>
             b.opened[1] = conn[Owner(box)] /\ (box.print = 0 <=> print[Owner(box)] = 0)
    BY <1>0, <1>1, LoadedEffect
  <2> HIDE DEF b
  <2>3. b.run = "serving" /\ Owner(box) \in Profiles => b.opened[1] = box.label[2]
    BY <1>0, <1>1, <2>2 DEF LabelInv
  <2>4. ~Serves
    BY <1>4 DEF Serves, Runs
  <2>5. QED BY <1>1, <1>2, <2>1, <2>2, <2>3, <2>4, ContainerBecomes
<1>5. CASE ~Runs /\ box.print # 0
  <2> DEFINE b == [box EXCEPT !.run = "waiting", !.left = box.left \/ ~Agrees(c)]
  <2>1. box' = b
    BY <1>5 DEF StartBox
  <2>2. /\ b \in ProxyBoxes /\ b.run = "waiting" /\ b.label = box.label /\ b.print = box.print
        /\ ~b.left => Agrees(c)
    <3>1. box \in ProxyBoxes /\ (box.left \/ ~Agrees(c)) \in BOOLEAN
      BY <1>0, <1>1, TypeFacts DEF ProxyBoxes
    <3>2. QED BY <3>1 DEF ProxyBoxes
  <2>3. ~b.left => cmd[c].print # 0
    BY <1>5, <2>2 DEF Agrees
  <2> HIDE DEF b
  <2>4. ~Serves
    BY <1>5 DEF Serves, Runs
  <2>5. QED BY <1>1, <1>2, <2>1, <2>2, <2>3, <2>4, ContainerBecomes
<1>6. QED BY <1>3, <1>4, <1>5

\* A key is delivered to a container that waits for one.
LEMMA DeliverInv ==
  ASSUME ContainerInv, NEW c \in Commands, Deliver(c)
  PROVE  ContainerInv'
<1>0. TypesInv /\ LabelInv
  BY DEF ContainerInv
<1>1. /\ cmd[c].step = "deliver" /\ box # NoBox /\ UNCHANGED <<conn, print, worker, held>>
      /\ cmd' = [cmd EXCEPT ![c] = Resting]
      /\ Resting \in CommandRecords /\ Resting.step = "idle"
  BY <1>0, RestingType DEF Deliver, Target, EndCommand
<1>2. CASE box.run = "waiting"
  <2> DEFINE b == Loaded(box, cmd[c].label[1])
  <2>1. box' = b
    BY <1>2 DEF Deliver
  <2>2. /\ b \in ProxyBoxes /\ b.run \in {"stopped", "serving"}
        /\ b.label = box.label /\ b.print = box.print
        /\ b.run = "serving" /\ Owner(box) \in Profiles =>
             b.opened[1] = conn[Owner(box)] /\ (box.print = 0 <=> print[Owner(box)] = 0)
    BY <1>0, <1>1, LoadedEffect
  <2> HIDE DEF b
  <2>3. b.run = "serving" /\ Owner(box) \in Profiles => b.opened[1] = box.label[2]
    BY <1>0, <1>1, <2>2 DEF LabelInv
  <2>4. ~Serves
    BY <1>2 DEF Serves
  <2>5. QED BY <1>1, <2>1, <2>2, <2>3, <2>4, ContainerBecomes
<1>3. CASE box.run # "waiting"
  <2>1. box' = box
    BY <1>3 DEF Deliver
  <2>2. TypesInv'
    BY <1>0, <1>1, <2>1, TypeFacts DEF TypesInv, ProxyTypeOK, CommandRecords
  <2>3. \A d \in Commands : cmd'[d] = cmd[d] \/ cmd'[d].step = "idle"
    BY <1>0, <1>1, TypeFacts
  <2>4. LookInv'
    BY <1>1, <2>1, <2>3 DEF ContainerInv, LookInv, ServedProfile, Owner
  <2>5. TendedInv'
    BY <1>3, <2>1 DEF TendedInv
  <2>6. LabelInv' /\ HeldInv' /\ TokensStayWithLogin'
    BY <1>1, <2>1 DEF ContainerInv, LabelInv, HeldInv, TokensStayWithLogin, Serves, Owner,
                      SeenProfile
  <2>7. QED BY <2>2, <2>4, <2>5, <2>6 DEF ContainerInv
<1>4. QED BY <1>2, <1>3

\* A delivery fails, or a command gives up and leaves what it tended.
LEMMA GivesUpInv ==
  ASSUME ContainerInv, NEW c \in Commands, DeliveryFails(c) \/ GiveUp(c)
  PROVE  ContainerInv'
<1>0. TypesInv
  BY DEF ContainerInv
<1>1. CASE DeliveryFails(c)
  <2>1. cmd' = [cmd EXCEPT ![c] = [cmd[c] EXCEPT !.step = "halt"]]
        /\ UNCHANGED <<conn, print, box, worker, held>>
    BY <1>0, <1>1, TypeFacts DEF DeliveryFails, GoTo
  <2>2. /\ [cmd[c] EXCEPT !.step = "halt"] \in CommandRecords
        /\ [cmd[c] EXCEPT !.step = "halt"].step = "halt"
        /\ [cmd[c] EXCEPT !.step = "halt"].own = cmd[c].own
        /\ [cmd[c] EXCEPT !.step = "halt"].moved = cmd[c].moved
    BY <1>0, StepType DEF Steps
  <2>3. QED BY <2>1, <2>2, CommandGoesOn
<1>2. CASE GiveUp(c) /\ Tends(c)
  <2>1. /\ box # NoBox /\ box' = [box EXCEPT !.left = TRUE]
        /\ UNCHANGED <<conn, print, worker, held>>
    BY <1>2 DEF GiveUp, Tends, Target
  <2>2. /\ box' \in ProxyBoxes /\ box' # NoBox /\ box'.left /\ box'.label = box.label
        /\ box'.print = box.print /\ box'.run = box.run /\ box'.opened = box.opened
    BY <1>0, <2>1, TypeFacts DEF ProxyBoxes
  <2>3. /\ cmd' \in [Commands -> CommandRecords]
        /\ \A d \in Commands : cmd'[d] = cmd[d] \/ cmd'[d].step = "idle"
    BY <1>0, <1>2, TypeFacts, RestingType DEF GiveUp, EndCommand
  <2>4. TypesInv'
    BY <1>0, <2>1, <2>2, <2>3 DEF TypesInv, ProxyTypeOK, CommandRecords
  <2>5. LookInv'
    BY <2>1, <2>2, <2>3 DEF ContainerInv, LookInv, ServedProfile, Owner
  <2>6. LabelInv' /\ HeldInv' /\ TokensStayWithLogin' /\ TendedInv'
    BY <2>1, <2>2 DEF ContainerInv, LabelInv, HeldInv, TokensStayWithLogin, TendedInv, Serves,
                      Owner, SeenProfile
  <2>7. QED BY <2>4, <2>5, <2>6 DEF ContainerInv
<1>3. CASE GiveUp(c) /\ ~Tends(c)
  <2>1. cmd' = [cmd EXCEPT ![c] = Resting] /\ UNCHANGED <<conn, print, box, worker, held>>
    BY <1>3 DEF GiveUp, EndCommand
  <2>2. cmd[c].step \notin {"deliver", "halt"} \/ ~Target(c)
    BY <1>3 DEF Tends
  <2>3. QED BY <1>0, <2>1, <2>2, RestingType, CommandGoesOn
<1>4. QED BY <1>1, <1>2, <1>3

-----------------------------------------------------------------------------
(* The workers, their tokens and the logins.                                *)

\* What the proxy accepts, and for whom.
LEMMA AcceptedIsOwned ==
  ASSUME TypesInv, NEW id, Accepts(id)
  PROVE  /\ Serves
         /\ id = Nobody => Owner(box) \notin Cases
         /\ id # Nobody /\ Owner(box) # Host => id = <<Owner(box), box.opened[1]>>
<1>1. Serves /\ box # NoBox /\ ScopeAllows(id)
  BY DEF Accepts, Serves
<1>2. Owner(box) \in Owners /\ <<Owner(box), box.opened[1]>> \in Logins /\ Nobody \notin Logins
  BY <1>1, TypeFacts DEF Logins
<1>3. QED BY <1>1, <1>2 DEF ScopeAllows, Owners

\* A token is placed for a worker, at a launch or at a restart.
LEMMA PlacesInv ==
  ASSUME ContainerInv, NEW c \in Commands, Issue(c) \/ Restore(c)
  PROVE  ContainerInv'
<1>0. TypesInv /\ LabelInv /\ LookInv
  BY DEF ContainerInv
<1>1. /\ UNCHANGED <<conn, print, box>> /\ Serves /\ box # NoBox
      /\ held' = IF cmd[c].moved THEN "blind" ELSE "placed"
      /\ cmd' = [cmd EXCEPT ![c] = Resting]
  BY DEF Issue, Restore, Accepts, Serves, Place, EndCommand
<1>2. /\ cmd' \in [Commands -> CommandRecords] /\ cmd'[c].step = "idle"
      /\ \A d \in Commands \ {c} : cmd'[d] = cmd[d]
  BY <1>0, <1>1, TypeFacts, RestingType
<1>3. /\ worker' \in WorkerRecords /\ worker' # NoWorker /\ Accepts(worker'.ident)
      /\ ~cmd[c].moved => worker'.profile = ServedProfile
      /\ \A d \in Commands : cmd[d].step = "restore" =>
           worker # NoWorker /\ worker'.profile = worker.profile
  <2>1. CASE Issue(c)
    <3>1. /\ cmd[c].step = "issue" /\ worker = NoWorker /\ Accepts(cmd[c].ident)
          /\ worker' = [profile |-> cmd[c].profile, ident |-> cmd[c].ident, running |-> TRUE]
      BY <2>1 DEF Issue
    <3>2. cmd[c].profile \in Logins \cup {Nobody} /\ cmd[c].ident \in Logins \cup {Nobody}
      BY <1>0, TypeFacts DEF CommandRecords
    <3>3. /\ worker' \in WorkerRecords /\ worker'.ident = cmd[c].ident
          /\ worker'.profile = cmd[c].profile
      BY <3>1, <3>2 DEF WorkerRecords
    <3>4. QED BY <1>0, <3>1, <3>3, TypeFacts DEF LookInv
  <2>2. CASE Restore(c)
    <3>1. /\ cmd[c].step = "restore" /\ Accepts(worker.ident) /\ worker # NoWorker
          /\ worker' = [worker EXCEPT !.running = TRUE]
      BY <1>0, <2>2 DEF Restore, LookInv
    <3>2. /\ worker' \in WorkerRecords /\ worker'.ident = worker.ident
          /\ worker'.profile = worker.profile
      BY <1>0, <3>1, TypeFacts DEF WorkerRecords
    <3>3. QED BY <1>0, <3>1, <3>2, TypeFacts DEF LookInv
  <2>3. QED BY <2>1, <2>2
<1>4. TypesInv'
  BY <1>0, <1>1, <1>2, <1>3 DEF TypesInv, ProxyTypeOK, CommandRecords
<1>5. LookInv'
  BY <1>0, <1>1, <1>2, <1>3 DEF LookInv, ServedProfile, Owner
<1>6. TendedInv'
  <2>1. cmd[c].step \notin {"deliver", "halt"}
    BY DEF Issue, Restore
  <2>2. QED BY <1>1, <1>2, <2>1 DEF ContainerInv, TendedInv, Target
<1>7. HeldInv' /\ LabelInv'
  BY <1>0, <1>1, <1>3 DEF HeldInv, LabelInv, Serves, Owner
<1>8. TokensStayWithLogin'
  <2>1. /\ worker'.ident = Nobody => Owner(box) \notin Cases
        /\ worker'.ident # Nobody /\ Owner(box) # Host =>
             worker'.ident = <<Owner(box), box.opened[1]>>
    BY <1>0, <1>3, AcceptedIsOwned
  <2>2. held' = "blind" \/ worker'.profile = SeenProfile
    BY <1>0, <1>1, <1>3, SeenIsServed
  <2>3. Owner(box)' = Owner(box) /\ SeenProfile' = SeenProfile /\ box' = box
    BY <1>1 DEF Owner, SeenProfile
  <2>4. QED BY <2>1, <2>2, <2>3 DEF TokensStayWithLogin
<1>9. QED BY <1>4, <1>5, <1>6, <1>7, <1>8 DEF ContainerInv

\* A proxy whose login was replaced revokes; a worker stops or is removed.
LEMMA RevokesInv ==
  ASSUME ContainerInv, StaleProxy \/ WorkerStops \/ WorkerRemoved
  PROVE  ContainerInv'
<1>0. TypesInv /\ LookInv
  BY DEF ContainerInv
<1>1. UNCHANGED <<conn, print, box, cmd>> /\ held' \in {"none", held}
  BY DEF StaleProxy, WorkerStops, WorkerRemoved
<1>2. /\ worker' \in WorkerRecords \cup {NoWorker}
      /\ \/ held' = "none"
         \/ /\ worker # NoWorker /\ worker' # NoWorker
            /\ worker'.profile = worker.profile /\ worker'.ident = worker.ident
      /\ \A d \in Commands : cmd[d].step = "restore" /\ worker # NoWorker =>
           worker' # NoWorker /\ worker'.profile = worker.profile
  <2>1. CASE StaleProxy
    BY <1>0, <2>1, TypeFacts DEF StaleProxy
  <2>2. CASE WorkerStops
    <3>1. worker # NoWorker /\ worker' = [worker EXCEPT !.running = FALSE]
      BY <2>2 DEF WorkerStops
    <3>2. QED BY <1>0, <3>1, TypeFacts DEF WorkerRecords
  <2>3. CASE WorkerRemoved
    BY <1>0, <2>3, TypeFacts DEF WorkerRemoved, LifecycleFree
  <2>4. QED BY <2>1, <2>2, <2>3
<1>3. TypesInv'
  BY <1>0, <1>1, <1>2 DEF TypesInv, ProxyTypeOK, CommandRecords
<1>4. LookInv'
  BY <1>0, <1>1, <1>2 DEF LookInv, ServedProfile, Owner
<1>5. HeldInv'
  BY <1>1, <1>2 DEF ContainerInv, HeldInv, Serves
<1>6. TokensStayWithLogin'
  BY <1>1, <1>2 DEF ContainerInv, TokensStayWithLogin, Serves, Owner, SeenProfile
<1>7. LabelInv' /\ TendedInv'
  BY <1>1 DEF ContainerInv, LabelInv, TendedInv, Serves, Owner, Target
<1>8. QED BY <1>3, <1>4, <1>5, <1>6, <1>7 DEF ContainerInv

\* A profile gets another key, which leaves no encrypted container of it behind
\* that would still be plain.
LEMMA RekeyInv ==
  ASSUME ContainerInv, NEW c \in Commands, Rekey(c)
  PROVE  ContainerInv'
<1>0. TypesInv /\ LabelInv
  BY DEF ContainerInv
<1> DEFINE p == cmd[c].label[1]
<1>1. p \in Owners
  BY <1>0, TypeFacts
<1>2. PICK v \in NewVersions :
        /\ print' = [print EXCEPT ![p] = v]
        /\ conn' = IF print[p] = 0 THEN [conn EXCEPT ![p] = v] ELSE conn
  BY DEF Rekey
<1>3. /\ UNCHANGED <<box, worker, held>> /\ cmd[c].step = "rekey"
      /\ cmd' = [cmd EXCEPT ![c] = Resting]
  BY DEF Rekey, EndCommand
<1>4. v \in Versions /\ v # 0
  <2>1. v \in Versions /\ conn[Host] < v /\ conn[Host] \in Versions
    BY <1>0, <1>2, TypeFacts DEF NewVersions
  <2>2. QED BY <2>1, ProxyAssumption DEF Versions
<1>5. /\ conn' \in [Owners -> Versions] /\ print' \in [Owners -> Versions]
      /\ print'[p] # 0 /\ (print[p] # 0 => conn' = conn)
      /\ \A o \in Owners \ {p} : conn'[o] = conn[o] /\ print'[o] = print[o]
  BY <1>0, <1>1, <1>2, <1>4, TypeFacts
<1>6. /\ cmd' \in [Commands -> CommandRecords] /\ cmd'[c].step = "idle"
      /\ \A d \in Commands \ {c} : cmd'[d] = cmd[d]
  BY <1>0, <1>3, TypeFacts, RestingType
<1> HIDE DEF p
<1>7. TypesInv'
  BY <1>0, <1>3, <1>5, <1>6 DEF TypesInv, ProxyTypeOK, CommandRecords
<1>8. LabelInv'
  BY <1>0, <1>3, <1>5, TypeFacts DEF LabelInv, Serves, Owner
<1>9. LookInv'
  BY <1>3, <1>6 DEF ContainerInv, LookInv, ServedProfile, Owner
<1>10. HeldInv' /\ TokensStayWithLogin'
  BY <1>3 DEF ContainerInv, HeldInv, TokensStayWithLogin, Serves, Owner, SeenProfile
<1>11. TendedInv'
  BY <1>3, <1>6 DEF ContainerInv, TendedInv, Target
<1>12. QED BY <1>7, <1>8, <1>9, <1>10, <1>11 DEF ContainerInv

\* The login of a case is replaced.
LEMMA NewCaseLoginInv ==
  ASSUME ContainerInv, NEW a \in Cases, NewCaseLogin(a)
  PROVE  ContainerInv'
<1>0. TypesInv /\ LabelInv
  BY DEF ContainerInv
<1>1. /\ UNCHANGED <<print, box, worker, held, cmd>>
      /\ \E v \in Versions : conn' = [conn EXCEPT ![a] = v]
  BY DEF NewCaseLogin, NewVersions
<1>2. a \in Owners /\ a \notin Profiles
  BY ProxyAssumption DEF Owners
<1>3. conn' \in [Owners -> Versions] /\ \A o \in Owners \ {a} : conn'[o] = conn[o]
  BY <1>0, <1>1, <1>2, TypeFacts
<1>4. TypesInv'
  BY <1>0, <1>1, <1>3 DEF TypesInv, ProxyTypeOK, CommandRecords
<1>5. LabelInv'
  BY <1>0, <1>1, <1>2, <1>3, TypeFacts DEF LabelInv, Serves, Owner
<1>6. LookInv' /\ HeldInv' /\ TokensStayWithLogin' /\ TendedInv'
  BY <1>1 DEF ContainerInv, LookInv, ServedProfile, Owner, HeldInv, TokensStayWithLogin,
              Serves, SeenProfile, TendedInv, Target
<1>7. QED BY <1>4, <1>5, <1>6 DEF ContainerInv

-----------------------------------------------------------------------------
(* The profile that a command has opened.                                   *)

\* A command that is not about to create a container changes nothing for those
\* that are.
LEMMA OthersConfigured ==
  ASSUME TypesInv, ConfiguredInv, UNCHANGED <<conn, print>>, NEW c \in Commands,
         NEW x \in CommandRecords, x.step # "create",
         cmd' = [cmd EXCEPT ![c] = x] \/ cmd' = Moved([cmd EXCEPT ![c] = x])
  PROVE  ConfiguredInv'
<1> DEFINE next == [cmd EXCEPT ![c] = x]
<1>1. next \in [Commands -> CommandRecords] /\ next[c] = x
      /\ \A d \in Commands \ {c} : next[d] = cmd[d]
  BY TypeFacts
<1>2. cmd' = next \/ cmd' = Moved(next)
  OBVIOUS
<1> HIDE DEF next
<1>3. \A d \in Commands : /\ cmd'[d].step = next[d].step /\ cmd'[d].label = next[d].label
                          /\ cmd'[d].print = next[d].print
  BY <1>1, <1>2 DEF Moved, CommandRecords
<1>4. \A d \in Commands : cmd'[d].step = "create" =>
        /\ cmd[d].step = "create" /\ cmd'[d].label = cmd[d].label
        /\ cmd'[d].print = cmd[d].print
  BY <1>1, <1>3
<1>5. QED BY <1>4 DEF ConfiguredInv

\* Only a step that has opened the profile leads to the creation.
LEMMA ConfiguredCommand ==
  ASSUME TypesInv, ConfiguredInv, NEW c \in Commands, CommandStep(c)
  PROVE  ConfiguredInv'
<1> DEFINE Next(x) == cmd' = [cmd EXCEPT ![c] = x] \/ cmd' = Moved([cmd EXCEPT ![c] = x])
           Leaves(x) == x \in CommandRecords /\ x.step # "create" /\ Next(x)
<1>1. ASSUME UNCHANGED <<conn, print>>, NEW x, Leaves(x) PROVE ConfiguredInv'
  BY <1>1, OthersConfigured
<1>2. ASSUME UNCHANGED <<conn, print>>, EndCommand(c) PROVE ConfiguredInv'
  BY <1>1, <1>2, RestingType DEF EndCommand
<1>3. ASSUME UNCHANGED <<conn, print>>, NEW s \in Steps \ {"create"},
             \/ GoTo(c, s)
             \/ cmd' = Moved([cmd EXCEPT ![c].step = s])
      PROVE  ConfiguredInv'
  <2>1. /\ [cmd[c] EXCEPT !.step = s] \in CommandRecords
        /\ [cmd[c] EXCEPT !.step = s].step = s
    BY StepType
  <2>2. [cmd EXCEPT ![c].step = s] = [cmd EXCEPT ![c] = [cmd[c] EXCEPT !.step = s]]
    BY TypeFacts
  <2>3. QED BY <1>1, <1>3, <2>1, <2>2 DEF GoTo
<1>4. CASE \E o \in Owners : BeginProxy(c, o)
  BY <1>1, <1>4, SpecOfType DEF BeginProxy
<1>5. CASE InspectBox(c)
  <2>1. UNCHANGED <<conn, print>>
        /\ (EndCommand(c) \/ \E s \in {"configure", "replace", "start", "wait"} : GoTo(c, s))
    BY <1>5 DEF InspectBox, Await
  <2>2. QED BY <1>2, <1>3, <2>1 DEF Steps
<1>6. CASE ReplaceBox(c)
  BY <1>3, <1>6 DEF ReplaceBox, Removed, Steps
<1>7. CASE Configure(c)
  <2>1. \A d \in Commands : /\ d # c => cmd'[d] = cmd[d]
                            /\ cmd'[d].label = cmd[d].label /\ cmd'[d].print = cmd[d].print
    <3>1. cmd' = [cmd EXCEPT ![c] = [cmd[c] EXCEPT !.step = "create"]]
      BY <1>7, StepType DEF Configure, Steps
    <3>2. QED BY <3>1, TypeFacts DEF CommandRecords
  <2>2. UNCHANGED <<conn, print>> /\ StillCurrent(c)
    BY <1>7 DEF Configure
  <2>3. QED BY <2>1, <2>2 DEF ConfiguredInv, StillCurrent
<1>8. CASE CreateProxyBox(c)
  <2> DEFINE x == [cmd[c] EXCEPT !.step = "start", !.own = TRUE, !.moved = FALSE]
  <2>1. x \in CommandRecords /\ x.step = "start"
    BY TypeFacts DEF CommandRecords, Steps
  <2>2. cmd' = [cmd EXCEPT ![c] = x] /\ UNCHANGED <<conn, print>>
    BY <1>8, TypeFacts DEF CreateProxyBox
  <2> HIDE DEF x
  <2>3. QED BY <1>1, <2>1, <2>2
<1>9. CASE StartBox(c)
  <2>1. UNCHANGED <<conn, print>>
        /\ (EndCommand(c) \/ \E s \in {"wait", "deliver"} : GoTo(c, s))
    BY <1>9 DEF StartBox, Await
  <2>2. QED BY <1>2, <1>3, <2>1 DEF Steps
<1>10. CASE Deliver(c) \/ HaltBox(c) \/ GiveUp(c) \/ Issue(c) \/ Restore(c) \/ LockBox(c)
  BY <1>2, <1>10 DEF Deliver, HaltBox, GiveUp, Issue, Restore, LockBox
<1>11. CASE \/ DeliveryFails(c) \/ BeginRestart(c) \/ DropBox(c)
            \/ \E a \in Cases : BeginClear(c, a)
  <2>1. UNCHANGED <<conn, print>>
        /\ \E s \in {"halt", "restore", "clear", "rekey"} :
             GoTo(c, s) \/ cmd' = Moved([cmd EXCEPT ![c].step = s])
    BY <1>11 DEF DeliveryFails, BeginRestart, BeginClear, DropBox, Removed
  <2>2. QED BY <1>3, <2>1 DEF Steps
<1>12. CASE \E sel \in Profiles \cup {Host} : BeginRun(c, sel)
  <2>1. CASE cmd' = [cmd EXCEPT ![c].step = "recreate"] /\ UNCHANGED <<conn, print>>
    BY <1>3, <2>1 DEF Steps, GoTo
  <2>2. CASE /\ cmd' = [cmd EXCEPT ![c].step = "issue", ![c].profile = SeenProfile]
             /\ UNCHANGED <<conn, print>> /\ Serves
    <3> DEFINE x == [cmd[c] EXCEPT !.step = "issue", !.profile = SeenProfile]
    <3>1. x \in CommandRecords /\ x.step = "issue"
      BY <2>2, SeenType, TypeFacts DEF CommandRecords, Steps
    <3>2. cmd' = [cmd EXCEPT ![c] = x]
      BY <2>2, TypeFacts
    <3> HIDE DEF x
    <3>3. QED BY <1>1, <2>2, <3>1, <3>2
  <2>3. QED BY <1>12, <2>1, <2>2 DEF BeginRun
<1>13. CASE RecreateBox(c)
  <2>1. [SpecOf(Host) EXCEPT !.again = TRUE] \in CommandRecords
        /\ [SpecOf(Host) EXCEPT !.again = TRUE].step = "inspect"
    BY SpecOfType, TypeFacts
  <2>2. UNCHANGED <<conn, print>>
        /\ cmd' = Moved([cmd EXCEPT ![c] = [SpecOf(Host) EXCEPT !.again = TRUE]])
    BY <1>13 DEF RecreateBox, Removed
  <2>3. QED BY <1>1, <2>1, <2>2
<1>14. CASE Reconnect(c)
  <2> DEFINE x == [Resting EXCEPT !.step = "issue", !.profile = SeenProfile]
  <2>1. x \in CommandRecords /\ x.step = "issue"
    BY <1>14, SeenType, RestingType DEF CommandRecords, Steps, Reconnect
  <2>2. cmd' = [cmd EXCEPT ![c] = x] /\ UNCHANGED <<conn, print>>
    BY <1>14 DEF Reconnect
  <2> HIDE DEF x
  <2>3. QED BY <1>1, <2>1, <2>2
<1>15. ASSUME NEW id \in {<<o, conn[o]>> : o \in Profiles \cup Cases} \cup {Nobody},
              BeginLaunch(c, id)
       PROVE  ConfiguredInv'
  <2>1. id \in Logins \cup {Nobody}
    BY ProfileLoginType DEF Owners
  <2> DEFINE x == [cmd[c] EXCEPT !.step = "issue", !.profile = SeenProfile, !.ident = id]
  <2>2. x \in CommandRecords /\ x.step = "issue"
    BY <1>15, <2>1, SeenType, TypeFacts DEF CommandRecords, Steps, BeginLaunch
  <2>3. cmd' = [cmd EXCEPT ![c] = x] /\ UNCHANGED <<conn, print>>
    BY <1>15, TypeFacts DEF BeginLaunch
  <2> HIDE DEF x
  <2>4. QED BY <1>1, <2>2, <2>3
<1>16. ASSUME NEW p \in Profiles, BeginRekey(c, p) PROVE ConfiguredInv'
  <2> DEFINE s == IF Mounts(p) THEN "drop" ELSE "rekey"
             x == [cmd[c] EXCEPT !.step = s, !.label = <<p, 0>>, !.print = print[p]]
  <2>1. p \in Owners /\ print[p] \in Versions /\ <<p, 0>> \in Logins
    BY TypeFacts, ProfileLoginType DEF Owners
  <2>2. cmd' = [cmd EXCEPT ![c] = x] /\ UNCHANGED <<conn, print>>
    BY <1>16, TypeFacts DEF BeginRekey
  <2>3. s \in Steps \ {"create"}
    BY DEF Steps
  <2> HIDE DEF s
  <2>4. x \in CommandRecords /\ x.step = s
    BY <2>1, <2>3, TypeFacts DEF CommandRecords
  <2> HIDE DEF x
  <2>5. QED BY <1>1, <2>2, <2>3, <2>4
<1>17. ASSUME NEW p \in Profiles, BeginLock(c, p) PROVE ConfiguredInv'
  <2> DEFINE x == [cmd[c] EXCEPT !.step = "lock", !.label = <<p, 0>>, !.again = LiveWorkerOf(p)]
  <2>1. p \in Owners /\ <<p, 0>> \in Logins /\ LiveWorkerOf(p) \in BOOLEAN
    BY ProfileLoginType DEF Owners, LiveWorkerOf
  <2>2. cmd' = [cmd EXCEPT ![c] = x] /\ UNCHANGED <<conn, print>>
    BY <1>17, TypeFacts DEF BeginLock
  <2>3. x \in CommandRecords /\ x.step = "lock"
    BY <2>1, TypeFacts DEF CommandRecords, Steps
  <2> HIDE DEF x
  <2>4. QED BY <1>1, <2>2, <2>3
<1>18. CASE Rekey(c)
  <2> DEFINE q == cmd[c].label[1]
  <2>1. PICK v \in NewVersions :
          /\ print' = [print EXCEPT ![q] = v]
          /\ conn' = IF print[q] = 0 THEN [conn EXCEPT ![q] = v] ELSE conn
    BY <1>18 DEF Rekey
  <2>2. v # 0
    <3>1. v \in Versions /\ conn[Host] < v /\ conn[Host] \in Versions
      BY <2>1, TypeFacts DEF NewVersions
    <3>2. QED BY <3>1, ProxyAssumption DEF Versions
  <2>3. /\ print'[q] # 0 /\ (print[q] # 0 => conn' = conn)
        /\ \A o \in Owners \ {q} : conn'[o] = conn[o] /\ print'[o] = print[o]
    BY <2>1, <2>2, TypeFacts
  <2>4. /\ cmd'[c].step = "idle" /\ \A d \in Commands \ {c} : cmd'[d] = cmd[d]
    BY <1>18, TypeFacts, RestingType DEF Rekey, EndCommand
  <2> HIDE DEF q
  <2>5. QED BY <2>3, <2>4, TypeFacts DEF ConfiguredInv
<1>19. CASE ClearBox(c)
  BY <1>1, <1>19, RestingType DEF ClearBox, Removed
<1>20. QED BY <1>4, <1>5, <1>6, <1>7, <1>8, <1>9, <1>10, <1>11, <1>12, <1>13, <1>14, <1>15,
              <1>16, <1>17, <1>18, <1>19 DEF CommandStep

\* What was opened stays the profile's login, or useless, until the creation.
LEMMA ConfiguredNextInv ==
  TypesInv /\ ConfiguredInv /\ [ProxyNext]_proxyVars => ConfiguredInv'
<1> SUFFICES ASSUME TypesInv, ConfiguredInv, [ProxyNext]_proxyVars PROVE ConfiguredInv'
  OBVIOUS
<1>1. ASSUME UNCHANGED <<conn, print, cmd>> PROVE ConfiguredInv'
  BY <1>1 DEF ConfiguredInv
<1>2. CASE BoxExits \/ StaleProxy \/ WorkerStops \/ WorkerRemoved \/ UNCHANGED proxyVars
  BY <1>1, <1>2 DEF BoxExits, StaleProxy, WorkerStops, WorkerRemoved, proxyVars
<1>3. CASE \E force \in BOOLEAN : ProxyRemoved(force)
  <2>1. UNCHANGED <<conn, print>> /\ cmd' = Moved(cmd) /\ cmd \in [Commands -> CommandRecords]
    BY <1>3, TypeFacts DEF ProxyRemoved, Removed
  <2>2. \A d \in Commands : /\ cmd'[d].step = cmd[d].step /\ cmd'[d].label = cmd[d].label
                            /\ cmd'[d].print = cmd[d].print
    BY <2>1 DEF Moved, CommandRecords
  <2>3. QED BY <2>1, <2>2 DEF ConfiguredInv
<1>4. ASSUME NEW a \in Cases, NewCaseLogin(a) PROVE ConfiguredInv'
  <2>1. UNCHANGED <<print, cmd>> /\ \A o \in Profiles : conn'[o] = conn[o]
    BY <1>4, TypeFacts, ProxyAssumption DEF NewCaseLogin, Owners
  <2>2. QED BY <2>1 DEF ConfiguredInv
<1>5. QED BY <1>2, <1>3, <1>4, ConfiguredCommand DEF ProxyNext

-----------------------------------------------------------------------------
(* The specification.                                                       *)

\* The invariant holds at first, whatever an earlier release left.
LEMMA ContainerInitInv == ProxyInit => ContainerInv
<1> SUFFICES ASSUME ProxyInit PROVE ContainerInv
  OBVIOUS
<1>1. held = "none" /\ worker = NoWorker /\ cmd = [c \in Commands |-> Resting]
  BY DEF ProxyInit
<1>2. /\ 0 \in Versions /\ 1 \in Versions /\ Host \in Owners /\ Host \notin Profiles
      /\ <<Host, 0>> \in Logins /\ <<0, 0>> \in Versions \X Versions
  BY ProxyAssumption DEF Versions, Owners, Logins
<1>3. /\ conn \in [Owners -> Versions] /\ print \in [Owners -> Versions]
  BY <1>2 DEF ProxyInit
<1>4. Resting \in CommandRecords /\ Resting.step = "idle"
  BY <1>2 DEF Resting, CommandRecords, Steps
<1>5. /\ box \in ProxyBoxes \cup {NoBox}
      /\ box # NoBox => Owner(box) = Host /\ box.run = "serving"
  <2>1. CASE box = NoBox
    BY <2>1
  <2>2. CASE box = [label |-> <<Host, 0>>, print |-> 0, old |-> TRUE, left |-> FALSE,
                    run |-> "serving", opened |-> <<0, 0>>]
    BY <1>2, <2>2 DEF ProxyBoxes, Owner
  <2>3. QED BY <2>1, <2>2 DEF ProxyInit
<1>6. TypesInv
  BY <1>1, <1>3, <1>4, <1>5 DEF TypesInv, ProxyTypeOK, CommandRecords
<1>7. LabelInv /\ HeldInv /\ TokensStayWithLogin /\ TendedInv
  BY <1>1, <1>2, <1>5 DEF LabelInv, HeldInv, TokensStayWithLogin, TendedInv
<1>8. LookInv
  BY <1>1, <1>4 DEF LookInv
<1>9. QED BY <1>6, <1>7, <1>8 DEF ContainerInv

\* A step that changes nothing.
LEMMA StutterInv ==
  ASSUME ContainerInv, UNCHANGED proxyVars
  PROVE  ContainerInv'
  BY DEF proxyVars, ContainerInv, TypesInv, ProxyTypeOK, LabelInv, LookInv, ServedProfile, Owner,
         HeldInv, TokensStayWithLogin, Serves, SeenProfile, TendedInv, Target

\* Every step preserves the invariant.
LEMMA ContainerNextInv ==
  ContainerInv /\ ConfiguredInv /\ [ProxyNext]_proxyVars => ContainerInv'
<1> SUFFICES ASSUME ContainerInv, ConfiguredInv, [ProxyNext]_proxyVars PROVE ContainerInv'
  OBVIOUS
<1>1. ASSUME NEW c \in Commands, CommandStep(c) PROVE ContainerInv'
  <2>1. CASE \/ \E o \in Owners : BeginProxy(c, o)
             \/ InspectBox(c) \/ Configure(c)
             \/ \E p \in Profiles : BeginRekey(c, p) \/ BeginLock(c, p)
             \/ \E a \in Cases : BeginClear(c, a)
    BY <2>1, BeginsInv
  <2>2. CASE \/ \E sel \in Profiles \cup {Host} : BeginRun(c, sel)
             \/ Reconnect(c) \/ BeginRestart(c)
             \/ \E id \in {<<o, conn[o]>> : o \in Profiles \cup Cases} \cup {Nobody} :
                  BeginLaunch(c, id)
    BY <2>2, LooksInv
  <2>3. CASE ReplaceBox(c) \/ RecreateBox(c) \/ ClearBox(c)
    BY <2>3, RemovesInv
  <2>4. CASE HaltBox(c) \/ LockBox(c)
    BY <2>4, StopsInv
  <2>5. CASE CreateProxyBox(c)
    BY <2>5, CreateProxyBoxInv
  <2>6. CASE StartBox(c)
    BY <2>6, StartBoxInv
  <2>7. CASE Deliver(c)
    BY <2>7, DeliverInv
  <2>8. CASE DeliveryFails(c) \/ GiveUp(c)
    BY <2>8, GivesUpInv
  <2>9. CASE Issue(c) \/ Restore(c)
    BY <2>9, PlacesInv
  <2>10. CASE DropBox(c)
    BY <2>10, DropBoxInv
  <2>11. CASE Rekey(c)
    BY <2>11, RekeyInv
  <2>12. QED BY <1>1, <2>1, <2>2, <2>3, <2>4, <2>5, <2>6, <2>7, <2>8, <2>9, <2>10, <2>11
              DEF CommandStep
<1>2. CASE StaleProxy \/ WorkerStops \/ WorkerRemoved
  BY <1>2, RevokesInv
<1>3. CASE \E force \in BOOLEAN : ProxyRemoved(force)
  BY <1>3, RemovesInv
<1>4. CASE BoxExits
  BY <1>4, StopsInv
<1>5. CASE \E a \in Cases : NewCaseLogin(a)
  BY <1>5, NewCaseLoginInv
<1>6. CASE UNCHANGED proxyVars
  BY <1>6, StutterInv
<1>7. QED BY <1>1, <1>2, <1>3, <1>4, <1>5, <1>6 DEF ProxyNext

\* The inductive invariant holds for every set of profiles, cases and commands.
THEOREM ContainerInvariance == ProxySpec => []ContainerInv
<1>1. ProxyInit => ContainerInv /\ ConfiguredInv
  <2>1. ProxyInit => ConfiguredInv
    BY DEF ProxyInit, ConfiguredInv, Resting
  <2>2. QED BY <2>1, ContainerInitInv
<1>2. ContainerInv /\ ConfiguredInv /\ [ProxyNext]_proxyVars
        => ContainerInv' /\ ConfiguredInv'
  BY ContainerNextInv, ConfiguredNextInv DEF ContainerInv
<1>3. QED BY <1>1, <1>2, PTL DEF ProxySpec

\* Type correctness: containers, workers and commands are what the types say.
THEOREM ProxyTypeCorrect == ProxySpec => []ProxyTypeOK
<1>1. ContainerInv => ProxyTypeOK
  BY DEF ContainerInv, TypesInv
<1>2. QED BY <1>1, ContainerInvariance, PTL

\* A token that names a case or a connection is never at a proxy of another
\* one, and only a container replaced during the launch or restart lets a
\* worker use another profile's login than its labels say (checkTokenIdentity,
\* checkWorkerProfile, reconcileProxyAuthState).
THEOREM TokensKept == ProxySpec => []TokensStayWithLogin
<1>1. ContainerInv => TokensStayWithLogin
  BY DEF ContainerInv
<1>2. QED BY <1>1, ContainerInvariance, PTL

\* A proxy that waits for its key has a command that will deliver it or stop
\* the container, unless that command was killed (deliverProxyKey).
THEOREM KeyDelivered == ProxySpec => []NeverKeyStarved
<1>1. ContainerInv => NeverKeyStarved
  BY DEF ContainerInv, TendedInv, NeverKeyStarved, Tends
<1>2. QED BY <1>1, ContainerInvariance, PTL
==============================================================================
