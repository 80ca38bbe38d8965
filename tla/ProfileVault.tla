---------------------------- MODULE ProfileVault ----------------------------
(***************************************************************************)
(* One credential profile on disk (pkg/cxd/credentialstore): NAME.json,    *)
(* the encrypted NAME.vault, its legacy backup and the keyring item that   *)
(* may hold the vault's key, under the store's flock.  Callers are the     *)
(* profile commands, auth proxies and the Unix socket's server: each has a *)
(* handle with the key it unlocked and the record it last loaded, and can  *)
(* die between any two files of an operation.                              *)
(*                                                                         *)
(* An id is what newProfileVersion returns.  A login is named by the id of *)
(* the update that obtained it; encryption keeps it, refreshes replace it. *)
(***************************************************************************)
EXTENDS Naturals

CONSTANTS Callers, Absent,
          MaxId   \* bound: ids drawn

VARIABLES plain,    \* NAME.json
          vault,    \* NAME.vault; schema 1 is read-only, 2 is age
          backup,   \* NAME.vault.v1-backup
          ring,     \* the key ids that have an item in the keyring
          flock,    \* the caller inside the store's lock
          step,     \* what the caller inside the lock writes next
          handle,   \* each caller's open profile
          lastId,
          newest    \* the login of the last record published

vaultVars == <<plain, vault, backup, ring, flock, step, handle, lastId, newest>>

Ids == 0..MaxId
Records == [version : Ids, connection : Ids, login : Ids]
Vaults == [schema : {1, 2}, backend : {"passphrase", "secret-service"},
           header : Ids, key : Ids, record : Records]
ASSUME VaultAssumption ==
  Absent \notin Callers \cup Ids \cup Records \cup Vaults /\ MaxId \in Nat \ {0}

Handles == [kind : {"closed", "file", "encrypted"}, header : Ids \cup {Absent},
            key : Ids \cup {Absent}, base : Records \cup {Absent}]
Closed == [kind |-> "closed", header |-> Absent, key |-> Absent, base |-> Absent]

VaultTypeOK ==
  /\ plain \in Records \cup {Absent}
  /\ vault \in Vaults \cup {Absent} /\ backup \in Vaults \cup {Absent}
  /\ ring \subseteq Ids /\ lastId \in Ids /\ newest \in Ids
  /\ flock \in Callers \cup {Absent}
  /\ step \in {"none", "create", "encrypt", "unlink", "backup", "replace"}
  /\ handle \in [Callers -> Handles]

Fresh == lastId + 1
\* Mutant: a new record names no connection.
NewRecord_Unconnected(id, login) == [version |-> id, login |-> login]
NewRecord(id, login) == [version |-> id, connection |-> id, login |-> login]
Present == {f \in {plain, IF vault = Absent THEN Absent ELSE vault.record} : f # Absent}

\* No profile yet, or one an earlier release left: a schema 1 vault, and with
\* it the plaintext when that release's encryption was interrupted.
VaultInit ==
  /\ flock = Absent /\ step = "none" /\ lastId = 1 /\ newest = 1
  /\ handle = [c \in Callers |-> Closed] /\ backup = Absent
  /\ \E r \in {[version |-> 1, connection |-> 1, login |-> 1]} :
       \/ plain = Absent /\ vault = Absent /\ ring = {}
       \/ \E b \in {"passphrase", "secret-service"} :
            /\ vault = [schema |-> 1, backend |-> b, header |-> 1, key |-> 1,
                        record |-> r]
            /\ plain \in {Absent} \cup (IF b = "passphrase" THEN {r} ELSE {})
            /\ ring = IF b = "secret-service" THEN {1} ELSE {}

-----------------------------------------------------------------------------
\* FileStore.locked: every operation runs under the profile directory's flock.
Locked == flock = Absent /\ lastId < MaxId

Take(c, next) == flock' = c /\ step' = next
Done == flock' = Absent /\ step' = "none"

\* EncryptedStore.setKey.
SetKey(c, v) ==
  handle' = [handle EXCEPT ![c] = [@ EXCEPT !.kind = "encrypted",
                                            !.header = v.header, !.key = v.key]]

\* EncryptedStore.Close, or the process ends: the key is forgotten and, with
\* the descriptor, the lock released.
CloseHandle(c) ==
  /\ handle[c] # Closed \/ flock = c
  /\ handle' = [handle EXCEPT ![c] = Closed]
  /\ IF flock = c THEN Done ELSE UNCHANGED <<flock, step>>
  /\ UNCHANGED <<plain, vault, backup, ring, lastId, newest>>

\* A write, fsync or keyring call fails, or the context ends: the operation
\* returns an error and the files stay as they are.
Fails(c) ==
  /\ flock = c /\ Done
  /\ UNCHANGED <<plain, vault, backup, ring, handle, lastId, newest>>

\* OpenProfile: reads without the lock; both records present is refused.
OpenProfile(c) ==
  /\ handle[c] = Closed /\ flock # c
  /\ vault = Absent \/ plain = Absent
  /\ handle' = [handle EXCEPT ![c].kind =
                  IF vault = Absent THEN "file" ELSE "encrypted"]
  /\ UNCHANGED <<plain, vault, backup, ring, flock, step, lastId, newest>>

\* The key of the vault: by passphrase, by the keyring item that the header
\* names, or (UnlockWithKey) handed over by a caller that has it unlocked.
KeyAvailable(v) ==
  \/ v.backend = "passphrase"
  \/ v.header \in ring
  \/ \E c \in Callers : handle[c].key = v.key

\* Unlock, UnlockWithKey, UnlockWithKeyring; MigrateToAge on an age vault.
Unlock(c) ==
  /\ flock = Absent /\ handle[c].kind = "encrypted"
  /\ vault # Absent /\ KeyAvailable(vault)
  /\ SetKey(c, vault)
  /\ UNCHANGED <<plain, vault, backup, ring, flock, step, lastId, newest>>

\* Mutant: any unlocked handle is good enough.
SameHeader_Any(c) == handle[c].key # Absent

\* EncryptedStore.load's comparison: the vault still has the header of the
\* handle, so that its key and wrapping are the current ones.
SameHeader(c) == handle[c].key # Absent /\ handle[c].header = vault.header

\* Mutant: the plaintext profile is used although a vault exists.
PlainLoads_BesideVault(c) == handle[c].kind = "file" /\ plain # Absent

\* FileStore.Load answers: a vault that appeared meanwhile locks it out.
PlainLoads(c) == handle[c].kind = "file" /\ vault = Absent /\ plain # Absent

\* EncryptedStore.load answers: plaintext beside the vault is a pending
\* migration.
VaultLoads(c) ==
  handle[c].kind = "encrypted" /\ plain = Absent /\ vault # Absent /\ SameHeader(c)

Load(c) ==
  /\ flock = Absent
  /\ \/ PlainLoads(c) /\ handle' = [handle EXCEPT ![c].base = plain]
     \/ VaultLoads(c) /\ handle' = [handle EXCEPT ![c].base = vault.record]
  /\ UNCHANGED <<plain, vault, backup, ring, flock, step, lastId, newest>>

-----------------------------------------------------------------------------
\* The caller learns the new version, unless the directory's fsync failed
\* after the rename or the socket's answer was lost.
Told(c, r) ==
  \/ handle' = [handle EXCEPT ![c].base = r]
  \/ UNCHANGED handle

\* SaveRefresh's comparison with the record that `c' loaded.
Unchanged(c, r) ==
  /\ handle[c].base # Absent
  /\ r.version = handle[c].base.version
  /\ r.connection = handle[c].base.connection

Refreshed(r) == [r EXCEPT !.version = Fresh, !.login = Fresh]

\* FileStore.SaveRefresh.
SavePlain(c) ==
  /\ Locked /\ PlainLoads(c) /\ Unchanged(c, plain)
  /\ plain' = Refreshed(plain) /\ Told(c, Refreshed(plain))
  /\ newest' = Fresh /\ lastId' = Fresh
  /\ UNCHANGED <<vault, backup, ring, flock, step>>

\* EncryptedStore.SaveRefresh: seals with the handle's own header and key.
SaveVault(c) ==
  /\ Locked /\ VaultLoads(c) /\ vault.schema = 2 /\ Unchanged(c, vault.record)
  /\ vault' = [vault EXCEPT !.record = Refreshed(@), !.header = handle[c].header,
                            !.key = handle[c].key]
  /\ Told(c, Refreshed(vault.record))
  /\ newest' = Fresh /\ lastId' = Fresh
  /\ UNCHANGED <<plain, backup, ring, flock, step>>

\* FileStore.Create.
CreatePlain(c) ==
  /\ Locked /\ handle[c].kind = "file" /\ vault = Absent /\ plain = Absent
  /\ plain' = NewRecord(Fresh, Fresh) /\ newest' = Fresh /\ lastId' = Fresh
  /\ UNCHANGED <<vault, backup, ring, flock, step, handle>>

AgeVault(b, id, key, r) ==
  [schema |-> 2, backend |-> b, header |-> id, key |-> key, record |-> r]

\* The rename of a new vault, after which the handle owns its key unless the
\* directory's fsync or the read-back fails.
Publish(c, v) ==
  /\ vault' = v /\ newest' = v.record.login
  /\ lastId' = v.header
  /\ SetKey(c, v) \/ UNCHANGED handle

\* CreateWithPassphrase.
CreateVault(c) ==
  /\ Locked /\ vault = Absent /\ plain = Absent
  /\ Publish(c, AgeVault("passphrase", Fresh, Fresh, NewRecord(Fresh, Fresh)))
  /\ UNCHANGED <<plain, backup, ring, flock, step>>

\* CreateWithKeyring, first half.
BeginCreateKeyring(c) ==
  /\ Locked /\ vault = Absent /\ plain = Absent /\ Take(c, "create")
  /\ UNCHANGED <<plain, vault, backup, ring, handle, lastId, newest>>

\* newKeyringHeader: Put, then Get must return the key before it is used.
Stored(id) == ring' = ring \cup {id}

\* CreateWithKeyring, second half: the vault is written with the stored key.
CreateKeyring(c) ==
  /\ flock = c /\ step = "create" /\ Stored(Fresh) /\ Done
  /\ Publish(c, AgeVault("secret-service", Fresh, Fresh, NewRecord(Fresh, Fresh)))
  /\ UNCHANGED <<plain, backup>>

\* The command dies, or the write fails, after the item was stored: it stays.
StrandItem(c) ==
  /\ flock = c /\ step = "create" /\ Done
  /\ ring' = ring \cup {Fresh} /\ lastId' = Fresh
  /\ UNCHANGED <<plain, vault, backup, handle, newest>>

-----------------------------------------------------------------------------
\* EncryptPlaintext: a vault beside the plaintext is what an interrupted run
\* left; it must open with the passphrase and hold the same login.
BeginEncrypt(c) ==
  /\ Locked /\ plain # Absent
  /\ vault # Absent => /\ vault.backend = "passphrase"
                       /\ vault.record.login = plain.login
  /\ Take(c, IF vault # Absent /\ vault.schema = 2 THEN "unlink" ELSE "encrypt")
  /\ UNCHANGED <<plain, vault, backup, ring, handle, lastId, newest>>

\* EncryptPlaintext's verified write: a new connection of the same login.
WriteEncrypted(c) ==
  /\ flock = c /\ step = "encrypt"
  /\ vault' = AgeVault("passphrase", Fresh, Fresh, NewRecord(Fresh, plain.login))
  /\ lastId' = Fresh /\ step' = "unlink"
  /\ UNCHANGED <<plain, backup, ring, flock, handle, newest>>

\* Its end: only now does the plaintext go.
Unlink(c) ==
  /\ flock = c /\ step = "unlink" /\ plain' = Absent /\ Done
  /\ SetKey(c, vault) \/ UNCHANGED handle
  /\ UNCHANGED <<vault, backup, ring, lastId, newest>>

\* MigrateToAge on a schema 1 vault: a new connection, header and key, and its
\* keyring item, come first.
BeginMigrate(c) ==
  /\ Locked /\ plain = Absent /\ vault # Absent
  /\ vault.schema = 1 /\ KeyAvailable(vault)
  /\ IF vault.backend = "passphrase" THEN UNCHANGED ring ELSE Stored(Fresh)
  /\ Take(c, "backup") /\ lastId' = Fresh
  /\ UNCHANGED <<plain, vault, backup, handle, newest>>

\* backupLegacyRecord: an existing backup must equal the record.
BackupAgrees == backup \in {Absent, vault}

BackUp(c) ==
  /\ flock = c /\ step = "backup" /\ BackupAgrees
  /\ backup' = vault /\ step' = "replace"
  /\ UNCHANGED <<plain, vault, ring, flock, handle, lastId, newest>>

\* persistVerifiedAge: the same login under what was drawn.
Migrate(c) ==
  /\ flock = c /\ step = "replace" /\ Done
  /\ Publish(c, AgeVault(vault.backend, lastId, lastId,
                         NewRecord(lastId, vault.record.login)))
  /\ UNCHANGED <<plain, backup, ring>>

\* ChangePassphrase: the same identity wrapped anew, under a new header.
ChangePassphrase(c) ==
  /\ Locked /\ VaultLoads(c)
  /\ vault.schema = 2 /\ vault.backend = "passphrase"
  /\ Publish(c, AgeVault("passphrase", Fresh, handle[c].key, vault.record))
  /\ UNCHANGED <<plain, backup, ring, flock, step>>

-----------------------------------------------------------------------------
VaultStep(c) ==
  \/ OpenProfile(c) \/ CloseHandle(c) \/ Fails(c) \/ Unlock(c) \/ Load(c)
  \/ SavePlain(c) \/ SaveVault(c)
  \/ CreatePlain(c) \/ CreateVault(c) \/ BeginCreateKeyring(c) \/ CreateKeyring(c)
  \/ StrandItem(c) \/ BeginEncrypt(c) \/ WriteEncrypted(c) \/ Unlink(c)
  \/ BeginMigrate(c) \/ BackUp(c) \/ Migrate(c) \/ ChangePassphrase(c)

VaultNext == \E c \in Callers : VaultStep(c)
VaultSpec == VaultInit /\ [][VaultNext]_vaultVars

-----------------------------------------------------------------------------
\* Whatever is interrupted, and whoever refreshes meanwhile: every current
\* record holds the newest login, there is one once a profile was created,
\* and the vault's key can still be obtained: so a pending encryption can be
\* repeated and completed (encrypted_management.go EncryptPlaintext,
\* newKeyringHeader).
LoginIsKept ==
  /\ \A r \in Present : r.login = newest
  /\ newest > 1 => Present # {}
  /\ vault # Absent /\ vault.backend = "secret-service" => vault.header \in ring

\* A passphrase change, an encryption or a migration is never undone by a
\* caller that unlocked the vault before (EncryptedStore.load), and a vault
\* never goes.
RekeyIsFinal ==
  [][vault # Absent => vault' # Absent /\ vault'.header >= vault.header]_vaultVars
=============================================================================
