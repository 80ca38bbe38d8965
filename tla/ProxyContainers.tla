-------------------------- MODULE ProxyContainers --------------------------
(***************************************************************************)
(* The container of the auth proxy at one name and admin port, and the     *)
(* commands that compete for it: `proxy run', `stop' and `rm', cxd         *)
(* EnsureCaseProxy and RemoveCaseProxy, the profile commands that change   *)
(* or lock a key, and the launches and restarts of workers that first look *)
(* at the proxy and then ask it for a token.                               *)
(*                                                                         *)
(* A login is an owner - the host's own credentials, a profile or a        *)
(* credential case - with the connection version of its credentials.       *)
(***************************************************************************)
EXTENDS Naturals

CONSTANTS Profiles, Cases, Host, Commands,
          NoBox, NoWorker, Nobody,
          MaxLogins   \* bound: connection versions and vault headers drawn

Owners == {Host} \cup Profiles \cup Cases

ASSUME ProxyAssumption ==
  /\ Host \notin Profiles \cup Cases /\ Profiles \cap Cases = {}
  /\ MaxLogins \in Nat \ {0}

VARIABLES
  conn,    \* the connection version of each owner's current credentials
  print,   \* the fingerprint of a profile's vault header; 0: plaintext
  box,     \* the container
  worker,  \* the worker
  held,    \* the worker's token at the proxy; "blind": the container was
           \* replaced during the launch or restart that placed it
  cmd      \* the commands under way

proxyVars == <<conn, print, box, worker, held, cmd>>

Versions == 0..MaxLogins
Logins == Owners \X Versions
\* label, print, old: the labels; opened: the version and header it serves;
\* left: a command that should have tended the container gave up, or one that
\* meant another container of the name started it.
ProxyBoxes == [label : Logins, print : Versions, old : BOOLEAN, left : BOOLEAN,
               run : {"stopped", "waiting", "serving"}, opened : Versions \X Versions]
\* What the worker's labels say.
WorkerRecords == [profile : Logins \cup {Nobody}, ident : Logins \cup {Nobody},
                  running : BOOLEAN]

\* None of the three is what it stands in for.
ASSUME AbsenceAssumption ==
  NoBox \notin ProxyBoxes /\ NoWorker \notin WorkerRecords /\ Nobody \notin Logins

Steps == {"idle", "inspect", "replace", "configure", "create", "start", "deliver", "halt",
          "wait", "recreate", "issue", "restore", "drop", "rekey", "lock", "clear"}

ProxyTypeOK ==
  /\ conn \in [Owners -> Versions] /\ print \in [Owners -> Versions]
  /\ box \in ProxyBoxes \cup {NoBox} /\ worker \in WorkerRecords \cup {NoWorker}
  /\ held \in {"none", "placed", "blind"}
  /\ \A c \in Commands : cmd[c].step \in Steps /\ cmd[c].label \in Logins

\* label, print, key: proxyRunArgs; own: the container is addressed by its ID;
\* profile, ident: of the launch; again: a launch recreates its proxy.
Resting == [step |-> "idle", label |-> <<Host, 0>>, print |-> 0, key |-> FALSE,
            own |-> FALSE, moved |-> FALSE, again |-> FALSE,
            profile |-> Nobody, ident |-> Nobody]

Owner(b) == b.label[1]
Runs == box # NoBox /\ box.run # "stopped"
Serves == box # NoBox /\ box.run = "serving"
\* A version that no owner has had: the next one.
NewVersions == {v \in Versions : /\ \A o \in Owners : conn[o] < v /\ print[o] < v
                                /\ \E o \in Owners : v - 1 \in {conn[o], print[o]}}

\* A container that an earlier release created, or none.
ProxyInit ==
  /\ conn = [o \in Owners |-> IF o = Host THEN 0 ELSE 1]
  /\ \E enc \in SUBSET Profiles : print = [o \in Owners |-> IF o \in enc THEN 1 ELSE 0]
  /\ box \in {NoBox, [label |-> <<Host, 0>>, print |-> 0, old |-> TRUE, left |-> FALSE,
                      run |-> "serving", opened |-> <<0, 0>>]}
  /\ worker = NoWorker /\ held = "none" /\ cmd = [c \in Commands |-> Resting]

-----------------------------------------------------------------------------
GoTo(c, s) == cmd' = [cmd EXCEPT ![c].step = s]
EndCommand(c) == cmd' = [cmd EXCEPT ![c] = Resting]

\* The container goes, and the commands that looked at it do not know.
Looked(k) == k.own \/ k.step \in {"issue", "restore", "drop", "lock"}
Moved(next) == [d \in Commands |-> [next[d] EXCEPT !.moved = @ \/ Looked(next[d])]]
Removed(next) == box' = NoBox /\ held' = "none" /\ cmd' = Moved(next)

\* connectProxyWithRetry and waitCaseProxy: whether the proxy answers or time is
\* up, the command ends; only a launch goes on with the proxy it recreated.
Await(c) == IF cmd[c].again THEN GoTo(c, "wait") ELSE EndCommand(c)

\* What a command addresses: its own container by ID, else whatever has the name.
Target(c) == box # NoBox /\ (cmd[c].own => ~cmd[c].moved)

\* The proxy's process ends, and its token ledger with it.
NeverRead == <<0, 0>>
Stopped(b) == [b EXCEPT !.run = "stopped", !.left = FALSE, !.opened = NeverRead]

\* `proxy serve' reads its profile, case or host files once: a plain profile
\* must come without a key, an encrypted one with its own.
Loaded(b, key) ==
  IF Owner(b) \in Profiles =>
       (b.print = 0 <=> print[Owner(b)] = 0) /\ (b.print # 0 => key = Owner(b))
  THEN [b EXCEPT !.run = "serving", !.left = FALSE,
                 !.opened = <<conn[Owner(b)], print[Owner(b)]>>]
  ELSE Stopped(b)

\* It exits, on an error while it starts or later, or `proxy stop' stops it.
BoxExits ==
  /\ Runs /\ box' = Stopped(box) /\ held' = "none"
  /\ UNCHANGED <<conn, print, worker, cmd>>

\* `proxy rm': only a forced removal takes a running one.
ProxyRemoved(force) ==
  /\ box # NoBox /\ (force \/ ~Runs) /\ Removed(cmd)
  /\ UNCHANGED <<conn, print, worker>>

-----------------------------------------------------------------------------
\* runningEncryptedProfile: the proxy answers for the profile, under the
\* current vault header and the connection that its own label names.
RunningEncrypted(p) ==
  /\ Serves /\ print[p] # 0
  /\ box.print = print[p] /\ box.label = <<p, box.opened[1]>>

\* profileProxyState's connection: the running proxy's, or the one on disk.
ProfileLogin(p) == <<p, IF RunningEncrypted(p) THEN box.opened[1] ELSE conn[p]>>

\* startProxyContainer and EnsureCaseProxy up to their inspection.  The key is
\* unlocked unless a running proxy of the profile has it.
SpecOf(o) ==
  [Resting EXCEPT !.step = "inspect", !.print = print[o],
     !.label = IF o \in Profiles THEN ProfileLogin(o) ELSE <<o, 0>>,
     !.key = o \in Profiles /\ print[o] # 0 /\ ~RunningEncrypted(o)]

BeginProxy(c, o) ==
  /\ cmd[c] = Resting /\ cmd' = [cmd EXCEPT ![c] = SpecOf(o)]
  /\ UNCHANGED <<conn, print, box, worker, held>>

\* ensureProxyContainer's inspection; any difference is an error.
Agrees(c) == box.label = cmd[c].label /\ box.print = cmd[c].print

InspectBox(c) ==
  /\ cmd[c].step = "inspect"
  /\ IF box = NoBox THEN GoTo(c, "configure")
     ELSE /\ Agrees(c)
          /\ cmd[c].print # 0 /\ ~Runs => cmd[c].key
          /\ box.old => worker = NoWorker /\ cmd[c].label[1] \notin Cases
          /\ CASE box.old -> GoTo(c, "replace") [] Runs -> Await(c) [] OTHER -> GoTo(c, "start")
  /\ UNCHANGED <<conn, print, box, worker, held>>

\* The old layout goes by force, after no worker was listed.
ReplaceBox(c) ==
  /\ cmd[c].step = "replace" /\ Removed([cmd EXCEPT ![c].step = "configure"])
  /\ UNCHANGED <<conn, print, worker>>

\* proxyConfiguration opens the profile again, with the key.
StillCurrent(c) ==
  LET o == cmd[c].label[1] IN
  o \in Profiles => /\ print[o] = cmd[c].print /\ conn[o] = cmd[c].label[2]
                    /\ cmd[c].print # 0 => cmd[c].key

Configure(c) ==
  /\ cmd[c].step = "configure" /\ StillCurrent(c) /\ GoTo(c, "create")
  /\ UNCHANGED <<conn, print, box, worker, held>>

\* ContainerCreate, with the labels of what was opened.
CreateProxyBox(c) ==
  /\ cmd[c].step = "create" /\ box = NoBox
  /\ box' = [label |-> cmd[c].label, print |-> cmd[c].print, old |-> FALSE, left |-> FALSE,
             run |-> "stopped", opened |-> NeverRead]
  /\ cmd' = [cmd EXCEPT ![c].step = "start", ![c].own = TRUE, ![c].moved = FALSE]
  /\ UNCHANGED <<conn, print, worker, held>>

\* ContainerStart; a running container stays as it is.
StartBox(c) ==
  /\ cmd[c].step = "start" /\ Target(c)
  /\ box' = IF Runs THEN box
            ELSE IF box.print = 0 THEN Loaded(box, Host)
            ELSE [box EXCEPT !.run = "waiting", !.left = @ \/ ~Agrees(c)]
  /\ IF cmd[c].print = 0 THEN Await(c) ELSE GoTo(c, "deliver")
  /\ UNCHANGED <<conn, print, worker, held>>

\* deliverProxyKey: the proxy reads one key, and exits on a wrong one.
Deliver(c) ==
  /\ cmd[c].step = "deliver" /\ Target(c) /\ Runs /\ box.print # 0
  /\ box' = IF box.run = "waiting" THEN Loaded(box, cmd[c].label[1]) ELSE box
  /\ EndCommand(c)
  /\ UNCHANGED <<conn, print, worker, held>>

\* The attachment or the write fails: the container is stopped.
DeliveryFails(c) ==
  /\ cmd[c].step = "deliver" /\ GoTo(c, "halt")
  /\ UNCHANGED <<conn, print, box, worker, held>>

\* Mutant: the failed delivery is only reported.
Halted_Reported(b) == b
\* "Never leave a key-starved or partially initialized proxy running."
Halted(b) == Stopped(b)

HaltBox(c) ==
  /\ cmd[c].step = "halt" /\ EndCommand(c)
  /\ IF Target(c) THEN box' = Halted(box) /\ held' = "none"
                  ELSE UNCHANGED <<box, held>>
  /\ UNCHANGED <<conn, print, worker>>

\* The command is killed, or the engine refuses a step.
Tends(c) == cmd[c].step \in {"start", "deliver", "halt"} /\ Target(c)
GiveUp(c) ==
  /\ cmd[c] # Resting /\ EndCommand(c)
  /\ box' = IF Tends(c) THEN [box EXCEPT !.left = TRUE] ELSE box
  /\ UNCHANGED <<conn, print, worker, held>>

-----------------------------------------------------------------------------
\* RemoteProxy: what /admin/mode said when the command looked.
SeenProfile == IF Owner(box) \in Profiles THEN <<Owner(box), box.opened[1]>> ELSE Nobody

\* reconcileProxyAuthState of `run', with the selected profile or none; modes
\* that differ from the host's let the proxy be recreated, and with
\* --force-recreate-proxy a running worker does not stop that.
BeginRun(c, sel) ==
  /\ cmd[c] = Resting /\ Serves
  /\ \/ /\ SeenProfile = IF sel \in Profiles THEN ProfileLogin(sel) ELSE Nobody
        /\ cmd' = [cmd EXCEPT ![c].step = "issue", ![c].profile = SeenProfile]
     \/ /\ sel = Host /\ SeenProfile = Nobody
        /\ cmd' = [cmd EXCEPT ![c].step = "recreate"]
  /\ UNCHANGED <<conn, print, box, worker, held>>

RecreateBox(c) ==
  /\ cmd[c].step = "recreate" /\ box # NoBox
  /\ Removed([cmd EXCEPT ![c] = [SpecOf(Host) EXCEPT !.again = TRUE]])
  /\ UNCHANGED <<conn, print, worker>>

\* The reconnection: only the modes are compared again.
Reconnect(c) ==
  /\ cmd[c].step = "wait" /\ cmd[c].again /\ Serves
  /\ cmd' = [cmd EXCEPT ![c] = [Resting EXCEPT !.step = "issue", !.profile = SeenProfile]]
  /\ UNCHANGED <<conn, print, box, worker, held>>

\* Client.launch: a case proxy needs an identity, whatever it names.
BeginLaunch(c, id) ==
  /\ cmd[c] = Resting /\ Serves /\ (Owner(box) \in Cases => id # Nobody)
  /\ cmd' = [cmd EXCEPT ![c].step = "issue", ![c].profile = SeenProfile, ![c].ident = id]
  /\ UNCHANGED <<conn, print, box, worker, held>>

\* checkCaseGeneration.
Generation == <<conn[Owner(box)], print[Owner(box)]>>

\* Mutant: the connection of an identity is not compared.
ScopeAllows_AnyConnection(id) ==
  Owner(box) \in Cases \/ (Owner(box) \in Profiles /\ id # Nobody) =>
    id # Nobody /\ id[1] = Owner(box)
\* checkTokenIdentity.
ScopeAllows(id) ==
  Owner(box) \in Cases \/ (Owner(box) \in Profiles /\ id # Nobody) =>
    id = <<Owner(box), box.opened[1]>>

Place(c) == held' = IF cmd[c].moved THEN "blind" ELSE "placed"
Accepts(id) == Serves /\ box.opened = Generation /\ ScopeAllows(id)

\* RunContext: the labels are of the snapshot, the token of the proxy as it is.
Issue(c) ==
  /\ cmd[c].step = "issue" /\ worker = NoWorker /\ Accepts(cmd[c].ident)
  /\ worker' = [profile |-> cmd[c].profile, ident |-> cmd[c].ident, running |-> TRUE]
  /\ Place(c) /\ EndCommand(c)
  /\ UNCHANGED <<conn, print, box>>

\* Mutant: a worker without a profile may use any proxy.
SameProfile_IfAny(w) == w.profile \in {Nobody, SeenProfile}
\* checkWorkerProfile, on a snapshot.
SameProfile(w) == SeenProfile = w.profile

\* The worker's lifecycle lock: a restart, a stop or a removal at a time.
LifecycleFree == \A c \in Commands : cmd[c].step # "restore"

BeginRestart(c) ==
  /\ cmd[c] = Resting /\ LifecycleFree /\ Serves
  /\ worker # NoWorker /\ ~worker.running /\ SameProfile(worker)
  /\ GoTo(c, "restore")
  /\ UNCHANGED <<conn, print, box, worker, held>>

\* restoreWorkerToken.
Restore(c) ==
  /\ cmd[c].step = "restore" /\ Accepts(worker.ident)
  /\ worker' = [worker EXCEPT !.running = TRUE]
  /\ Place(c) /\ EndCommand(c)
  /\ UNCHANGED <<conn, print, box>>

\* A credential check of another generation revokes what the proxy holds.
StaleProxy ==
  /\ Serves /\ Owner(box) # Host /\ box.opened # Generation /\ held # "none" /\ held' = "none"
  /\ UNCHANGED <<conn, print, box, worker, cmd>>

\* A worker stops, and its revocation may not reach the proxy.
WorkerStops ==
  /\ worker # NoWorker /\ worker.running /\ worker' = [worker EXCEPT !.running = FALSE]
  /\ held' \in {"none", held}
  /\ UNCHANGED <<conn, print, box, cmd>>

WorkerRemoved ==
  /\ worker # NoWorker /\ LifecycleFree /\ worker' = NoWorker /\ held' = "none"
  /\ UNCHANGED <<conn, print, box, cmd>>

-----------------------------------------------------------------------------
LiveWorkerOf(p) == worker # NoWorker /\ worker.running
                   /\ worker.profile # Nobody /\ worker.profile[1] = p
Mounts(p) == box # NoBox /\ Owner(box) = p

\* prepareProfileKeyChange, for `encrypt' and `passwd': live workers and a
\* running proxy refuse it; a stopped proxy goes, without force.
BeginRekey(c, p) ==
  /\ cmd[c] = Resting /\ NewVersions # {}
  /\ ~LiveWorkerOf(p) /\ (Mounts(p) => ~Runs)
  /\ cmd' = [cmd EXCEPT ![c].step = IF Mounts(p) THEN "drop" ELSE "rekey",
                        ![c].label = <<p, 0>>, ![c].print = print[p]]
  /\ UNCHANGED <<conn, print, box, worker, held>>

DropBox(c) ==
  /\ cmd[c].step = "drop" /\ (box = NoBox \/ cmd[c].moved \/ ~Runs)
  /\ IF box = NoBox \/ cmd[c].moved THEN GoTo(c, "rekey") /\ UNCHANGED <<box, held>>
     ELSE Removed([cmd EXCEPT ![c].step = "rekey"])
  /\ UNCHANGED <<conn, print, worker>>

\* EncryptPlaintext draws a connection too, ChangePassphrase a header only.
Rekey(c) ==
  LET p == cmd[c].label[1] IN
  /\ cmd[c].step = "rekey" /\ print[p] = cmd[c].print
  /\ \E v \in NewVersions :
       /\ print' = [print EXCEPT ![p] = v]
       /\ conn' = IF print[p] = 0 THEN [conn EXCEPT ![p] = v] ELSE conn
  /\ EndCommand(c)
  /\ UNCHANGED <<box, worker, held>>

\* The host product replaces the login of a case.
NewCaseLogin(a) ==
  /\ \E v \in NewVersions : conn' = [conn EXCEPT ![a] = v]
  /\ UNCHANGED <<print, box, worker, held, cmd>>

\* lockProfile: the workers whose proxy name resolves to a container of this
\* directory, then the containers, also when a worker did not stop.
BeginLock(c, p) ==
  /\ cmd[c] = Resting /\ print[p] # 0 /\ Mounts(p)
  /\ cmd' = [cmd EXCEPT ![c].step = "lock", ![c].label = <<p, 0>>, ![c].again = LiveWorkerOf(p)]
  /\ UNCHANGED <<conn, print, box, worker, held>>

LockBox(c) ==
  /\ cmd[c].step = "lock" /\ EndCommand(c)
  /\ \/ UNCHANGED worker
     \/ /\ cmd[c].again /\ worker # NoWorker
        /\ worker' = [worker EXCEPT !.running = FALSE]
  /\ IF box # NoBox /\ ~cmd[c].moved THEN box' = Stopped(box) /\ held' = "none"
     ELSE UNCHANGED <<box, held>>
  /\ UNCHANGED <<conn, print>>

\* RemoveCaseProxy: no retained worker names the proxy; then, by name, by force.
BeginClear(c, a) ==
  /\ cmd[c] = Resting /\ Mounts(a) /\ worker = NoWorker /\ GoTo(c, "clear")
  /\ UNCHANGED <<conn, print, box, worker, held>>

ClearBox(c) ==
  /\ cmd[c].step = "clear" /\ box # NoBox
  /\ Removed([cmd EXCEPT ![c] = Resting])
  /\ UNCHANGED <<conn, print, worker>>

-----------------------------------------------------------------------------
CommandStep(c) ==
  \/ \E o \in Owners : BeginProxy(c, o)
  \/ InspectBox(c) \/ ReplaceBox(c) \/ Configure(c) \/ CreateProxyBox(c) \/ StartBox(c)
  \/ Deliver(c) \/ DeliveryFails(c) \/ HaltBox(c) \/ GiveUp(c)
  \/ \E sel \in Profiles \cup {Host} : BeginRun(c, sel)
  \/ RecreateBox(c) \/ Reconnect(c) \/ Issue(c) \/ BeginRestart(c) \/ Restore(c)
  \/ \E id \in {<<o, conn[o]>> : o \in Profiles \cup Cases} \cup {Nobody} : BeginLaunch(c, id)
  \/ \E p \in Profiles : BeginRekey(c, p) \/ BeginLock(c, p)
  \/ DropBox(c) \/ Rekey(c) \/ LockBox(c) \/ ClearBox(c)
  \/ \E a \in Cases : BeginClear(c, a)

ProxyNext ==
  \/ BoxExits \/ StaleProxy \/ WorkerStops \/ WorkerRemoved
  \/ \E force \in BOOLEAN : ProxyRemoved(force)
  \/ \E a \in Cases : NewCaseLogin(a)
  \/ \E c \in Commands : CommandStep(c)

ProxySpec == ProxyInit /\ [][ProxyNext]_proxyVars

-----------------------------------------------------------------------------
\* Whatever is removed, recreated under the same name, re-encrypted or logged
\* in again between a command's look at the proxy and its call: a token that
\* names a case or a connection is never at a proxy that serves another one,
\* none without identity is at a case proxy, and only a container replaced
\* during the launch or restart lets a worker use another profile's login
\* than its labels say (tokens.go checkTokenIdentity, restart_auth.go
\* checkWorkerProfile, run.go reconcileProxyAuthState).
TokensStayWithLogin ==
  held # "none" /\ Serves =>
    /\ worker.ident = Nobody => Owner(box) \notin Cases
    /\ worker.ident # Nobody /\ Owner(box) # Host =>
         worker.ident = <<Owner(box), box.opened[1]>>
    /\ held = "blind" \/ worker.profile = SeenProfile

\* A proxy that waits for its key is tended by the command that will deliver
\* it or stop the container, unless that command was killed or the engine
\* failed it, or a command that meant its predecessor started it by name
\* (proxy_key.go: "Never leave a key-starved ... proxy running").
NeverKeyStarved ==
  box # NoBox /\ box.run = "waiting" /\ ~box.left =>
    \E c \in Commands : Tends(c)
=============================================================================
