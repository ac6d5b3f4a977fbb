------------------------------- MODULE Startup -------------------------------
(***************************************************************************)
(* How a daemon comes to be and goes: `fw start` from its first connect to *)
(* the answer to its registration (main.rs run_start, start_and_connect),  *)
(* the processes it spawns from the daemon lock to their exit (daemon run),*)
(* the two locks, the endpoint and cloudflared.  What a daemon does while  *)
(* it serves is in Daemon.tla.                                             *)
(*                                                                         *)
(* A start spawns at most one process, so the process is named by its     *)
(* starter.  A step is what happens between two points where another      *)
(* process can see or change something both use.                           *)
(***************************************************************************)
EXTENDS Naturals

CONSTANTS
    Starters,    \* the `fw start` processes, and the daemon processes they may spawn
    NoOne,       \* no process: a free lock, no socket file
    Platforms,   \* the platforms to explore, of "unix" and "windows"
    ProxyPorts,  \* the ports reserve_listener tries
    TakenSets,   \* which of them other programs may hold
    NoPort,
    MaxFaults    \* bound: processes that are killed

ASSUME NoOneAssumption == NoOne \notin Starters
ASSUME PlatformAssumption == Platforms \subseteq {"unix", "windows"}
ASSUME NoPortAssumption == NoPort \notin ProxyPorts
ASSUME FaultsAssumption == MaxFaults \in Nat

VARIABLES
    platform, taken,    \* chosen once
    starters,           \* [at, joined: the daemon it is connected to, told: what it ended with]
    daemons,            \* [at, error, port, tunnel, tunnelPort: the port its cloudflared has read]
    startupLock, daemonLock,
    socket,             \* unix: the process whose socket the endpoint's path names
    listening,          \* the processes with an open listener
    busy,               \* windows: those whose only free pipe instance a client has taken
    config,             \* the proxy port in config.yml
    faults

lockVars == <<startupLock, daemonLock>>
endpointVars == <<socket, listening, busy>>
startupVars == <<platform, taken, starters, daemons, lockVars, endpointVars, config, faults>>

StarterLabel ==
    {"new", "locking", "retrying", "polling", "waiting", "registering", "ended"}
DaemonLabel ==
    {"none", "locking", "refused", "reserving", "configuring", "probing", "removing", "binding",
     "spawning", "attaching", "stabilizing", "serving", "ending", "failing", "leaving", "exited"}
DaemonError == {"none", "already running", "no proxy port", "address in use", "failed"}
Told == DaemonError \cup {"forwarding", "refused", "timeout", "lost", "interrupted"}

Ports == ProxyPorts \cup {NoPort}

StarterRecord == [at : StarterLabel, joined : Starters \cup {NoOne}, told : Told]
DaemonRecord ==
    [at : DaemonLabel, error : DaemonError, port : Ports,
     tunnel : {"none", "running", "gone", "orphan"}, tunnelPort : Ports]

StartupTypeOK ==
    /\ platform \in Platforms /\ taken \in TakenSets
    /\ starters \in [Starters -> StarterRecord] /\ daemons \in [Starters -> DaemonRecord]
    /\ startupLock \in Starters \cup {NoOne} /\ daemonLock \in Starters \cup {NoOne}
    /\ socket \in Starters \cup {NoOne} /\ listening \subseteq Starters /\ busy \subseteq Starters
    /\ config \in Ports /\ faults \in 0..MaxFaults

StartupInit ==
    /\ platform \in Platforms /\ taken \in TakenSets
    /\ starters = [s \in Starters |-> [at |-> "new", joined |-> NoOne, told |-> "none"]]
    /\ daemons = [d \in Starters |-> [at |-> "none", error |-> "none", port |-> NoPort,
                                      tunnel |-> "none", tunnelPort |-> NoPort]]
    /\ startupLock = NoOne /\ daemonLock = NoOne
    /\ socket = NoOne /\ listening = {} /\ busy = {}
    /\ config = NoPort /\ faults = 0

------------------------------------------------------------------------------
(* The starter. *)

(* ipc::connect succeeds: on unix the path must name the socket of a process that listens, on      *)
(* windows an instance of the pipe must be free.                                                   *)
Reachable ==
    {d \in listening : IF platform = "unix" THEN socket = d ELSE d \notin busy}

GoTo(s, label) == starters' = [starters EXCEPT ![s].at = label]

(* Mutant: a start that fails keeps its startup lock. *)
EndKeepingLock(s, told) ==
    /\ starters' = [starters EXCEPT ![s].at = "ended", ![s].told = told]
    /\ UNCHANGED startupLock

End(s, told) ==
    /\ starters' = [starters EXCEPT ![s].at = "ended", ![s].told = told]
    /\ startupLock' = IF startupLock = s THEN NoOne ELSE startupLock

(* The connection takes the pipe's free instance; start_and_connect returns and drops its lock. *)
Join(s, d) ==
    /\ starters' = [starters EXCEPT ![s].at = "registering", ![s].joined = d]
    /\ startupLock' = IF startupLock = s THEN NoOne ELSE startupLock
    /\ busy' = IF platform = "windows" THEN busy \cup {d} ELSE busy
    /\ UNCHANGED <<daemons, daemonLock, socket, listening, config>>

OnlyStarter == UNCHANGED <<daemons, daemonLock, endpointVars, config>>

Connects(s) ==
    /\ starters[s].at \in {"new", "retrying", "polling"}
    /\ \E d \in Reachable : Join(s, d)

(* InstallPaths::resolve and preflight_validate only read: the directory cf, its two files, and   *)
(* whether config.yml can be managed.  Then the lock file is opened.                               *)
Preflight(s) ==
    \/ GoTo(s, "locking") /\ UNCHANGED startupLock
    \/ End(s, "failed")

FirstConnectFails(s) ==
    /\ starters[s].at = "new" /\ Reachable = {}
    /\ Preflight(s) /\ OnlyStarter

(* Mutant: the startup lock is not waited for. *)
TakeStartupLockAnyway(s) ==
    /\ starters[s].at = "locking"
    /\ startupLock' = s
    /\ GoTo(s, "retrying") /\ OnlyStarter

(* It is waited for without a limit. *)
TakeStartupLock(s) ==
    /\ starters[s].at = "locking" /\ startupLock = NoOne
    /\ startupLock' = s
    /\ GoTo(s, "retrying") /\ OnlyStarter

SpawnDaemon(s) ==
    /\ starters[s].at = "retrying" /\ Reachable = {}
    /\ \/ /\ daemons' = [daemons EXCEPT ![s].at = "locking"]
          /\ GoTo(s, "polling") /\ UNCHANGED startupLock
       \/ End(s, "failed") /\ UNCHANGED daemons
    /\ UNCHANGED <<daemonLock, endpointVars, config>>

(* One turn of the loop: connect, then try_wait, then the deadline, then a short sleep. *)
PollMisses(s) ==
    /\ starters[s].at = "polling" /\ Reachable = {}
    /\ GoTo(s, "waiting") /\ OnlyStarter /\ UNCHANGED startupLock

ChildHasExited(s) ==
    /\ starters[s].at = "waiting" /\ daemons[s].at = "exited"
    /\ End(s, IF daemons[s].error = "none" THEN "failed" ELSE daemons[s].error)
    /\ OnlyStarter

DeadlinePassed(s) ==
    /\ starters[s].at = "waiting" /\ daemons[s].at # "exited"
    /\ End(s, "timeout") /\ OnlyStarter

PollAgain(s) ==
    /\ starters[s].at = "waiting" /\ daemons[s].at # "exited"
    /\ GoTo(s, "polling") /\ OnlyStarter /\ UNCHANGED startupLock

(* The registration is answered once the accept loop has taken the connection, also by a daemon     *)
(* that is shutting down, until its process ends.                                                  *)
RegistrationAnswered(s) ==
    /\ starters[s].at = "registering"
    /\ daemons[starters[s].joined].at \in {"serving", "ending"} /\ starters[s].joined \notin busy
    /\ \E answer \in {"forwarding", "refused"} : End(s, answer)
    /\ OnlyStarter

(* The stream ends without an answer: a connection nobody has accepted goes with the listener, an  *)
(* accepted one with the process.  Which of the two it is on unix is not kept.                     *)
RegistrationLost(s) ==
    /\ starters[s].at = "registering" /\ starters[s].joined \notin listening
    /\ End(s, "lost") /\ OnlyStarter

StarterKilled(s) ==
    /\ starters[s].at \notin {"new", "ended"} /\ faults < MaxFaults
    /\ faults' = faults + 1
    /\ End(s, "interrupted") /\ OnlyStarter
------------------------------------------------------------------------------
(* The daemon. *)

OnlyDaemon == UNCHANGED <<starters, startupLock>>
DaemonGoes(d, label) == daemons' = [daemons EXCEPT ![d].at = label]
Fails(d, error) == daemons' = [daemons EXCEPT ![d].at = "failing", ![d].error = error]

(* A named mutex exists while any process has a handle to it, that of a process it refused too. *)
LockIsTaken ==
    \/ daemonLock # NoOne
    \/ platform = "windows" /\ \E e \in Starters : daemons[e].at = "refused"

(* Mutant: a lock that is taken does not keep the process from going on. *)
AcquireDaemonAnyway(d) ==
    /\ daemons[d].at = "locking"
    /\ daemonLock' = d /\ DaemonGoes(d, "reserving")
    /\ UNCHANGED <<endpointVars, config>>

AcquireDaemon(d) ==
    /\ daemons[d].at = "locking"
    /\ \/ /\ LockIsTaken /\ UNCHANGED daemonLock
          /\ daemons' = [daemons EXCEPT ![d].at = "refused", ![d].error = "already running"]
       \/ /\ ~LockIsTaken /\ daemonLock' = d
          /\ DaemonGoes(d, "reserving")
       \/ /\ UNCHANGED daemonLock      \* the lock cannot be opened or asked for
          /\ daemons' = [daemons EXCEPT ![d].at = "leaving", ![d].error = "failed"]
    /\ UNCHANGED <<endpointVars, config>>

(* Mutant: the range is one off. *)
FreePortsShifted == {p + 1 : p \in ProxyPorts} \ taken

FreePorts == {p \in ProxyPorts \ taken : \A e \in Starters : daemons[e].port # p}

(* reserve_listener's error when no port could be bound, and how run() passes it on. *)
ReserveError == IF ProxyPorts = {} THEN "AddrNotAvailable" ELSE "AddrInUse"
RunError(kind) == IF kind = "AddrNotAvailable" THEN "no proxy port" ELSE "address in use"

ReservePort(d) ==
    /\ daemons[d].at = "reserving"
    /\ \/ \E p \in FreePorts :
              daemons' = [daemons EXCEPT ![d].at = "configuring", ![d].port = p]
       \/ FreePorts = {} /\ Fails(d, RunError(ReserveError))
       \/ Fails(d, "failed")          \* InstallPaths::resolve
    /\ UNCHANGED <<daemonLock, endpointVars, config>>

(* normalize_validate_and_replace; see ConfigInstall.tla. *)
Configure(d) ==
    /\ daemons[d].at = "configuring"
    /\ \/ config' = daemons[d].port /\ DaemonGoes(d, "probing")
       \/ Fails(d, "failed") /\ UNCHANGED config
    /\ UNCHANGED <<daemonLock, endpointVars>>

(* prepare_endpoint: a socket somebody answers on is left alone, a dead one is removed. *)
ProbeEndpoint(d) ==
    /\ daemons[d].at = "probing"
    /\ CASE platform = "windows" \/ socket = NoOne -> DaemonGoes(d, "binding")
         [] platform = "unix" /\ socket \in listening -> Fails(d, "address in use")
         [] OTHER -> DaemonGoes(d, "removing")
    /\ UNCHANGED <<daemonLock, endpointVars, config>>

RemoveStaleSocket(d) ==
    /\ daemons[d].at = "removing"
    /\ IF socket = NoOne THEN Fails(d, "failed") ELSE DaemonGoes(d, "binding")
    /\ socket' = NoOne
    /\ UNCHANGED <<daemonLock, listening, busy, config>>

(* windows: first_pipe_instance fails while any instance of the pipe is left, also one that serves *)
(* a client of a process that is about to exit.                                                    *)
PipeExists ==
    listening # {} \/ \E s \in Starters : /\ starters[s].joined # NoOne
                                          /\ daemons[starters[s].joined].at = "leaving"

Bind(d) ==
    /\ daemons[d].at = "binding"
    /\ LET exists == IF platform = "unix" THEN socket # NoOne ELSE PipeExists
       IN  \/ /\ ~exists /\ DaemonGoes(d, "spawning")
              /\ listening' = listening \cup {d}
              /\ socket' = IF platform = "unix" THEN d ELSE socket
           \/ /\ UNCHANGED <<socket, listening>>
              /\ (exists /\ Fails(d, "address in use")) \/ Fails(d, "failed")
    /\ UNCHANGED <<daemonLock, busy, config>>

SpawnTunnel(d) ==
    /\ daemons[d].at = "spawning"
    /\ \/ daemons' = [daemons EXCEPT ![d].at = "attaching", ![d].tunnel = "running"]
       \/ Fails(d, "failed")
    /\ UNCHANGED <<daemonLock, endpointVars, config>>

(* ChildSupervisor::attach; a child that cannot be attached is killed. *)
AttachTunnel(d) ==
    /\ daemons[d].at = "attaching"
    /\ \/ DaemonGoes(d, "stabilizing")
       \/ daemons' = [daemons EXCEPT ![d].at = "failing", ![d].error = "failed",
                                     ![d].tunnel = "gone"]
    /\ UNCHANGED <<daemonLock, endpointVars, config>>

Stabilize(d) ==
    /\ daemons[d].at = "stabilizing"
    /\ IF daemons[d].tunnel = "gone" THEN Fails(d, "failed") ELSE DaemonGoes(d, "serving")
    /\ UNCHANGED <<daemonLock, endpointVars, config>>

(* windows: accept creates the next instance of the pipe. *)
AcceptConnection(d) ==
    /\ daemons[d].at = "serving" /\ d \in busy
    /\ busy' = busy \ {d}
    /\ UNCHANGED <<daemons, daemonLock, socket, listening, config>>

(* The token is cancelled: idle, kill, a signal, or cloudflared has exited. *)
Cancel(d) ==
    /\ daemons[d].at = "serving" /\ DaemonGoes(d, "ending")
    /\ UNCHANGED <<daemonLock, endpointVars, config>>

(* Only the path that still names this listener's socket is removed. *)
DropListener(d) ==
    /\ d \in listening
    /\ listening' = listening \ {d} /\ busy' = busy \ {d}
    /\ socket' = IF socket = d THEN NoOne ELSE socket
    /\ UNCHANGED <<daemons, daemonLock, config>>

(* By the accept loop when it is cancelled, by run() when it gives up (after cloudflared). *)
CloseEndpoint(d) ==
    /\ \/ daemons[d].at = "ending"
       \/ daemons[d].at = "failing" /\ daemons[d].tunnel # "running"
    /\ DropListener(d)

(* accept() fails once: the accept loop returns, and nobody looks at its task before the shutdown.  *)
(* The daemon goes on serving the owners it has, with its lock and without an endpoint.            *)
AcceptFails(d) == daemons[d].at = "serving" /\ DropListener(d)

(* cloudflared.shutdown(); see Cloudflared.tla. *)
StopTunnel(d) ==
    /\ daemons[d].at \in {"ending", "failing"} /\ daemons[d].tunnel = "running"
    /\ daemons' = [daemons EXCEPT ![d].tunnel = "gone"]
    /\ UNCHANGED <<daemonLock, endpointVars, config>>

(* Mutant: run() does not wait for cloudflared's end. *)
LeaveRunEarly(d) ==
    /\ \/ daemons[d].at = "refused"
       \/ daemons[d].at \in {"ending", "failing"} /\ d \notin listening
    /\ daemons' = [daemons EXCEPT ![d].at = "leaving", ![d].port = NoPort,
                                  ![d].tunnelPort = NoPort]
    /\ daemonLock' = IF daemonLock = d THEN NoOne ELSE daemonLock
    /\ UNCHANGED <<endpointVars, config>>

(* run() returns: its locals are dropped, the daemon lock last. *)
LeaveRun(d) ==
    /\ \/ daemons[d].at = "refused"
       \/ /\ daemons[d].at \in {"ending", "failing"}
          /\ d \notin listening /\ daemons[d].tunnel # "running"
    /\ daemons' = [daemons EXCEPT ![d].at = "leaving", ![d].port = NoPort,
                                  ![d].tunnelPort = NoPort]
    /\ daemonLock' = IF daemonLock = d THEN NoOne ELSE daemonLock
    /\ UNCHANGED <<endpointVars, config>>

ExitDaemon(d) ==
    /\ daemons[d].at = "leaving" /\ DaemonGoes(d, "exited")
    /\ UNCHANGED <<daemonLock, endpointVars, config>>

(* The operating system drops the locks and the listener; the socket file stays.  cloudflared goes *)
(* on, unless the process had put it into its job object (windows).                                *)
CrashDaemon(d) ==
    /\ daemons[d].at \notin {"none", "leaving", "exited"} /\ faults < MaxFaults
    /\ faults' = faults + 1
    /\ daemons' = [daemons EXCEPT
           ![d].at = "exited", ![d].port = NoPort, ![d].tunnelPort = NoPort,
           ![d].tunnel = IF @ # "running" THEN @
                         ELSE IF platform = "windows" /\ daemons[d].at # "attaching"
                              THEN "gone" ELSE "orphan"]
    /\ daemonLock' = IF daemonLock = d THEN NoOne ELSE daemonLock
    /\ listening' = listening \ {d} /\ busy' = busy \ {d}
    /\ UNCHANGED <<socket, config>>

(* cloudflared, an external program, reads config.yml once, and may exit; that it exits under a    *)
(* serving daemon is one of the reasons for Cancel.                                                *)
TunnelReadsConfig(d) ==
    /\ daemons[d].tunnel = "running" /\ daemons[d].tunnelPort = NoPort
    /\ daemons' = [daemons EXCEPT ![d].tunnelPort = config]
    /\ UNCHANGED <<daemonLock, endpointVars, config>>

TunnelExits(d) ==
    /\ daemons[d].tunnel = "running" /\ daemons[d].at \in {"attaching", "stabilizing"}
    /\ daemons' = [daemons EXCEPT ![d].tunnel = "gone"]
    /\ UNCHANGED <<daemonLock, endpointVars, config>>

------------------------------------------------------------------------------
StarterStep(s) ==
    \/ Connects(s) \/ FirstConnectFails(s) \/ TakeStartupLock(s)
    \/ SpawnDaemon(s) \/ PollMisses(s) \/ ChildHasExited(s) \/ DeadlinePassed(s) \/ PollAgain(s)
    \/ RegistrationAnswered(s) \/ RegistrationLost(s)

(* What a daemon process does by itself. *)
DaemonStep(d) ==
    \/ AcquireDaemon(d) \/ ReservePort(d) \/ Configure(d) \/ ProbeEndpoint(d)
    \/ RemoveStaleSocket(d) \/ Bind(d) \/ SpawnTunnel(d) \/ AttachTunnel(d) \/ Stabilize(d)
    \/ AcceptConnection(d) \/ CloseEndpoint(d) \/ StopTunnel(d) \/ LeaveRun(d) \/ ExitDaemon(d)

TunnelStep(d) == TunnelReadsConfig(d) \/ TunnelExits(d)

(* What befalls a daemon that serves. *)
ServingEnds(d) == Cancel(d) \/ AcceptFails(d)

StartupNext ==
    /\ \E p \in Starters :
          \/ StarterStep(p) /\ UNCHANGED faults
          \/ StarterKilled(p)
          \/ (DaemonStep(p) \/ ServingEnds(p) \/ TunnelStep(p)) /\ OnlyDaemon /\ UNCHANGED faults
          \/ CrashDaemon(p) /\ OnlyDaemon
    /\ UNCHANGED <<platform, taken>>

StartupSafety == StartupInit /\ [][StartupNext]_startupVars

(* tokio and the operating system run what is ready, and a loop that polls comes to its deadline.   *)
(* The startup lock is granted to somebody who waits, and nobody takes it twice.  Nobody has to    *)
(* start, to leave or to crash, and cloudflared need not do anything.                              *)
StartupFairness ==
    \A p \in Starters :
        /\ WF_startupVars(StarterStep(p) /\ UNCHANGED <<platform, taken, faults>>
                           /\ starters[p].at # "new")
        /\ SF_startupVars(DeadlinePassed(p) /\ UNCHANGED <<platform, taken, faults>>)
        /\ WF_startupVars(DaemonStep(p) /\ OnlyDaemon /\ UNCHANGED <<platform, taken, faults>>)

StartupSpec == StartupSafety /\ StartupFairness

------------------------------------------------------------------------------
(* Properties. *)

(* The processes take turns as SingleDaemon.tla says: an endpoint that answers, and a cloudflared  *)
(* under supervision, belong to the holder of the daemon lock, also while stale sockets are        *)
(* removed, daemons crash, and the two ends of a shutdown (accept loop, main loop) race.           *)
Turns == INSTANCE SingleDaemon WITH
    Processes <- Starters, NoOne <- NoOne, holder <- daemonLock, endpoints <- {d \in listening : platform = "unix" => socket = d},
    tunnels <- {d \in Starters : daemons[d].tunnel = "running"}

OneDaemonServes == Turns!SDSpec

(* A daemon's cloudflared forwards to its daemon's proxy: config.yml, which the next daemon        *)
(* rewrites, is read by a cloudflared only while it names the port its own daemon has bound.        *)
TunnelsReadTheirPort ==
    \A d \in Starters :
        daemons[d].tunnel = "running" /\ daemons[d].tunnelPort # NoPort =>
            daemons[d].tunnelPort = daemons[d].port

(* A daemon whose accept loop has ended on an error. *)
Deaf(e) == daemons[e].at = "serving" /\ e \notin listening

(* On unix the process of a start that waits for it is refused the daemon lock only by a daemon    *)
(* that is shutting down, that has become deaf, or whose own start no longer waits for it, because *)
(* it gave up or has met another daemon meanwhile: while the accept loop of a daemon that serves   *)
(* runs, two starts at the same time never make one of them fail.                                  *)
Refused(d) == daemons[d].at = "locking" /\ daemons'[d].at = "refused"

RefusedOnlyByLeavers ==
    [][\A d \in Starters :
        platform = "unix" /\ Refused(d) /\ starters[d].at \in {"polling", "waiting"} =>
            \/ daemons[daemonLock].at \in {"ending", "failing"}
            \/ Deaf(daemonLock)
            \/ starters[daemonLock].told \in {"timeout", "interrupted"}
            \/ starters[daemonLock].joined \notin {daemonLock, NoOne}]_startupVars

(* Every `fw start` comes to an end: a forward, or a reason, though locks are waited for without a   *)
(* limit and any process may be killed while it holds one.                                          *)
StartsEnd == \A s \in Starters : starters[s].at # "new" ~> starters[s].at = "ended"

(* A daemon whose start fails for an address in use has a proxy port, and it is the endpoint that   *)
(* is taken: that no proxy port is free has an error of its own.                                    *)
FullPortRangeIsNamed ==
    \A d \in Starters :
        daemons[d].at = "failing" /\ daemons[d].error = "address in use" => daemons[d].port # NoPort
==============================================================================
