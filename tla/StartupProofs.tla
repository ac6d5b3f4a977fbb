---------------------------- MODULE StartupProofs ----------------------------
(***************************************************************************)
(* What is proved about Startup.tla for any number of starts, proxy ports  *)
(* and faults: its type invariant, that a supervised cloudflared has read  *)
(* its own proxy's port, that it implements SingleDaemon, and by whom a    *)
(* start's daemon is refused the daemon lock.                              *)
(*                                                                         *)
(* The inductive invariant says what the place of a daemon process in      *)
(* run() means for the lock, the endpoint, its cloudflared and config.yml: *)
(* the code relies on the order of its steps and nowhere checks it.        *)
(***************************************************************************)
EXTENDS Startup, TLAPS

(* Where run() is while it holds the daemon lock: from the port's reservation to its end. *)
Holding ==
    {"reserving", "configuring", "probing", "removing", "binding", "spawning", "attaching",
     "stabilizing", "serving", "ending", "failing"}

(* Where its listener may be open. *)
Offering == {"spawning", "attaching", "stabilizing", "serving", "ending", "failing"}

(* Where its cloudflared may run. *)
Tunnelling == {"attaching", "stabilizing", "serving", "ending", "failing"}

(* Where config.yml is its own: from normalize_validate_and_replace to the end of the service. *)
Configured ==
    {"probing", "removing", "binding", "spawning", "attaching", "stabilizing", "serving", "ending"}

(* Where it has not spawned cloudflared yet. *)
BeforeTunnel ==
    {"none", "locking", "refused", "reserving", "configuring", "probing", "removing", "binding",
     "spawning"}

(* What the place of a daemon process in run() says of the lock, the endpoint, its cloudflared *)
(* and config.yml; a start that has not spawned one has none.                                  *)
Placed(d) ==
    /\ daemons[d].at \in Holding <=> daemonLock = d
    /\ d \in listening => daemons[d].at \in Offering
    /\ daemons[d].tunnel = "running" => daemons[d].at \in Tunnelling
    /\ (daemons[d].at \in Configured \/ daemons[d].tunnel = "running") => config = daemons[d].port
    /\ daemons[d].at \in BeforeTunnel => daemons[d].tunnel = "none"
    /\ daemons[d].tunnel = "none" => daemons[d].tunnelPort = NoPort
    /\ daemons[d].tunnel = "running" /\ daemons[d].tunnelPort # NoPort =>
           daemons[d].tunnelPort = daemons[d].port
    /\ starters[d].at \in {"new", "locking", "retrying"} => daemons[d].at = "none"

(* The inductive invariant. *)
StartupInv == StartupTypeOK /\ \A d \in Starters : Placed(d)

(* What a process does under the daemon lock, or without touching what is shared, leaves every *)
(* other process where it is: the daemon lock changes hands by its holder only, config.yml is  *)
(* written by the holder only.                                                                 *)
LEMMA Others ==
    ASSUME NEW d \in Starters, NEW e \in Starters, d # e, Placed(e),
           daemons'[e] = daemons[e], starters'[e].at = starters[e].at,
           e \in listening' => e \in listening,
           daemonLock' = e <=> daemonLock = e,
           config' = config \/ daemonLock = d
    PROVE  Placed(e)'
BY DEF Placed, Holding, Tunnelling, Configured

(* Which places a daemon process reaches from which: it starts once, and a shutdown is not taken *)
(* back.                                                                                         *)
AtAges(d) ==
    /\ daemons'[d].at \in Holding \cup {"locking"} => daemons[d].at \in Holding \cup {"locking"}
    /\ daemons'[d].at = "locking" => daemons[d].at = "locking"
    /\ daemons[d].at \in {"ending", "failing"} =>
           daemons'[d].at \in {"ending", "failing", "leaving", "exited"}
    /\ daemons[d].at \in {"leaving", "exited"} => daemons'[d].at \in {"leaving", "exited"}
    /\ daemons[d].at \in {"none", "exited"} => daemons'[d].at = daemons[d].at

(* A step of one daemon process. *)
Ages(d) == AtAges(d) /\ \A e \in Starters \ {d} : daemons'[e] = daemons[e]

(* What an update of a daemon's record does to its fields; first, a move in run(). *)
LEMMA DaemonGoesEffect ==
    ASSUME daemons \in [Starters -> DaemonRecord], NEW d \in Starters,
           NEW label \in DaemonLabel, DaemonGoes(d, label)
    PROVE  /\ daemons' \in [Starters -> DaemonRecord]
           /\ \A e \in Starters \ {d} : daemons'[e] = daemons[e]
           /\ daemons'[d].at = label
           /\ daemons'[d].error = daemons[d].error
           /\ daemons'[d].port = daemons[d].port
           /\ daemons'[d].tunnel = daemons[d].tunnel
           /\ daemons'[d].tunnelPort = daemons[d].tunnelPort
<1>1. daemons[d] \in DaemonRecord
  OBVIOUS
<1> QED BY DEF DaemonRecord, DaemonGoes

(* A move with an error to report. *)
LEMMA DaemonErrorEffect ==
    ASSUME daemons \in [Starters -> DaemonRecord], NEW d \in Starters,
           NEW label \in DaemonLabel, NEW error \in DaemonError,
           daemons' = [daemons EXCEPT ![d].at = label, ![d].error = error]
    PROVE  /\ daemons' \in [Starters -> DaemonRecord]
           /\ \A e \in Starters \ {d} : daemons'[e] = daemons[e]
           /\ daemons'[d].at = label
           /\ daemons'[d].error = error
           /\ daemons'[d].port = daemons[d].port
           /\ daemons'[d].tunnel = daemons[d].tunnel
           /\ daemons'[d].tunnelPort = daemons[d].tunnelPort
<1>1. daemons[d] \in DaemonRecord
  OBVIOUS
<1> QED BY DEF DaemonRecord

(* A move with a port reserved. *)
LEMMA DaemonPortEffect ==
    ASSUME daemons \in [Starters -> DaemonRecord], NEW d \in Starters,
           NEW label \in DaemonLabel, NEW port \in Ports,
           daemons' = [daemons EXCEPT ![d].at = label, ![d].port = port]
    PROVE  /\ daemons' \in [Starters -> DaemonRecord]
           /\ \A e \in Starters \ {d} : daemons'[e] = daemons[e]
           /\ daemons'[d].at = label
           /\ daemons'[d].error = daemons[d].error
           /\ daemons'[d].port = port
           /\ daemons'[d].tunnel = daemons[d].tunnel
           /\ daemons'[d].tunnelPort = daemons[d].tunnelPort
<1>1. daemons[d] \in DaemonRecord
  OBVIOUS
<1> QED BY DEF DaemonRecord

(* A move with cloudflared spawned. *)
LEMMA DaemonTunnelEffect ==
    ASSUME daemons \in [Starters -> DaemonRecord], NEW d \in Starters,
           NEW label \in DaemonLabel, NEW tunnel \in {"none", "running", "gone", "orphan"},
           daemons' = [daemons EXCEPT ![d].at = label, ![d].tunnel = tunnel]
    PROVE  /\ daemons' \in [Starters -> DaemonRecord]
           /\ \A e \in Starters \ {d} : daemons'[e] = daemons[e]
           /\ daemons'[d].at = label
           /\ daemons'[d].error = daemons[d].error
           /\ daemons'[d].port = daemons[d].port
           /\ daemons'[d].tunnel = tunnel
           /\ daemons'[d].tunnelPort = daemons[d].tunnelPort
<1>1. daemons[d] \in DaemonRecord
  OBVIOUS
<1> QED BY DEF DaemonRecord

(* cloudflared ends. *)
LEMMA TunnelOnlyEffect ==
    ASSUME daemons \in [Starters -> DaemonRecord], NEW d \in Starters,
           NEW tunnel \in {"none", "running", "gone", "orphan"},
           daemons' = [daemons EXCEPT ![d].tunnel = tunnel]
    PROVE  /\ daemons' \in [Starters -> DaemonRecord]
           /\ \A e \in Starters \ {d} : daemons'[e] = daemons[e]
           /\ daemons'[d].at = daemons[d].at
           /\ daemons'[d].error = daemons[d].error
           /\ daemons'[d].port = daemons[d].port
           /\ daemons'[d].tunnel = tunnel
           /\ daemons'[d].tunnelPort = daemons[d].tunnelPort
<1>1. daemons[d] \in DaemonRecord
  OBVIOUS
<1> QED BY DEF DaemonRecord

(* cloudflared has read config.yml. *)
LEMMA TunnelPortEffect ==
    ASSUME daemons \in [Starters -> DaemonRecord], NEW d \in Starters,
           NEW port \in Ports,
           daemons' = [daemons EXCEPT ![d].tunnelPort = port]
    PROVE  /\ daemons' \in [Starters -> DaemonRecord]
           /\ \A e \in Starters \ {d} : daemons'[e] = daemons[e]
           /\ daemons'[d].at = daemons[d].at
           /\ daemons'[d].error = daemons[d].error
           /\ daemons'[d].port = daemons[d].port
           /\ daemons'[d].tunnel = daemons[d].tunnel
           /\ daemons'[d].tunnelPort = port
<1>1. daemons[d] \in DaemonRecord
  OBVIOUS
<1> QED BY DEF DaemonRecord

(* A child that cannot be attached. *)
LEMMA AttachFailsEffect ==
    ASSUME daemons \in [Starters -> DaemonRecord], NEW d \in Starters,
           daemons' = [daemons EXCEPT ![d].at = "failing", ![d].error = "failed",
                                     ![d].tunnel = "gone"]
    PROVE  /\ daemons' \in [Starters -> DaemonRecord]
           /\ \A e \in Starters \ {d} : daemons'[e] = daemons[e]
           /\ daemons'[d].at = "failing"
           /\ daemons'[d].error = "failed"
           /\ daemons'[d].port = daemons[d].port
           /\ daemons'[d].tunnel = "gone"
           /\ daemons'[d].tunnelPort = daemons[d].tunnelPort
<1>1. daemons[d] \in DaemonRecord
  OBVIOUS
<1> QED BY <1>1 DEF DaemonRecord, DaemonLabel, DaemonError

(* run() returns: the port is free again. *)
LEMMA LeaveRunEffect ==
    ASSUME daemons \in [Starters -> DaemonRecord], NEW d \in Starters, LeaveRun(d)
    PROVE  /\ daemons' \in [Starters -> DaemonRecord]
           /\ \A e \in Starters \ {d} : daemons'[e] = daemons[e]
           /\ daemons'[d].at = "leaving"
           /\ daemons'[d].error = daemons[d].error
           /\ daemons'[d].port = NoPort
           /\ daemons'[d].tunnel = daemons[d].tunnel
           /\ daemons'[d].tunnelPort = NoPort
<1>1. daemons[d] \in DaemonRecord
  OBVIOUS
<1> QED BY DEF LeaveRun, DaemonRecord, DaemonLabel, Ports

(* A daemon is killed: its port is free again and nobody supervises its cloudflared. *)
LEMMA CrashDaemonEffect ==
    ASSUME daemons \in [Starters -> DaemonRecord], NEW d \in Starters, CrashDaemon(d)
    PROVE  /\ daemons' \in [Starters -> DaemonRecord]
           /\ \A e \in Starters \ {d} : daemons'[e] = daemons[e]
           /\ daemons'[d].at = "exited"
           /\ daemons'[d].port = NoPort
           /\ daemons'[d].tunnel # "running"
           /\ daemons'[d].tunnelPort = NoPort
<1>1. daemons[d] \in DaemonRecord
  OBVIOUS
<1> QED BY <1>1 DEF CrashDaemon, DaemonRecord, DaemonLabel, Ports

(* A start moves on. *)
LEMMA GoToEffect ==
    ASSUME starters \in [Starters -> StarterRecord], NEW s \in Starters,
           NEW label \in StarterLabel, GoTo(s, label)
    PROVE  /\ starters' \in [Starters -> StarterRecord]
           /\ \A e \in Starters \ {s} : starters'[e] = starters[e]
           /\ starters'[s].at = label
           /\ starters'[s].joined = starters[s].joined
           /\ starters'[s].told = starters[s].told
<1>1. starters[s] \in StarterRecord
  OBVIOUS
<1> QED BY DEF GoTo, StarterRecord

(* A start ends, and gives back the startup lock if it holds it. *)
LEMMA EndEffect ==
    ASSUME starters \in [Starters -> StarterRecord], startupLock \in Starters \cup {NoOne},
           NEW s \in Starters, NEW told \in Told, End(s, told)
    PROVE  /\ starters' \in [Starters -> StarterRecord]
           /\ \A e \in Starters \ {s} : starters'[e] = starters[e]
           /\ starters'[s].at = "ended"
           /\ starters'[s].joined = starters[s].joined
           /\ starters'[s].told = told
           /\ startupLock' \in Starters \cup {NoOne}
<1>1. starters[s] \in StarterRecord
  OBVIOUS
<1> QED BY DEF End, StarterRecord, StarterLabel

(* A start is connected. *)
LEMMA JoinEffect ==
    ASSUME starters \in [Starters -> StarterRecord], startupLock \in Starters \cup {NoOne},
           busy \subseteq Starters,
           NEW s \in Starters, NEW d \in Starters, Join(s, d)
    PROVE  /\ starters' \in [Starters -> StarterRecord]
           /\ \A e \in Starters \ {s} : starters'[e] = starters[e]
           /\ starters'[s].at = "registering"
           /\ starters'[s].joined = d
           /\ starters'[s].told = starters[s].told
           /\ startupLock' \in Starters \cup {NoOne}
           /\ busy' \subseteq Starters
<1>1. starters[s] \in StarterRecord
  OBVIOUS
<1> QED BY DEF Join, StarterRecord, StarterLabel

(* A step of a start that spawns nothing leaves every daemon where it is. *)
LEMMA StarterKeepsPlaces ==
    ASSUME \A d \in Starters : Placed(d), NEW s \in Starters,
           UNCHANGED <<daemons, daemonLock, listening, config>>,
           \A e \in Starters \ {s} : starters'[e] = starters[e],
           starters'[s].at \in {"new", "locking", "retrying"} => daemons[s].at = "none"
    PROVE  \A d \in Starters : Placed(d)'
<1> SUFFICES ASSUME NEW d \in Starters PROVE Placed(d)'
  OBVIOUS
<1>1. Placed(d)
  OBVIOUS
<1>2. CASE d = s
  BY DEF Placed
<1>3. CASE d # s
  <2>1. starters'[d] = starters[d]
    BY <1>3
  <2> QED BY DEF Placed
<1> QED BY <1>2, <1>3

(* A step of a daemon leaves the others where they are if it is itself in place afterwards and *)
(* kept to what Others allows.                                                                 *)
LEMMA DaemonKeepsPlaces ==
    ASSUME \A e \in Starters : Placed(e), NEW d \in Starters, Placed(d)',
           UNCHANGED starters,
           \A e \in Starters \ {d} : daemons'[e] = daemons[e],
           listening' \ {d} = listening \ {d},
           daemonLock' = daemonLock \/ {daemonLock, daemonLock'} = {d, NoOne},
           config' = config \/ daemonLock = d
    PROVE  \A e \in Starters : Placed(e)'
<1> SUFFICES ASSUME NEW e \in Starters, e # d PROVE Placed(e)'
  OBVIOUS
<1>1. Placed(e) /\ starters'[e] = starters[e] /\ daemons'[e] = daemons[e]
  OBVIOUS
<1>2. e \in listening' <=> e \in listening
  OBVIOUS
<1>3. daemonLock' = e <=> daemonLock = e
  BY NoOneAssumption
<1> QED BY <1>3, Others

(* AcquireDaemon: the lock is taken only while nobody has it. *)
LEMMA AcquireDaemonKeeps ==
    ASSUME StartupInv, NEW d \in Starters, AcquireDaemon(d), OnlyDaemon,
           UNCHANGED <<platform, taken, faults>>
    PROVE  StartupInv' /\ Ages(d)
<1>1. /\ StartupTypeOK /\ Placed(d) /\ UNCHANGED starters
      /\ daemons \in [Starters -> DaemonRecord] /\ daemons[d] \in DaemonRecord
  BY DEF StartupInv, StartupTypeOK, OnlyDaemon
<1>2. /\ daemons' \in [Starters -> DaemonRecord]
      /\ \A e \in Starters \ {d} : daemons'[e] = daemons[e]
      /\ Placed(d)' /\ AtAges(d)
  <2>1. CASE DaemonGoes(d, "reserving") /\ ~LockIsTaken /\ daemonLock' = d
    BY ZenonT(60), <1>1, <2>1, DaemonGoesEffect
    DEF AcquireDaemon, endpointVars, Placed, Holding, Offering, Configured, BeforeTunnel, AtAges,
        DaemonLabel
  <2>2. CASE /\ daemons' = [daemons EXCEPT ![d].at = "refused", ![d].error = "already running"]
             /\ UNCHANGED daemonLock
    BY ZenonT(60), <1>1, <2>2, DaemonErrorEffect
    DEF AcquireDaemon, endpointVars, Placed, Holding, Offering, Configured, BeforeTunnel, AtAges,
        DaemonLabel, DaemonError
  <2>3. CASE /\ daemons' = [daemons EXCEPT ![d].at = "leaving", ![d].error = "failed"]
             /\ UNCHANGED daemonLock
    BY <1>1, <2>3, DaemonErrorEffect
    DEF AcquireDaemon, endpointVars, Placed, Holding, Offering, Configured, BeforeTunnel, AtAges,
        DaemonLabel, DaemonError
  <2> QED BY <2>1, <2>2, <2>3 DEF AcquireDaemon
<1>3. StartupTypeOK'
  BY <1>1, <1>2 DEF AcquireDaemon, OnlyDaemon, endpointVars, StartupTypeOK
<1>4. /\ listening' \ {d} = listening \ {d}
      /\ daemonLock' = daemonLock \/ {daemonLock, daemonLock'} = {d, NoOne}
      /\ config' = config \/ daemonLock = d
  BY DEF AcquireDaemon, endpointVars, LockIsTaken
<1> QED BY <1>1, <1>2, <1>3, <1>4, DaemonKeepsPlaces DEF StartupInv, Ages

(* ReservePort: the lock is held, and nothing shared is touched. *)
LEMMA ReservePortKeeps ==
    ASSUME StartupInv, NEW d \in Starters, ReservePort(d), OnlyDaemon,
           UNCHANGED <<platform, taken, faults>>
    PROVE  StartupInv' /\ Ages(d)
<1>1. /\ StartupTypeOK /\ Placed(d) /\ UNCHANGED starters
      /\ daemons \in [Starters -> DaemonRecord] /\ daemons[d] \in DaemonRecord
  BY DEF StartupInv, StartupTypeOK, OnlyDaemon
<1>4. /\ daemons[d].at = "reserving"
      /\ UNCHANGED <<daemonLock, listening, config, starters>>
  BY <1>1 DEF ReservePort, endpointVars
<1>2. /\ daemons' \in [Starters -> DaemonRecord]
      /\ \A e \in Starters \ {d} : daemons'[e] = daemons[e]
      /\ Placed(d)' /\ AtAges(d)
  <2>1. CASE \E p \in ProxyPorts :
             daemons' = [daemons EXCEPT ![d].at = "configuring", ![d].port = p]
    <3>1. PICK p \in ProxyPorts :
               daemons' = [daemons EXCEPT ![d].at = "configuring", ![d].port = p]
      BY <2>1
    <3>2. "configuring" \in DaemonLabel /\ p \in Ports
      BY DEF DaemonLabel, Ports
    <3>3. /\ daemons' \in [Starters -> DaemonRecord]
          /\ \A e \in Starters \ {d} : daemons'[e] = daemons[e]
          /\ daemons'[d].at = "configuring"
          /\ daemons'[d].tunnel = daemons[d].tunnel
          /\ daemons'[d].tunnelPort = daemons[d].tunnelPort
      BY <1>1, <3>1, <3>2, DaemonPortEffect, Zenon
    <3>4. AtAges(d)
      BY <1>4, <3>3 DEF AtAges, Holding
    <3>5. Placed(d)'
      BY <1>1, <1>4, <3>3
      DEF Placed, Holding, Offering, Tunnelling, Configured, BeforeTunnel
    <3> QED BY <3>3, <3>4, <3>5
  <2>2. CASE \E error \in DaemonError : Fails(d, error)
    <3>1. PICK error \in DaemonError : Fails(d, error)
      BY <2>2
    <3>2. "failing" \in DaemonLabel
      BY DEF DaemonLabel
    <3>3. /\ daemons' \in [Starters -> DaemonRecord]
          /\ \A e \in Starters \ {d} : daemons'[e] = daemons[e]
          /\ daemons'[d].at = "failing"
          /\ daemons'[d].tunnel = daemons[d].tunnel
          /\ daemons'[d].tunnelPort = daemons[d].tunnelPort
      BY <1>1, <3>1, <3>2, DaemonErrorEffect DEF Fails
    <3>4. AtAges(d)
      BY <1>4, <3>3 DEF AtAges, Holding
    <3>5. Placed(d)'
      BY <1>1, <1>4, <3>3
      DEF Placed, Holding, Offering, Tunnelling, Configured, BeforeTunnel
    <3> QED BY <3>3, <3>4, <3>5
  <2> QED BY <2>1, <2>2 DEF ReservePort, FreePorts, RunError, DaemonError
<1>3. StartupTypeOK'
  BY <1>1, <1>2 DEF ReservePort, OnlyDaemon, endpointVars, StartupTypeOK, DaemonRecord, Ports
<1>5. /\ listening' \ {d} = listening \ {d}
      /\ daemonLock' = daemonLock \/ {daemonLock, daemonLock'} = {d, NoOne}
      /\ config' = config \/ daemonLock = d
  BY <1>1 DEF ReservePort, endpointVars, LockIsTaken, Placed, Holding
<1> QED BY <1>1, <1>2, <1>3, <1>5, DaemonKeepsPlaces DEF StartupInv, Ages

(* Configure: config.yml is written by the holder of the lock. *)
LEMMA ConfigureKeeps ==
    ASSUME StartupInv, NEW d \in Starters, Configure(d), OnlyDaemon,
           UNCHANGED <<platform, taken, faults>>
    PROVE  StartupInv' /\ Ages(d)
<1>1. /\ StartupTypeOK /\ Placed(d) /\ UNCHANGED starters
      /\ daemons \in [Starters -> DaemonRecord] /\ daemons[d] \in DaemonRecord
  BY DEF StartupInv, StartupTypeOK, OnlyDaemon
<1>2. /\ daemons' \in [Starters -> DaemonRecord]
      /\ \A e \in Starters \ {d} : daemons'[e] = daemons[e]
      /\ Placed(d)' /\ AtAges(d)
  <2>1. CASE DaemonGoes(d, "probing") /\ config' = daemons[d].port
    BY SMTT(60), <1>1, <2>1, DaemonGoesEffect
    DEF Configure, endpointVars, Placed, Holding, Offering, BeforeTunnel, AtAges, DaemonLabel
  <2>2. CASE Fails(d, "failed") /\ UNCHANGED config
    BY ZenonT(60), <1>1, <2>2, DaemonErrorEffect
    DEF Configure, Placed, Holding, Offering, Configured, BeforeTunnel, AtAges, DaemonLabel,
        DaemonError, Fails
  <2> QED BY <2>1, <2>2 DEF Configure
<1>3. StartupTypeOK'
  BY <1>1, <1>2 DEF Configure, OnlyDaemon, endpointVars, StartupTypeOK, DaemonRecord
<1>4. /\ listening' \ {d} = listening \ {d}
      /\ daemonLock' = daemonLock \/ {daemonLock, daemonLock'} = {d, NoOne}
      /\ config' = config \/ daemonLock = d
  BY <1>1 DEF Configure, endpointVars, Placed, Holding
<1> QED BY <1>1, <1>2, <1>3, <1>4, DaemonKeepsPlaces DEF StartupInv, Ages

(* ProbeEndpoint: only the place changes. *)
LEMMA ProbeEndpointKeeps ==
    ASSUME StartupInv, NEW d \in Starters, ProbeEndpoint(d), OnlyDaemon,
           UNCHANGED <<platform, taken, faults>>
    PROVE  StartupInv' /\ Ages(d)
<1>1. /\ StartupTypeOK /\ Placed(d) /\ UNCHANGED starters
      /\ daemons \in [Starters -> DaemonRecord] /\ daemons[d] \in DaemonRecord
  BY DEF StartupInv, StartupTypeOK, OnlyDaemon
<1>2. /\ daemons' \in [Starters -> DaemonRecord]
      /\ \A e \in Starters \ {d} : daemons'[e] = daemons[e]
      /\ Placed(d)' /\ AtAges(d)
  <2>1. CASE DaemonGoes(d, "binding") \/ DaemonGoes(d, "removing")
    BY <1>1, <2>1, DaemonGoesEffect
    DEF ProbeEndpoint, endpointVars, Placed, Holding, Offering, Configured, BeforeTunnel, AtAges,
        DaemonLabel
  <2>2. CASE Fails(d, "address in use")
    BY ZenonT(60), <1>1, <2>2, DaemonErrorEffect
    DEF ProbeEndpoint, Placed, Holding, Offering, Configured, BeforeTunnel, AtAges, DaemonLabel,
        DaemonError, Fails
  <2> QED BY <2>1, <2>2 DEF ProbeEndpoint
<1>3. StartupTypeOK'
  BY <1>1, <1>2 DEF ProbeEndpoint, OnlyDaemon, endpointVars, StartupTypeOK
<1>4. /\ listening' \ {d} = listening \ {d}
      /\ daemonLock' = daemonLock \/ {daemonLock, daemonLock'} = {d, NoOne}
      /\ config' = config \/ daemonLock = d
  BY DEF ProbeEndpoint, endpointVars
<1> QED BY <1>1, <1>2, <1>3, <1>4, DaemonKeepsPlaces DEF StartupInv, Ages

(* RemoveStaleSocket: the file goes, no listener does. *)
LEMMA RemoveStaleSocketKeeps ==
    ASSUME StartupInv, NEW d \in Starters, RemoveStaleSocket(d), OnlyDaemon,
           UNCHANGED <<platform, taken, faults>>
    PROVE  StartupInv' /\ Ages(d)
<1>1. /\ StartupTypeOK /\ Placed(d) /\ UNCHANGED starters
      /\ daemons \in [Starters -> DaemonRecord] /\ daemons[d] \in DaemonRecord
  BY DEF StartupInv, StartupTypeOK, OnlyDaemon
<1>2. /\ daemons' \in [Starters -> DaemonRecord]
      /\ \A e \in Starters \ {d} : daemons'[e] = daemons[e]
      /\ Placed(d)' /\ AtAges(d)
  <2>1. CASE DaemonGoes(d, "binding")
    BY <1>1, <2>1, DaemonGoesEffect
    DEF RemoveStaleSocket, Placed, Holding, Offering, Configured, BeforeTunnel, AtAges,
        DaemonLabel
  <2>2. CASE Fails(d, "failed")
    BY ZenonT(60), <1>1, <2>2, DaemonErrorEffect
    DEF RemoveStaleSocket, Placed, Holding, Offering, Configured, BeforeTunnel, AtAges,
        DaemonLabel, DaemonError, Fails
  <2> QED BY <2>1, <2>2 DEF RemoveStaleSocket
<1>3. StartupTypeOK'
  BY <1>1, <1>2 DEF RemoveStaleSocket, OnlyDaemon, StartupTypeOK
<1>4. /\ listening' \ {d} = listening \ {d}
      /\ daemonLock' = daemonLock \/ {daemonLock, daemonLock'} = {d, NoOne}
      /\ config' = config \/ daemonLock = d
  BY DEF RemoveStaleSocket
<1> QED BY <1>1, <1>2, <1>3, <1>4, DaemonKeepsPlaces DEF StartupInv, Ages

(* Bind: the listener is the holder's. *)
LEMMA BindKeeps ==
    ASSUME StartupInv, NEW d \in Starters, Bind(d), OnlyDaemon,
           UNCHANGED <<platform, taken, faults>>
    PROVE  StartupInv' /\ Ages(d)
<1>1. /\ StartupTypeOK /\ Placed(d) /\ UNCHANGED starters
      /\ daemons \in [Starters -> DaemonRecord] /\ daemons[d] \in DaemonRecord
  BY DEF StartupInv, StartupTypeOK, OnlyDaemon
<1>2. /\ daemons' \in [Starters -> DaemonRecord]
      /\ \A e \in Starters \ {d} : daemons'[e] = daemons[e]
      /\ Placed(d)' /\ AtAges(d)
  <2>1. CASE DaemonGoes(d, "spawning") /\ listening' = listening \cup {d}
    BY <1>1, <2>1, DaemonGoesEffect
    DEF Bind, Placed, Holding, Offering, Configured, BeforeTunnel, AtAges, DaemonLabel
  <2>2. CASE (Fails(d, "address in use") \/ Fails(d, "failed")) /\ UNCHANGED listening
    BY ZenonT(60), <1>1, <2>2, DaemonErrorEffect
    DEF Bind, Placed, Holding, Offering, Configured, BeforeTunnel, AtAges, DaemonLabel,
        DaemonError, Fails
  <2> QED BY <2>1, <2>2 DEF Bind
<1>3. StartupTypeOK'
  BY <1>1, <1>2 DEF Bind, OnlyDaemon, StartupTypeOK
<1>4. /\ listening' \ {d} = listening \ {d}
      /\ daemonLock' = daemonLock \/ {daemonLock, daemonLock'} = {d, NoOne}
      /\ config' = config \/ daemonLock = d
  BY DEF Bind
<1> QED BY <1>1, <1>2, <1>3, <1>4, DaemonKeepsPlaces DEF StartupInv, Ages

(* SpawnTunnel: a cloudflared that has read nothing yet. *)
LEMMA SpawnTunnelKeeps ==
    ASSUME StartupInv, NEW d \in Starters, SpawnTunnel(d), OnlyDaemon,
           UNCHANGED <<platform, taken, faults>>
    PROVE  StartupInv' /\ Ages(d)
<1>1. /\ StartupTypeOK /\ Placed(d) /\ UNCHANGED starters
      /\ daemons \in [Starters -> DaemonRecord] /\ daemons[d] \in DaemonRecord
  BY DEF StartupInv, StartupTypeOK, OnlyDaemon
<1>2. /\ daemons' \in [Starters -> DaemonRecord]
      /\ \A e \in Starters \ {d} : daemons'[e] = daemons[e]
      /\ Placed(d)' /\ AtAges(d)
  <2>1. CASE daemons' = [daemons EXCEPT ![d].at = "attaching", ![d].tunnel = "running"]
    BY ZenonT(60), <1>1, <2>1, DaemonTunnelEffect
    DEF SpawnTunnel, Placed, Holding, Offering, Tunnelling, Configured, BeforeTunnel, AtAges,
        DaemonLabel
  <2>2. CASE Fails(d, "failed")
    BY <1>1, <2>2, DaemonErrorEffect
    DEF SpawnTunnel, Placed, Holding, Offering, Configured, BeforeTunnel, AtAges, DaemonLabel,
        DaemonError, Fails
  <2> QED BY <2>1, <2>2 DEF SpawnTunnel
<1>3. StartupTypeOK'
  BY <1>1, <1>2 DEF SpawnTunnel, OnlyDaemon, endpointVars, StartupTypeOK
<1>4. /\ listening' \ {d} = listening \ {d}
      /\ daemonLock' = daemonLock \/ {daemonLock, daemonLock'} = {d, NoOne}
      /\ config' = config \/ daemonLock = d
  BY DEF SpawnTunnel, endpointVars
<1> QED BY <1>1, <1>2, <1>3, <1>4, DaemonKeepsPlaces DEF StartupInv, Ages

(* AttachTunnel: it runs on, or is killed. *)
LEMMA AttachTunnelKeeps ==
    ASSUME StartupInv, NEW d \in Starters, AttachTunnel(d), OnlyDaemon,
           UNCHANGED <<platform, taken, faults>>
    PROVE  StartupInv' /\ Ages(d)
<1>1. /\ StartupTypeOK /\ Placed(d) /\ UNCHANGED starters
      /\ daemons \in [Starters -> DaemonRecord] /\ daemons[d] \in DaemonRecord
  BY DEF StartupInv, StartupTypeOK, OnlyDaemon
<1>2. /\ daemons' \in [Starters -> DaemonRecord]
      /\ \A e \in Starters \ {d} : daemons'[e] = daemons[e]
      /\ Placed(d)' /\ AtAges(d)
  <2>1. CASE DaemonGoes(d, "stabilizing")
    BY <1>1, <2>1, DaemonGoesEffect
    DEF AttachTunnel, Placed, Holding, Offering, Tunnelling, Configured, BeforeTunnel, AtAges,
        DaemonLabel
  <2>2. CASE daemons' = [daemons EXCEPT ![d].at = "failing", ![d].error = "failed",
                                            ![d].tunnel = "gone"]
    BY <1>1, <2>2, AttachFailsEffect
    DEF AttachTunnel, Placed, Holding, Offering, Configured, BeforeTunnel, AtAges
  <2> QED BY <2>1, <2>2 DEF AttachTunnel
<1>3. StartupTypeOK'
  BY <1>1, <1>2 DEF AttachTunnel, OnlyDaemon, endpointVars, StartupTypeOK
<1>4. /\ listening' \ {d} = listening \ {d}
      /\ daemonLock' = daemonLock \/ {daemonLock, daemonLock'} = {d, NoOne}
      /\ config' = config \/ daemonLock = d
  BY DEF AttachTunnel, endpointVars
<1> QED BY <1>1, <1>2, <1>3, <1>4, DaemonKeepsPlaces DEF StartupInv, Ages

(* Stabilize: only the place changes. *)
LEMMA StabilizeKeeps ==
    ASSUME StartupInv, NEW d \in Starters, Stabilize(d), OnlyDaemon,
           UNCHANGED <<platform, taken, faults>>
    PROVE  StartupInv' /\ Ages(d)
<1>1. /\ StartupTypeOK /\ Placed(d) /\ UNCHANGED starters
      /\ daemons \in [Starters -> DaemonRecord] /\ daemons[d] \in DaemonRecord
  BY DEF StartupInv, StartupTypeOK, OnlyDaemon
<1>2. /\ daemons' \in [Starters -> DaemonRecord]
      /\ \A e \in Starters \ {d} : daemons'[e] = daemons[e]
      /\ Placed(d)' /\ AtAges(d)
  <2>1. CASE DaemonGoes(d, "serving")
    BY SMTT(60), <1>1, <2>1, DaemonGoesEffect
    DEF Stabilize, Placed, Holding, Offering, Tunnelling, Configured, BeforeTunnel, AtAges,
        DaemonLabel
  <2>2. CASE Fails(d, "failed")
    BY <1>1, <2>2, DaemonErrorEffect
    DEF Stabilize, Placed, Holding, Offering, Tunnelling, Configured, BeforeTunnel, AtAges,
        DaemonLabel, DaemonError, Fails
  <2> QED BY <2>1, <2>2 DEF Stabilize
<1>3. StartupTypeOK'
  BY <1>1, <1>2 DEF Stabilize, OnlyDaemon, endpointVars, StartupTypeOK
<1>4. /\ listening' \ {d} = listening \ {d}
      /\ daemonLock' = daemonLock \/ {daemonLock, daemonLock'} = {d, NoOne}
      /\ config' = config \/ daemonLock = d
  BY DEF Stabilize, endpointVars
<1> QED BY <1>1, <1>2, <1>3, <1>4, DaemonKeepsPlaces DEF StartupInv, Ages

(* AcceptConnection: only the pipe instances change. *)
LEMMA AcceptConnectionKeeps ==
    ASSUME StartupInv, NEW d \in Starters, AcceptConnection(d), OnlyDaemon,
           UNCHANGED <<platform, taken, faults>>
    PROVE  StartupInv' /\ Ages(d)
<1>1. /\ StartupTypeOK /\ Placed(d) /\ UNCHANGED starters
      /\ daemons \in [Starters -> DaemonRecord] /\ daemons[d] \in DaemonRecord
  BY DEF StartupInv, StartupTypeOK, OnlyDaemon
<1>2. /\ daemons' \in [Starters -> DaemonRecord]
      /\ \A e \in Starters \ {d} : daemons'[e] = daemons[e]
      /\ Placed(d)' /\ AtAges(d)
  BY <1>1 DEF AcceptConnection, Placed, AtAges
<1>3. StartupTypeOK'
  BY <1>1 DEF AcceptConnection, OnlyDaemon, StartupTypeOK
<1>4. /\ listening' \ {d} = listening \ {d}
      /\ daemonLock' = daemonLock \/ {daemonLock, daemonLock'} = {d, NoOne}
      /\ config' = config \/ daemonLock = d
  BY DEF AcceptConnection
<1> QED BY <1>1, <1>2, <1>3, <1>4, DaemonKeepsPlaces DEF StartupInv, Ages

(* Cancel: only the place changes. *)
LEMMA CancelKeeps ==
    ASSUME StartupInv, NEW d \in Starters, Cancel(d), OnlyDaemon,
           UNCHANGED <<platform, taken, faults>>
    PROVE  StartupInv' /\ Ages(d)
<1>1. /\ StartupTypeOK /\ Placed(d) /\ UNCHANGED starters
      /\ daemons \in [Starters -> DaemonRecord] /\ daemons[d] \in DaemonRecord
  BY DEF StartupInv, StartupTypeOK, OnlyDaemon
<1>2. /\ daemons' \in [Starters -> DaemonRecord]
      /\ \A e \in Starters \ {d} : daemons'[e] = daemons[e]
      /\ Placed(d)' /\ AtAges(d)
  BY <1>1, DaemonGoesEffect
  DEF Cancel, Placed, Holding, Offering, Tunnelling, Configured, BeforeTunnel, AtAges, DaemonLabel
<1>3. StartupTypeOK'
  BY <1>1, <1>2 DEF Cancel, OnlyDaemon, endpointVars, StartupTypeOK
<1>4. /\ listening' \ {d} = listening \ {d}
      /\ daemonLock' = daemonLock \/ {daemonLock, daemonLock'} = {d, NoOne}
      /\ config' = config \/ daemonLock = d
  BY DEF Cancel, endpointVars
<1> QED BY <1>1, <1>2, <1>3, <1>4, DaemonKeepsPlaces DEF StartupInv, Ages

(* CloseEndpoint: a listener less. *)
LEMMA CloseEndpointKeeps ==
    ASSUME StartupInv, NEW d \in Starters, CloseEndpoint(d), OnlyDaemon,
           UNCHANGED <<platform, taken, faults>>
    PROVE  StartupInv' /\ Ages(d)
<1>1. /\ StartupTypeOK /\ Placed(d) /\ UNCHANGED starters
      /\ daemons \in [Starters -> DaemonRecord] /\ daemons[d] \in DaemonRecord
  BY DEF StartupInv, StartupTypeOK, OnlyDaemon
<1>2. /\ daemons' \in [Starters -> DaemonRecord]
      /\ \A e \in Starters \ {d} : daemons'[e] = daemons[e]
      /\ Placed(d)' /\ AtAges(d)
  BY <1>1 DEF CloseEndpoint, DropListener, Placed, AtAges
<1>3. StartupTypeOK'
  BY <1>1 DEF CloseEndpoint, DropListener, OnlyDaemon, StartupTypeOK
<1>4. /\ listening' \ {d} = listening \ {d}
      /\ daemonLock' = daemonLock \/ {daemonLock, daemonLock'} = {d, NoOne}
      /\ config' = config \/ daemonLock = d
  BY DEF CloseEndpoint, DropListener
<1> QED BY <1>1, <1>2, <1>3, <1>4, DaemonKeepsPlaces DEF StartupInv, Ages

(* AcceptFails: a listener less, and the daemon goes on. *)
LEMMA AcceptFailsKeeps ==
    ASSUME StartupInv, NEW d \in Starters, AcceptFails(d), OnlyDaemon,
           UNCHANGED <<platform, taken, faults>>
    PROVE  StartupInv' /\ Ages(d)
<1>1. /\ StartupTypeOK /\ Placed(d) /\ UNCHANGED starters
      /\ daemons \in [Starters -> DaemonRecord] /\ daemons[d] \in DaemonRecord
  BY DEF StartupInv, StartupTypeOK, OnlyDaemon
<1>2. /\ daemons' \in [Starters -> DaemonRecord]
      /\ \A e \in Starters \ {d} : daemons'[e] = daemons[e]
      /\ Placed(d)' /\ AtAges(d)
  BY <1>1 DEF AcceptFails, DropListener, Placed, AtAges
<1>3. StartupTypeOK'
  BY <1>1 DEF AcceptFails, DropListener, OnlyDaemon, StartupTypeOK
<1>4. /\ listening' \ {d} = listening \ {d}
      /\ daemonLock' = daemonLock \/ {daemonLock, daemonLock'} = {d, NoOne}
      /\ config' = config \/ daemonLock = d
  BY DEF AcceptFails, DropListener
<1> QED BY <1>1, <1>2, <1>3, <1>4, DaemonKeepsPlaces DEF StartupInv, Ages

(* StopTunnel: a cloudflared less. *)
LEMMA StopTunnelKeeps ==
    ASSUME StartupInv, NEW d \in Starters, StopTunnel(d), OnlyDaemon,
           UNCHANGED <<platform, taken, faults>>
    PROVE  StartupInv' /\ Ages(d)
<1>1. /\ StartupTypeOK /\ Placed(d) /\ UNCHANGED starters
      /\ daemons \in [Starters -> DaemonRecord] /\ daemons[d] \in DaemonRecord
  BY DEF StartupInv, StartupTypeOK, OnlyDaemon
<1>2. /\ daemons' \in [Starters -> DaemonRecord]
      /\ \A e \in Starters \ {d} : daemons'[e] = daemons[e]
      /\ Placed(d)' /\ AtAges(d)
  BY <1>1, TunnelOnlyEffect DEF StopTunnel, endpointVars, Placed, AtAges
<1>3. StartupTypeOK'
  BY <1>1, <1>2 DEF StopTunnel, OnlyDaemon, endpointVars, StartupTypeOK
<1>4. /\ listening' \ {d} = listening \ {d}
      /\ daemonLock' = daemonLock \/ {daemonLock, daemonLock'} = {d, NoOne}
      /\ config' = config \/ daemonLock = d
  BY DEF StopTunnel, endpointVars
<1> QED BY <1>1, <1>2, <1>3, <1>4, DaemonKeepsPlaces DEF StartupInv, Ages

(* LeaveRun: the lock is given back when listener and cloudflared are gone. *)
LEMMA LeaveRunKeeps ==
    ASSUME StartupInv, NEW d \in Starters, LeaveRun(d), OnlyDaemon,
           UNCHANGED <<platform, taken, faults>>
    PROVE  StartupInv' /\ Ages(d)
<1>1. /\ StartupTypeOK /\ Placed(d) /\ UNCHANGED starters
      /\ daemons \in [Starters -> DaemonRecord] /\ daemons[d] \in DaemonRecord
  BY DEF StartupInv, StartupTypeOK, OnlyDaemon
<1>2. /\ daemons' \in [Starters -> DaemonRecord]
      /\ \A e \in Starters \ {d} : daemons'[e] = daemons[e]
      /\ Placed(d)' /\ AtAges(d)
  BY <1>1, LeaveRunEffect, NoOneAssumption
  DEF LeaveRun, endpointVars, Placed, Holding, Offering, Configured, BeforeTunnel, AtAges
<1>3. StartupTypeOK'
  BY <1>1, <1>2 DEF LeaveRun, OnlyDaemon, endpointVars, StartupTypeOK
<1>4. /\ listening' \ {d} = listening \ {d}
      /\ daemonLock' = daemonLock \/ {daemonLock, daemonLock'} = {d, NoOne}
      /\ config' = config \/ daemonLock = d
  BY DEF LeaveRun, endpointVars
<1> QED BY <1>1, <1>2, <1>3, <1>4, DaemonKeepsPlaces DEF StartupInv, Ages

(* ExitDaemon: nothing is held any more. *)
LEMMA ExitDaemonKeeps ==
    ASSUME StartupInv, NEW d \in Starters, ExitDaemon(d), OnlyDaemon,
           UNCHANGED <<platform, taken, faults>>
    PROVE  StartupInv' /\ Ages(d)
<1>1. /\ StartupTypeOK /\ Placed(d) /\ UNCHANGED starters
      /\ daemons \in [Starters -> DaemonRecord] /\ daemons[d] \in DaemonRecord
  BY DEF StartupInv, StartupTypeOK, OnlyDaemon
<1>2. /\ daemons' \in [Starters -> DaemonRecord]
      /\ \A e \in Starters \ {d} : daemons'[e] = daemons[e]
      /\ Placed(d)' /\ AtAges(d)
  BY <1>1, DaemonGoesEffect
  DEF ExitDaemon, endpointVars, Placed, Holding, Offering, Tunnelling, Configured, BeforeTunnel,
      AtAges, DaemonLabel
<1>3. StartupTypeOK'
  BY <1>1, <1>2 DEF ExitDaemon, OnlyDaemon, endpointVars, StartupTypeOK
<1>4. /\ listening' \ {d} = listening \ {d}
      /\ daemonLock' = daemonLock \/ {daemonLock, daemonLock'} = {d, NoOne}
      /\ config' = config \/ daemonLock = d
  BY DEF ExitDaemon, endpointVars
<1> QED BY <1>1, <1>2, <1>3, <1>4, DaemonKeepsPlaces DEF StartupInv, Ages

(* CrashDaemon: lock, listener and port go together. *)
LEMMA CrashDaemonKeeps ==
    ASSUME StartupInv, NEW d \in Starters, CrashDaemon(d), OnlyDaemon,
           UNCHANGED <<platform, taken>>
    PROVE  StartupInv' /\ Ages(d)
<1>1. /\ StartupTypeOK /\ Placed(d) /\ UNCHANGED starters
      /\ daemons \in [Starters -> DaemonRecord] /\ daemons[d] \in DaemonRecord
  BY DEF StartupInv, StartupTypeOK, OnlyDaemon
<1>2. /\ daemons' \in [Starters -> DaemonRecord]
      /\ \A e \in Starters \ {d} : daemons'[e] = daemons[e]
      /\ Placed(d)' /\ AtAges(d)
  BY <1>1, CrashDaemonEffect, NoOneAssumption
  DEF CrashDaemon, Placed, Holding, Configured, BeforeTunnel, AtAges
<1>3. StartupTypeOK'
  BY <1>1, <1>2, FaultsAssumption DEF CrashDaemon, OnlyDaemon, StartupTypeOK
<1>4. /\ listening' \ {d} = listening \ {d}
      /\ daemonLock' = daemonLock \/ {daemonLock, daemonLock'} = {d, NoOne}
      /\ config' = config \/ daemonLock = d
  BY DEF CrashDaemon
<1> QED BY <1>1, <1>2, <1>3, <1>4, DaemonKeepsPlaces DEF StartupInv, Ages

(* TunnelReadsConfig: config.yml is its own daemon's. *)
LEMMA TunnelReadsConfigKeeps ==
    ASSUME StartupInv, NEW d \in Starters, TunnelReadsConfig(d), OnlyDaemon,
           UNCHANGED <<platform, taken, faults>>
    PROVE  StartupInv' /\ Ages(d)
<1>1. /\ StartupTypeOK /\ Placed(d) /\ UNCHANGED starters
      /\ daemons \in [Starters -> DaemonRecord] /\ daemons[d] \in DaemonRecord
  BY DEF StartupInv, StartupTypeOK, OnlyDaemon
<1>2. /\ daemons' \in [Starters -> DaemonRecord]
      /\ \A e \in Starters \ {d} : daemons'[e] = daemons[e]
      /\ Placed(d)' /\ AtAges(d)
  BY <1>1, TunnelPortEffect DEF TunnelReadsConfig, endpointVars, Placed, AtAges, StartupTypeOK
<1>3. StartupTypeOK'
  BY <1>1, <1>2 DEF TunnelReadsConfig, OnlyDaemon, endpointVars, StartupTypeOK
<1>4. /\ listening' \ {d} = listening \ {d}
      /\ daemonLock' = daemonLock \/ {daemonLock, daemonLock'} = {d, NoOne}
      /\ config' = config \/ daemonLock = d
  BY DEF TunnelReadsConfig, endpointVars
<1> QED BY <1>1, <1>2, <1>3, <1>4, DaemonKeepsPlaces DEF StartupInv, Ages

(* TunnelExits: a cloudflared less. *)
LEMMA TunnelExitsKeeps ==
    ASSUME StartupInv, NEW d \in Starters, TunnelExits(d), OnlyDaemon,
           UNCHANGED <<platform, taken, faults>>
    PROVE  StartupInv' /\ Ages(d)
<1>1. /\ StartupTypeOK /\ Placed(d) /\ UNCHANGED starters
      /\ daemons \in [Starters -> DaemonRecord] /\ daemons[d] \in DaemonRecord
  BY DEF StartupInv, StartupTypeOK, OnlyDaemon
<1>2. /\ daemons' \in [Starters -> DaemonRecord]
      /\ \A e \in Starters \ {d} : daemons'[e] = daemons[e]
      /\ Placed(d)' /\ AtAges(d)
  BY <1>1, TunnelOnlyEffect DEF TunnelExits, endpointVars, Placed, AtAges
<1>3. StartupTypeOK'
  BY <1>1, <1>2 DEF TunnelExits, OnlyDaemon, endpointVars, StartupTypeOK
<1>4. /\ listening' \ {d} = listening \ {d}
      /\ daemonLock' = daemonLock \/ {daemonLock, daemonLock'} = {d, NoOne}
      /\ config' = config \/ daemonLock = d
  BY DEF TunnelExits, endpointVars
<1> QED BY <1>1, <1>2, <1>3, <1>4, DaemonKeepsPlaces DEF StartupInv, Ages

(* Connects: a start meets somebody who answers. *)
LEMMA ConnectsKeeps ==
    ASSUME StartupInv, NEW s \in Starters, Connects(s), UNCHANGED <<platform, taken, faults>>
    PROVE  StartupInv'
<1>1. StartupTypeOK /\ Placed(s)
  BY DEF StartupInv
<1>2. /\ starters' \in [Starters -> StarterRecord]
      /\ \A e \in Starters \ {s} : starters'[e] = starters[e]
      /\ starters'[s].at \in {"new", "locking", "retrying"} => daemons[s].at = "none"
      /\ startupLock' \in Starters \cup {NoOne} /\ busy' \subseteq Starters
  BY <1>1, JoinEffect DEF Connects, StartupTypeOK, Reachable
<1>3. StartupTypeOK'
  BY <1>1, <1>2 DEF Connects, StartupTypeOK, Join
<1>4. UNCHANGED <<daemons, daemonLock, listening, config>>
  BY DEF Connects, Join
<1> QED BY <1>2, <1>3, <1>4, StarterKeepsPlaces DEF StartupInv

(* FirstConnectFails: the preflight fails, or the start asks for its lock. *)
LEMMA FirstConnectFailsKeeps ==
    ASSUME StartupInv, NEW s \in Starters, FirstConnectFails(s),
           UNCHANGED <<platform, taken, faults>>
    PROVE  StartupInv'
<1>1. StartupTypeOK /\ Placed(s)
  BY DEF StartupInv
<1>2. /\ starters' \in [Starters -> StarterRecord]
      /\ \A e \in Starters \ {s} : starters'[e] = starters[e]
      /\ starters'[s].at \in {"new", "locking", "retrying"} => daemons[s].at = "none"
      /\ startupLock' \in Starters \cup {NoOne} /\ busy' \subseteq Starters
  BY <1>1, GoToEffect, EndEffect
  DEF FirstConnectFails, StartupTypeOK, StarterLabel, Placed, OnlyStarter, endpointVars,
      Preflight, Told, DaemonError
<1>3. StartupTypeOK'
  BY <1>1, <1>2 DEF FirstConnectFails, OnlyStarter, endpointVars, StartupTypeOK
<1>4. UNCHANGED <<daemons, daemonLock, listening, config>>
  BY DEF FirstConnectFails, OnlyStarter, endpointVars
<1> QED BY <1>2, <1>3, <1>4, StarterKeepsPlaces DEF StartupInv

(* TakeStartupLock: the startup lock is taken while nobody has it. *)
LEMMA TakeStartupLockKeeps ==
    ASSUME StartupInv, NEW s \in Starters, TakeStartupLock(s),
           UNCHANGED <<platform, taken, faults>>
    PROVE  StartupInv'
<1>1. StartupTypeOK /\ Placed(s)
  BY DEF StartupInv
<1>2. /\ starters' \in [Starters -> StarterRecord]
      /\ \A e \in Starters \ {s} : starters'[e] = starters[e]
      /\ starters'[s].at \in {"new", "locking", "retrying"} => daemons[s].at = "none"
      /\ startupLock' \in Starters \cup {NoOne} /\ busy' \subseteq Starters
  BY <1>1, GoToEffect
  DEF TakeStartupLock, StartupTypeOK, StarterLabel, Placed, OnlyStarter, endpointVars
<1>3. StartupTypeOK'
  BY <1>1, <1>2 DEF TakeStartupLock, OnlyStarter, endpointVars, StartupTypeOK
<1>4. UNCHANGED <<daemons, daemonLock, listening, config>>
  BY DEF TakeStartupLock, OnlyStarter, endpointVars
<1> QED BY <1>2, <1>3, <1>4, StarterKeepsPlaces DEF StartupInv

(* PollMisses: nobody answers. *)
LEMMA PollMissesKeeps ==
    ASSUME StartupInv, NEW s \in Starters, PollMisses(s), UNCHANGED <<platform, taken, faults>>
    PROVE  StartupInv'
<1>1. StartupTypeOK /\ Placed(s)
  BY DEF StartupInv
<1>2. /\ starters' \in [Starters -> StarterRecord]
      /\ \A e \in Starters \ {s} : starters'[e] = starters[e]
      /\ starters'[s].at \in {"new", "locking", "retrying"} => daemons[s].at = "none"
      /\ startupLock' \in Starters \cup {NoOne} /\ busy' \subseteq Starters
  BY <1>1, GoToEffect DEF PollMisses, StartupTypeOK, StarterLabel, OnlyStarter, endpointVars
<1>3. StartupTypeOK'
  BY <1>1, <1>2 DEF PollMisses, OnlyStarter, endpointVars, StartupTypeOK
<1>4. UNCHANGED <<daemons, daemonLock, listening, config>>
  BY DEF PollMisses, OnlyStarter, endpointVars
<1> QED BY <1>2, <1>3, <1>4, StarterKeepsPlaces DEF StartupInv

(* ChildHasExited: the start ends with its daemon's error. *)
LEMMA ChildHasExitedKeeps ==
    ASSUME StartupInv, NEW s \in Starters, ChildHasExited(s),
           UNCHANGED <<platform, taken, faults>>
    PROVE  StartupInv'
<1>1. StartupTypeOK /\ Placed(s)
  BY DEF StartupInv
<1>2. /\ starters' \in [Starters -> StarterRecord]
      /\ \A e \in Starters \ {s} : starters'[e] = starters[e]
      /\ starters'[s].at \in {"new", "locking", "retrying"} => daemons[s].at = "none"
      /\ startupLock' \in Starters \cup {NoOne} /\ busy' \subseteq Starters
  BY <1>1, EndEffect
  DEF ChildHasExited, StartupTypeOK, OnlyStarter, endpointVars, DaemonRecord, DaemonError, Told
<1>3. StartupTypeOK'
  BY <1>1, <1>2 DEF ChildHasExited, OnlyStarter, endpointVars, StartupTypeOK
<1>4. UNCHANGED <<daemons, daemonLock, listening, config>>
  BY DEF ChildHasExited, OnlyStarter, endpointVars
<1> QED BY <1>2, <1>3, <1>4, StarterKeepsPlaces DEF StartupInv

(* DeadlinePassed: the start gives up. *)
LEMMA DeadlinePassedKeeps ==
    ASSUME StartupInv, NEW s \in Starters, DeadlinePassed(s),
           UNCHANGED <<platform, taken, faults>>
    PROVE  StartupInv'
<1>1. StartupTypeOK /\ Placed(s)
  BY DEF StartupInv
<1>2. /\ starters' \in [Starters -> StarterRecord]
      /\ \A e \in Starters \ {s} : starters'[e] = starters[e]
      /\ starters'[s].at \in {"new", "locking", "retrying"} => daemons[s].at = "none"
      /\ startupLock' \in Starters \cup {NoOne} /\ busy' \subseteq Starters
  BY <1>1, EndEffect DEF DeadlinePassed, StartupTypeOK, OnlyStarter, endpointVars, Told
<1>3. StartupTypeOK'
  BY <1>1, <1>2 DEF DeadlinePassed, OnlyStarter, endpointVars, StartupTypeOK
<1>4. UNCHANGED <<daemons, daemonLock, listening, config>>
  BY DEF DeadlinePassed, OnlyStarter, endpointVars
<1> QED BY <1>2, <1>3, <1>4, StarterKeepsPlaces DEF StartupInv

(* PollAgain: the loop goes on. *)
LEMMA PollAgainKeeps ==
    ASSUME StartupInv, NEW s \in Starters, PollAgain(s), UNCHANGED <<platform, taken, faults>>
    PROVE  StartupInv'
<1>1. StartupTypeOK /\ Placed(s)
  BY DEF StartupInv
<1>2. /\ starters' \in [Starters -> StarterRecord]
      /\ \A e \in Starters \ {s} : starters'[e] = starters[e]
      /\ starters'[s].at \in {"new", "locking", "retrying"} => daemons[s].at = "none"
      /\ startupLock' \in Starters \cup {NoOne} /\ busy' \subseteq Starters
  BY <1>1, GoToEffect DEF PollAgain, StartupTypeOK, StarterLabel, OnlyStarter, endpointVars
<1>3. StartupTypeOK'
  BY <1>1, <1>2 DEF PollAgain, OnlyStarter, endpointVars, StartupTypeOK
<1>4. UNCHANGED <<daemons, daemonLock, listening, config>>
  BY DEF PollAgain, OnlyStarter, endpointVars
<1> QED BY <1>2, <1>3, <1>4, StarterKeepsPlaces DEF StartupInv

(* RegistrationAnswered: the start ends with its answer. *)
LEMMA RegistrationAnsweredKeeps ==
    ASSUME StartupInv, NEW s \in Starters, RegistrationAnswered(s),
           UNCHANGED <<platform, taken, faults>>
    PROVE  StartupInv'
<1>1. StartupTypeOK /\ Placed(s)
  BY DEF StartupInv
<1>2. /\ starters' \in [Starters -> StarterRecord]
      /\ \A e \in Starters \ {s} : starters'[e] = starters[e]
      /\ starters'[s].at \in {"new", "locking", "retrying"} => daemons[s].at = "none"
      /\ startupLock' \in Starters \cup {NoOne} /\ busy' \subseteq Starters
  BY <1>1, EndEffect DEF RegistrationAnswered, StartupTypeOK, OnlyStarter, endpointVars, Told
<1>3. StartupTypeOK'
  BY <1>1, <1>2 DEF RegistrationAnswered, OnlyStarter, endpointVars, StartupTypeOK
<1>4. UNCHANGED <<daemons, daemonLock, listening, config>>
  BY DEF RegistrationAnswered, OnlyStarter, endpointVars
<1> QED BY <1>2, <1>3, <1>4, StarterKeepsPlaces DEF StartupInv

(* RegistrationLost: the start ends without one. *)
LEMMA RegistrationLostKeeps ==
    ASSUME StartupInv, NEW s \in Starters, RegistrationLost(s),
           UNCHANGED <<platform, taken, faults>>
    PROVE  StartupInv'
<1>1. StartupTypeOK /\ Placed(s)
  BY DEF StartupInv
<1>2. /\ starters' \in [Starters -> StarterRecord]
      /\ \A e \in Starters \ {s} : starters'[e] = starters[e]
      /\ starters'[s].at \in {"new", "locking", "retrying"} => daemons[s].at = "none"
      /\ startupLock' \in Starters \cup {NoOne} /\ busy' \subseteq Starters
  BY <1>1, EndEffect DEF RegistrationLost, StartupTypeOK, OnlyStarter, endpointVars, Told
<1>3. StartupTypeOK'
  BY <1>1, <1>2 DEF RegistrationLost, OnlyStarter, endpointVars, StartupTypeOK
<1>4. UNCHANGED <<daemons, daemonLock, listening, config>>
  BY DEF RegistrationLost, OnlyStarter, endpointVars
<1> QED BY <1>2, <1>3, <1>4, StarterKeepsPlaces DEF StartupInv

(* StarterKilled: the start is killed; its daemon is not. *)
LEMMA StarterKilledKeeps ==
    ASSUME StartupInv, NEW s \in Starters, StarterKilled(s), UNCHANGED <<platform, taken>>
    PROVE  StartupInv'
<1>1. StartupTypeOK /\ Placed(s)
  BY DEF StartupInv
<1>2. /\ starters' \in [Starters -> StarterRecord]
      /\ \A e \in Starters \ {s} : starters'[e] = starters[e]
      /\ starters'[s].at \in {"new", "locking", "retrying"} => daemons[s].at = "none"
      /\ startupLock' \in Starters \cup {NoOne} /\ busy' \subseteq Starters
  BY <1>1, EndEffect DEF StarterKilled, StartupTypeOK, OnlyStarter, endpointVars, Told
<1>3. StartupTypeOK'
  BY <1>1, <1>2, FaultsAssumption DEF StarterKilled, OnlyStarter, endpointVars, StartupTypeOK
<1>4. UNCHANGED <<daemons, daemonLock, listening, config>>
  BY DEF StarterKilled, OnlyStarter, endpointVars
<1> QED BY <1>2, <1>3, <1>4, StarterKeepsPlaces DEF StartupInv

(* SpawnDaemon: the process of a start that holds the startup lock begins at the daemon lock; or *)
(* the spawn fails.                                                                              *)
LEMMA SpawnDaemonKeeps ==
    ASSUME StartupInv, NEW s \in Starters, SpawnDaemon(s), UNCHANGED <<platform, taken, faults>>
    PROVE  StartupInv'
<1>1. StartupTypeOK /\ Placed(s) /\ daemons[s].at = "none"
  BY DEF StartupInv, SpawnDaemon, Placed
<1>2. CASE /\ DaemonGoes(s, "locking") /\ GoTo(s, "polling")
           /\ UNCHANGED <<startupLock, daemonLock, endpointVars, config>>
  <2>1. /\ daemons' \in [Starters -> DaemonRecord]
        /\ \A e \in Starters \ {s} : daemons'[e] = daemons[e] /\ starters'[e] = starters[e]
        /\ starters' \in [Starters -> StarterRecord]
        /\ Placed(s)'
    BY <1>1, <1>2, DaemonGoesEffect, GoToEffect
    DEF endpointVars, StartupTypeOK, DaemonLabel, StarterLabel, Placed, Holding, Offering,
        Configured, BeforeTunnel
  <2>2. StartupTypeOK'
    BY <1>1, <1>2, <2>1 DEF StartupTypeOK, endpointVars
  <2>3. ASSUME NEW e \in Starters, e # s PROVE Placed(e)'
    BY <1>2, <2>1, Others DEF endpointVars, StartupInv
  <2> QED BY <2>1, <2>2, <2>3 DEF StartupInv
<1>3. CASE End(s, "failed") /\ UNCHANGED <<daemons, daemonLock, endpointVars, config>>
  <2>1. /\ starters' \in [Starters -> StarterRecord]
        /\ \A e \in Starters \ {s} : starters'[e] = starters[e]
        /\ starters'[s].at = "ended"
        /\ startupLock' \in Starters \cup {NoOne}
    BY <1>1, <1>3, EndEffect DEF StartupTypeOK, Told, DaemonError
  <2>2. StartupTypeOK'
    BY <1>1, <1>3, <2>1 DEF StartupTypeOK, endpointVars
  <2>3. UNCHANGED <<daemons, daemonLock, listening, config>>
    BY <1>3 DEF endpointVars
  <2> QED BY <2>1, <2>2, <2>3, StarterKeepsPlaces DEF StartupInv
<1> QED BY <1>2, <1>3 DEF SpawnDaemon, DaemonGoes

(* Nobody runs yet. *)
LEMMA StartupInitInv == ASSUME StartupInit PROVE StartupInv
<1>1. StartupTypeOK
  BY FaultsAssumption
  DEF StartupInit, StartupTypeOK, StarterRecord, DaemonRecord, StarterLabel, DaemonLabel,
      DaemonError, Told, Ports
<1>2. ASSUME NEW d \in Starters PROVE Placed(d)
  BY NoOneAssumption DEF StartupInit, Placed, Holding
<1> QED BY <1>1, <1>2 DEF StartupInv

(* One step for each action. *)
LEMMA StartupNextInv == ASSUME StartupInv, [StartupNext]_startupVars PROVE StartupInv'
<1>1. CASE UNCHANGED startupVars
  BY <1>1 DEF StartupInv, StartupTypeOK, startupVars, lockVars, endpointVars, Placed
<1>2. CASE StartupNext
  <2>1. PICK p \in Starters :
           /\ \/ StarterStep(p) /\ UNCHANGED faults
              \/ StarterKilled(p)
              \/ (DaemonStep(p) \/ ServingEnds(p) \/ TunnelStep(p)) /\ OnlyDaemon /\ UNCHANGED faults
              \/ CrashDaemon(p) /\ OnlyDaemon
           /\ UNCHANGED <<platform, taken>>
    BY <1>2 DEF StartupNext
  <2>2. CASE StarterStep(p) /\ UNCHANGED faults
    BY <2>1, <2>2, ConnectsKeeps, FirstConnectFailsKeeps, TakeStartupLockKeeps, SpawnDaemonKeeps,
       PollMissesKeeps, ChildHasExitedKeeps, DeadlinePassedKeeps, PollAgainKeeps,
       RegistrationAnsweredKeeps, RegistrationLostKeeps
    DEF StarterStep
  <2>3. CASE StarterKilled(p)
    BY <2>1, <2>3, StarterKilledKeeps
  <2>4. CASE DaemonStep(p) /\ OnlyDaemon /\ UNCHANGED faults
    BY <2>1, <2>4, AcquireDaemonKeeps, ReservePortKeeps, ConfigureKeeps, ProbeEndpointKeeps,
       RemoveStaleSocketKeeps, BindKeeps, SpawnTunnelKeeps, AttachTunnelKeeps, StabilizeKeeps,
       AcceptConnectionKeeps, CloseEndpointKeeps, StopTunnelKeeps, LeaveRunKeeps, ExitDaemonKeeps
    DEF DaemonStep
  <2>5. CASE (ServingEnds(p) \/ TunnelStep(p)) /\ OnlyDaemon /\ UNCHANGED faults
    BY <2>1, <2>5, CancelKeeps, AcceptFailsKeeps, TunnelReadsConfigKeeps, TunnelExitsKeeps
    DEF ServingEnds, TunnelStep
  <2>6. CASE CrashDaemon(p) /\ OnlyDaemon
    BY <2>1, <2>6, CrashDaemonKeeps
  <2> QED BY <2>1, <2>2, <2>3, <2>4, <2>5, <2>6
<1> QED BY <1>1, <1>2

(* The invariant holds in every reachable state. *)
LEMMA StartupInvariant == StartupSafety => []StartupInv
<1>1. StartupInit => StartupInv
  BY StartupInitInv
<1>2. StartupInv /\ [StartupNext]_startupVars => StartupInv'
  BY StartupNextInv
<1> QED BY <1>1, <1>2, PTL DEF StartupSafety

(* Every reachable state of the startup protocol is of its types: locks are free or name a *)
(* process, and processes are where run_start and run() have places.                       *)
THEOREM StartupTypeCorrect == StartupSafety => []StartupTypeOK
<1>1. StartupInv => StartupTypeOK
  BY DEF StartupInv
<1> QED BY <1>1, StartupInvariant, PTL

(* A cloudflared that is supervised has read the port of the proxy beside it, although every      *)
(* daemon rewrites config.yml (normalize_validate_and_replace): nobody else holds the daemon lock *)
(* while it may read.                                                                             *)
THEOREM ReadsItsPort == StartupSafety => []TunnelsReadTheirPort
<1>1. StartupInv => TunnelsReadTheirPort
  BY DEF StartupInv, Placed, TunnelsReadTheirPort
<1> QED BY <1>1, StartupInvariant, PTL

(* An open listener, or a cloudflared that runs under supervision, is the lock holder's. *)
LEMMA OnlyTheHolder ==
    ASSUME StartupInv, NEW d \in Starters, d \in listening \/ daemons[d].tunnel = "running"
    PROVE  daemonLock = d
  BY DEF StartupInv, Placed, Holding, Offering, Tunnelling

(* A step that changes neither the lock nor the endpoints nor a tunnel is none of SingleDaemon's. *)
LEMMA QuietTurn ==
    ASSUME UNCHANGED <<platform, daemonLock, listening, socket>>,
           \A d \in Starters : daemons'[d].tunnel = daemons[d].tunnel
    PROVE  UNCHANGED Turns!sdVars
  BY DEF Turns!sdVars

(* A start does none of it. *)
LEMMA StarterTurn ==
    ASSUME StartupInv, NEW s \in Starters, StarterStep(s) \/ StarterKilled(s), UNCHANGED platform
    PROVE  UNCHANGED Turns!sdVars
<1>1. UNCHANGED <<daemonLock, listening, socket>>
  BY DEF StarterStep, Connects, Join, FirstConnectFails, TakeStartupLock, SpawnDaemon, PollMisses,
         ChildHasExited, DeadlinePassed, PollAgain, RegistrationAnswered, RegistrationLost,
         StarterKilled, OnlyStarter, endpointVars
<1>2. daemons' = daemons \/ DaemonGoes(s, "locking")
  BY DEF StarterStep, Connects, Join, FirstConnectFails, TakeStartupLock, SpawnDaemon, PollMisses,
         ChildHasExited, DeadlinePassed, PollAgain, RegistrationAnswered, RegistrationLost,
         StarterKilled, OnlyStarter, DaemonGoes
<1>3. ASSUME NEW d \in Starters PROVE daemons'[d].tunnel = daemons[d].tunnel
  <2>1. CASE d = s
    BY <1>2, DaemonGoesEffect DEF StartupInv, StartupTypeOK, DaemonLabel
  <2>2. CASE d # s
    BY <1>2, DaemonGoesEffect DEF StartupInv, StartupTypeOK, DaemonLabel
  <2> QED BY <2>1, <2>2
<1> QED BY <1>1, <1>3, QuietTurn

(* The updates of a daemon's record that leave its cloudflared alone. *)
MovesOnly(d) ==
    \/ daemons' = daemons
    \/ \E label \in DaemonLabel : DaemonGoes(d, label)
    \/ \E label \in DaemonLabel, error \in DaemonError :
           daemons' = [daemons EXCEPT ![d].at = label, ![d].error = error]
    \/ \E port \in ProxyPorts :
           daemons' = [daemons EXCEPT ![d].at = "configuring", ![d].port = port]
    \/ daemons' = [daemons EXCEPT ![d].tunnelPort = config]

(* They do. *)
LEMMA MovesKeepTunnels ==
    ASSUME StartupInv, NEW d \in Starters, MovesOnly(d), NEW e \in Starters
    PROVE  daemons'[e].tunnel = daemons[e].tunnel
<1>1. daemons \in [Starters -> DaemonRecord] /\ config \in Ports
  BY DEF StartupInv, StartupTypeOK
<1>2. CASE daemons' = daemons
  BY <1>2
<1>3. ASSUME NEW label \in DaemonLabel, DaemonGoes(d, label)
      PROVE  daemons'[e].tunnel = daemons[e].tunnel
  BY <1>1, <1>3, DaemonGoesEffect
<1>4. ASSUME NEW label \in DaemonLabel, NEW error \in DaemonError,
             daemons' = [daemons EXCEPT ![d].at = label, ![d].error = error]
      PROVE  daemons'[e].tunnel = daemons[e].tunnel
  BY <1>1, <1>4
<1>5. ASSUME NEW port \in ProxyPorts,
             daemons' = [daemons EXCEPT ![d].at = "configuring", ![d].port = port]
      PROVE  daemons'[e].tunnel = daemons[e].tunnel
  BY <1>1, <1>5 DEF DaemonLabel, Ports
<1>6. CASE daemons' = [daemons EXCEPT ![d].tunnelPort = config]
  BY <1>6
<1> QED BY <1>3, <1>4, <1>5, <1>6 DEF MovesOnly

(* The steps of run() that are none of SingleDaemon's. *)
LEMMA QuietDaemonTurn ==
    ASSUME StartupInv, NEW d \in Starters, UNCHANGED platform,
           \/ ReservePort(d) \/ Configure(d) \/ ProbeEndpoint(d) \/ Stabilize(d)
           \/ AcceptConnection(d) \/ Cancel(d) \/ ExitDaemon(d) \/ TunnelReadsConfig(d)
    PROVE  UNCHANGED Turns!sdVars
<1>1. UNCHANGED <<daemonLock, listening, socket>>
  BY DEF ReservePort, Configure, ProbeEndpoint, Stabilize, AcceptConnection, Cancel, ExitDaemon,
         TunnelReadsConfig, endpointVars
<1>2. MovesOnly(d)
  BY DEF ReservePort, Configure, ProbeEndpoint, Stabilize, AcceptConnection, Cancel, ExitDaemon,
         TunnelReadsConfig, FreePorts, RunError, Fails, DaemonLabel, DaemonError, MovesOnly
<1> QED BY <1>1, <1>2, MovesKeepTunnels, QuietTurn

(* AcquireDaemon takes the turn if nobody has it. *)
LEMMA AcquireDaemonTurn ==
    ASSUME StartupInv, NEW d \in Starters, AcquireDaemon(d), UNCHANGED platform
    PROVE  Turns!Take(d) \/ UNCHANGED Turns!sdVars
<1>1. UNCHANGED <<listening, socket>>
  BY DEF AcquireDaemon, endpointVars
<1>2. ASSUME NEW e \in Starters PROVE daemons'[e].tunnel = daemons[e].tunnel
  <2>1. MovesOnly(d)
    BY DEF AcquireDaemon, MovesOnly, DaemonLabel, DaemonError
  <2> QED BY SMTT(60), <2>1, MovesKeepTunnels
<1>3. daemonLock' = daemonLock \/ (daemonLock = NoOne /\ daemonLock' = d)
  BY DEF AcquireDaemon, LockIsTaken
<1> QED BY <1>1, <1>2, <1>3 DEF Turns!Take, Turns!sdVars

(* A listener that is bound is the only one; on unix the socket is then its own. *)
LEMMA BindTurn ==
    ASSUME StartupInv, NEW d \in Starters, Bind(d), UNCHANGED platform
    PROVE  Turns!Offer(d) \/ UNCHANGED Turns!sdVars
<1>1. ASSUME NEW e \in Starters PROVE daemons'[e].tunnel = daemons[e].tunnel
  <2>1. MovesOnly(d)
    BY DEF Bind, Fails, MovesOnly, DaemonLabel, DaemonError
  <2> QED BY <2>1, MovesKeepTunnels
<1>2. daemonLock = d /\ UNCHANGED daemonLock
  BY DEF Bind, StartupInv, Placed, Holding
<1>3. CASE UNCHANGED <<socket, listening>>
  BY <1>1, <1>2, <1>3, QuietTurn
<1>4. CASE /\ listening' = listening \cup {d}
           /\ socket' = IF platform = "unix" THEN d ELSE socket
  <2>1. listening \subseteq {d}
    BY <1>2, OnlyTheHolder DEF StartupInv, StartupTypeOK
  <2> QED BY <1>1, <1>2, <1>4, <2>1 DEF Turns!Offer
<1> QED BY <1>3, <1>4 DEF Bind

(* A socket found dead is still dead when it is removed: only the lock's holder, who removes it, *)
(* may bind.                                                                                     *)
LEMMA RemoveStaleSocketTurn ==
    ASSUME StartupInv, NEW d \in Starters, RemoveStaleSocket(d), UNCHANGED platform
    PROVE  UNCHANGED Turns!sdVars
<1>1. ASSUME NEW e \in Starters PROVE daemons'[e].tunnel = daemons[e].tunnel
  <2>1. MovesOnly(d)
    BY DEF RemoveStaleSocket, Fails, MovesOnly, DaemonGoes, DaemonLabel
  <2> QED BY <2>1, MovesKeepTunnels
<1>2. daemonLock = d /\ d \notin listening /\ UNCHANGED <<daemonLock, listening>>
  BY DEF RemoveStaleSocket, StartupInv, Placed, Holding, Offering
<1>3. listening = {}
  BY <1>2, OnlyTheHolder DEF StartupInv, StartupTypeOK
<1> QED BY <1>1, <1>2, <1>3 DEF Turns!sdVars

(* The endpoint is withdrawn. *)
LEMMA CloseEndpointTurn ==
    ASSUME StartupInv, NEW d \in Starters, CloseEndpoint(d) \/ AcceptFails(d), UNCHANGED platform
    PROVE  Turns!Withdraw(d)
<1>1. /\ UNCHANGED <<daemonLock, daemons>> /\ listening' = listening \ {d}
      /\ d \in listening /\ socket' = IF socket = d THEN NoOne ELSE socket
  BY DEF CloseEndpoint, AcceptFails, DropListener
<1>2. listening \subseteq {d}
  BY <1>1, OnlyTheHolder DEF StartupInv, StartupTypeOK
<1> QED BY <1>1, <1>2 DEF Turns!Withdraw

(* cloudflared is started under the lock and ends at any time. *)
LEMMA TunnelTurn ==
    ASSUME StartupInv, NEW d \in Starters, UNCHANGED platform,
           SpawnTunnel(d) \/ AttachTunnel(d) \/ StopTunnel(d) \/ TunnelExits(d)
    PROVE  Turns!OpenTunnel(d) \/ Turns!CloseTunnel(d) \/ UNCHANGED Turns!sdVars
<1>1. daemons \in [Starters -> DaemonRecord]
  BY DEF StartupInv, StartupTypeOK
<1>2. UNCHANGED <<daemonLock, listening, socket>>
  BY DEF SpawnTunnel, AttachTunnel, StopTunnel, TunnelExits, endpointVars
<1>3. ASSUME NEW e \in Starters \ {d} PROVE daemons'[e].tunnel = daemons[e].tunnel
  <2>1. \/ MovesOnly(d)
        \/ daemons' = [daemons EXCEPT ![d].at = "attaching", ![d].tunnel = "running"]
        \/ daemons' = [daemons EXCEPT ![d].at = "failing", ![d].error = "failed",
                                      ![d].tunnel = "gone"]
        \/ daemons' = [daemons EXCEPT ![d].tunnel = "gone"]
    BY DEF SpawnTunnel, AttachTunnel, StopTunnel, TunnelExits, Fails, DaemonGoes, DaemonLabel,
           MovesOnly
  <2>2. CASE MovesOnly(d)
    BY <2>2, MovesKeepTunnels
  <2>3. CASE daemons' = [daemons EXCEPT ![d].at = "attaching", ![d].tunnel = "running"]
    BY <1>1, <2>3
  <2>4. CASE daemons' = [daemons EXCEPT ![d].at = "failing", ![d].error = "failed",
                                        ![d].tunnel = "gone"]
    BY <1>1, <2>4
  <2>5. CASE daemons' = [daemons EXCEPT ![d].tunnel = "gone"]
    BY <2>5
  <2> QED BY <2>1, <2>2, <2>3, <2>4, <2>5
<1>4. CASE daemons'[d].tunnel = "running"
  <2>1. daemonLock = d
    BY DEF SpawnTunnel, AttachTunnel, StopTunnel, TunnelExits, StartupInv, Placed, Holding
  <2> QED BY <1>2, <1>3, <1>4, <2>1 DEF Turns!OpenTunnel
<1>5. CASE daemons'[d].tunnel # "running"
  BY <1>2, <1>3, <1>5 DEF Turns!CloseTunnel
<1> QED BY <1>4, <1>5

(* run() ends the turn after the listener is closed and cloudflared is gone; a process that was *)
(* refused never had it.                                                                        *)
LEMMA LeaveRunTurn ==
    ASSUME StartupInv, NEW d \in Starters, LeaveRun(d), UNCHANGED platform
    PROVE  Turns!Release(d) \/ UNCHANGED Turns!sdVars
<1>1. ASSUME NEW e \in Starters PROVE daemons'[e].tunnel = daemons[e].tunnel
  BY LeaveRunEffect DEF StartupInv, StartupTypeOK
<1>2. UNCHANGED <<listening, socket>>
  BY DEF LeaveRun, endpointVars
<1>3. CASE daemonLock # d
  BY <1>1, <1>2, <1>3, QuietTurn DEF LeaveRun
<1>4. CASE daemonLock = d
  <2>1. d \notin listening /\ daemons[d].tunnel # "running"
    BY <1>4 DEF LeaveRun, StartupInv, Placed, Holding
  <2>2. listening = {} /\ \A e \in Starters : daemons[e].tunnel # "running"
    BY <1>4, <2>1, OnlyTheHolder DEF StartupInv, StartupTypeOK
  <2> QED BY <1>1, <1>2, <1>4, <2>2 DEF LeaveRun, Turns!Release
<1> QED BY <1>3, <1>4

(* A daemon that is killed ends its turn with everything it offered. *)
LEMMA CrashDaemonTurn ==
    ASSUME StartupInv, NEW d \in Starters, CrashDaemon(d), UNCHANGED platform
    PROVE  Turns!Die(d) \/ UNCHANGED Turns!sdVars
<1>1. /\ \A e \in Starters \ {d} : daemons'[e] = daemons[e]
      /\ daemons'[d].tunnel # "running"
  BY CrashDaemonEffect DEF StartupInv, StartupTypeOK
<1>2. CASE daemonLock = d
  <2>1. /\ listening \subseteq {d}
        /\ \A e \in Starters \ {d} : daemons[e].tunnel # "running"
    BY <1>2, OnlyTheHolder DEF StartupInv, StartupTypeOK
  <2> QED BY <1>1, <1>2, <2>1 DEF CrashDaemon, Turns!Die
<1>3. CASE daemonLock # d
  <2>1. d \notin listening /\ daemons[d].tunnel # "running"
    BY <1>3, OnlyTheHolder
  <2>2. UNCHANGED <<daemonLock, listening, socket>>
    BY <1>3, <2>1 DEF CrashDaemon
  <2> QED BY <1>1, <2>1, <2>2 DEF Turns!sdVars
<1> QED BY <1>2, <1>3

(* Every step is one of SingleDaemon's or changes nothing of it. *)
LEMMA StepsAreTurns ==
    ASSUME StartupInv, [StartupNext]_startupVars
    PROVE  [Turns!SDNext]_(Turns!sdVars)
<1>1. CASE UNCHANGED startupVars
  BY <1>1 DEF startupVars, lockVars, endpointVars, Turns!sdVars
<1>2. CASE StartupNext
  <2>1. PICK p \in Starters :
           /\ \/ StarterStep(p) /\ UNCHANGED faults
              \/ StarterKilled(p)
              \/ (DaemonStep(p) \/ ServingEnds(p) \/ TunnelStep(p)) /\ OnlyDaemon /\ UNCHANGED faults
              \/ CrashDaemon(p) /\ OnlyDaemon
           /\ UNCHANGED <<platform, taken>>
    BY <1>2 DEF StartupNext
  <2>2. CASE StarterStep(p) \/ StarterKilled(p)
    BY <2>1, <2>2, StarterTurn
  <2>3. CASE DaemonStep(p) \/ ServingEnds(p) \/ TunnelStep(p)
    BY <2>1, <2>3, QuietDaemonTurn, AcquireDaemonTurn, BindTurn, RemoveStaleSocketTurn,
       CloseEndpointTurn, TunnelTurn, LeaveRunTurn
    DEF DaemonStep, ServingEnds, TunnelStep, Turns!SDNext
  <2>4. CASE CrashDaemon(p)
    BY <2>1, <2>4, CrashDaemonTurn DEF Turns!SDNext
  <2> QED BY <2>1, <2>2, <2>3, <2>4
<1> QED BY <1>1, <1>2

(* The startup protocol implements SingleDaemon: of all the processes that `fw start` spawns, one *)
(* at a time has an endpoint that answers and a cloudflared, whatever is killed and whatever a    *)
(* killed daemon leaves behind.                                                                   *)
THEOREM DaemonsTakeTurns == StartupSafety => OneDaemonServes
<1>1. StartupInit => Turns!SDInit
  BY DEF StartupInit, Turns!SDInit
<1>2. StartupInv /\ [StartupNext]_startupVars => [Turns!SDNext]_(Turns!sdVars)
  BY StepsAreTurns
<1> QED BY <1>1, <1>2, StartupInvariant, PTL DEF StartupSafety, OneDaemonServes, Turns!SDSpec

------------------------------------------------------------------------------
(* Two `fw start` at once: on unix the daemon process of a start that waits for it is never        *)
(* refused the daemon lock by a daemon that answers, or is about to.  The argument adds to the     *)
(* invariant what a start knows: the startup lock keeps two from spawning at once, and a start      *)
(* gives it up only with its daemon met, dead or abandoned.                                         *)

(* Nobody waits for this daemon any more: it is on its way out, its start has given up or has met *)
(* another daemon, or its accept loop has ended, as only that of a daemon that serves does.       *)
Abandoned(e) ==
    \/ daemons[e].at \in {"ending", "failing"}
    \/ Deaf(e)
    \/ starters[e].told \in {"timeout", "interrupted"}
    \/ starters[e].joined \notin {e, NoOne}

(* Where a process asks for the daemon lock or holds it. *)
Starting == Holding \cup {"locking"}

(* A start that waits for its daemon holds the startup lock; what it has met and what it is told *)
(* is settled when it stops waiting.                                                             *)
Parted(s) ==
    /\ starters[s].at \in {"retrying", "polling", "waiting"} => startupLock = s
    /\ starters[s].at = "registering" => starters[s].joined # NoOne
    /\ starters[s].told # "none" => starters[s].at = "ended"
    /\ starters[s].joined # NoOne => starters[s].at \in {"registering", "ended"}
    /\ starters[s].at = "ended" /\ starters[s].joined = NoOne =>
           \/ starters[s].told \in {"timeout", "interrupted"}
           \/ daemons[s].at \in {"none", "exited"}

(* A daemon that its own start has met answers until it shuts down or is deaf. *)
Met(e) ==
    starters[e].joined = e =>
        \/ daemons[e].at \in {"ending", "failing", "leaving", "exited"} \/ Deaf(e)
        \/ e \in listening /\ socket = e

(* While a process whose start waits for it asks for the daemon lock, everybody else who may hold *)
(* it is abandoned.                                                                               *)
Alone(d) ==
    daemons[d].at = "locking" /\ starters[d].at \in {"polling", "waiting"} =>
        \A e \in Starters \ {d} : daemons[e].at \in Starting => Abandoned(e)

(* The inductive invariant of the race between two starts. *)
RaceInv ==
    /\ StartupInv
    /\ \A s \in Starters : Parted(s)
    /\ platform = "unix" => \A e \in Starters : Met(e) /\ Alone(e)

(* A step of one start. *)
Moves(s) ==
    /\ \A e \in Starters \ {s} : starters'[e] = starters[e]
    /\ starters[s].at # "ended"
    /\ starters[s].joined # NoOne => starters'[s].joined = starters[s].joined
    /\ \A e \in Starters \ {s} : startupLock = e => startupLock' = e
    /\ UNCHANGED <<platform, listening, socket>>

(* A step of one start that spawns no daemon: whom it meets answers. *)
MovesOn(s) ==
    /\ Moves(s) /\ UNCHANGED daemons
    /\ starters'[s].at \in {"polling", "waiting"} =>
           starters[s].at \in {"retrying", "polling", "waiting"}
    /\ platform = "unix" /\ starters'[s].joined # starters[s].joined =>
           starters'[s].joined \in listening /\ socket = starters'[s].joined

(* Connects: a start meets somebody who answers. *)
LEMMA ConnectsMoves ==
    ASSUME RaceInv, NEW s \in Starters, Connects(s), UNCHANGED platform
    PROVE  MovesOn(s) /\ Parted(s)'
<1>1. /\ Placed(s) /\ Parted(s)
      /\ starters \in [Starters -> StarterRecord] /\ daemons \in [Starters -> DaemonRecord]
      /\ startupLock \in Starters \cup {NoOne}
      /\ listening \subseteq Starters /\ busy \subseteq Starters
  BY DEF RaceInv, StartupInv, StartupTypeOK
<1>2. /\ UNCHANGED <<daemons, listening, socket>>
      /\ \A e \in Starters \ {s} : startupLock = e => startupLock' = e
  BY DEF Connects, Join
<1>3. PICK d \in Reachable : Join(s, d)
  BY DEF Connects
<1>4. d \in Starters /\ d \in listening /\ (platform = "unix" => socket = d)
  BY <1>1 DEF Reachable
<1>5. starters[s].at \in {"new", "retrying", "polling"}
  BY DEF Connects
<1> QED BY <1>1, <1>2, <1>3, <1>4, <1>5, JoinEffect, NoOneAssumption DEF Parted, MovesOn, Moves

(* FirstConnectFails: the preflight fails, or the start asks for its lock. *)
LEMMA FirstConnectFailsMoves ==
    ASSUME RaceInv, NEW s \in Starters, FirstConnectFails(s), UNCHANGED platform
    PROVE  MovesOn(s) /\ Parted(s)'
<1>1. /\ Placed(s) /\ Parted(s)
      /\ starters \in [Starters -> StarterRecord] /\ daemons \in [Starters -> DaemonRecord]
      /\ startupLock \in Starters \cup {NoOne}
      /\ listening \subseteq Starters /\ busy \subseteq Starters
  BY DEF RaceInv, StartupInv, StartupTypeOK
<1>2. /\ UNCHANGED <<daemons, listening, socket>>
      /\ \A e \in Starters \ {s} : startupLock = e => startupLock' = e
  BY DEF FirstConnectFails, OnlyStarter, endpointVars, Preflight, End
<1>3. starters[s].at = "new" /\ daemons[s].at = "none"
  BY <1>1 DEF FirstConnectFails, Placed
<1>4. CASE GoTo(s, "locking")
  BY <1>1, <1>2, <1>3, <1>4, GoToEffect DEF Parted, MovesOn, Moves, StarterLabel
<1>5. CASE End(s, "failed")
  BY <1>1, <1>2, <1>3, <1>5, EndEffect DEF Parted, MovesOn, Moves, Told, DaemonError
<1> QED BY <1>4, <1>5 DEF FirstConnectFails, Preflight

(* TakeStartupLock: the startup lock is taken while nobody has it. *)
LEMMA TakeStartupLockMoves ==
    ASSUME RaceInv, NEW s \in Starters, TakeStartupLock(s), UNCHANGED platform
    PROVE  MovesOn(s) /\ Parted(s)'
<1>1. /\ Placed(s) /\ Parted(s)
      /\ starters \in [Starters -> StarterRecord] /\ daemons \in [Starters -> DaemonRecord]
      /\ startupLock \in Starters \cup {NoOne}
      /\ listening \subseteq Starters /\ busy \subseteq Starters
  BY DEF RaceInv, StartupInv, StartupTypeOK
<1>2. /\ UNCHANGED <<daemons, listening, socket>>
      /\ \A e \in Starters \ {s} : startupLock = e => startupLock' = e
  BY NoOneAssumption DEF TakeStartupLock, OnlyStarter, endpointVars
<1> QED BY <1>1, <1>2, GoToEffect DEF TakeStartupLock, Parted, MovesOn, Moves, StarterLabel

(* PollMisses: nobody answers. *)
LEMMA PollMissesMoves ==
    ASSUME RaceInv, NEW s \in Starters, PollMisses(s), UNCHANGED platform
    PROVE  MovesOn(s) /\ Parted(s)'
<1>1. /\ Placed(s) /\ Parted(s)
      /\ starters \in [Starters -> StarterRecord] /\ daemons \in [Starters -> DaemonRecord]
      /\ startupLock \in Starters \cup {NoOne}
      /\ listening \subseteq Starters /\ busy \subseteq Starters
  BY DEF RaceInv, StartupInv, StartupTypeOK
<1>2. /\ UNCHANGED <<daemons, listening, socket>>
      /\ \A e \in Starters \ {s} : startupLock = e => startupLock' = e
  BY DEF PollMisses, OnlyStarter, endpointVars
<1> QED BY <1>1, <1>2, GoToEffect DEF PollMisses, Parted, MovesOn, Moves, StarterLabel

(* ChildHasExited: the start ends with its daemon's error. *)
LEMMA ChildHasExitedMoves ==
    ASSUME RaceInv, NEW s \in Starters, ChildHasExited(s), UNCHANGED platform
    PROVE  MovesOn(s) /\ Parted(s)'
<1>1. /\ Placed(s) /\ Parted(s)
      /\ starters \in [Starters -> StarterRecord] /\ daemons \in [Starters -> DaemonRecord]
      /\ startupLock \in Starters \cup {NoOne}
      /\ listening \subseteq Starters /\ busy \subseteq Starters
  BY DEF RaceInv, StartupInv, StartupTypeOK
<1>2. /\ UNCHANGED <<daemons, listening, socket>>
      /\ \A e \in Starters \ {s} : startupLock = e => startupLock' = e
  BY DEF ChildHasExited, OnlyStarter, endpointVars, End
<1> QED BY <1>1, <1>2, EndEffect
        DEF ChildHasExited, Parted, MovesOn, Moves, DaemonError, DaemonRecord, Told

(* DeadlinePassed: the start gives up. *)
LEMMA DeadlinePassedMoves ==
    ASSUME RaceInv, NEW s \in Starters, DeadlinePassed(s), UNCHANGED platform
    PROVE  MovesOn(s) /\ Parted(s)'
<1>1. /\ Placed(s) /\ Parted(s)
      /\ starters \in [Starters -> StarterRecord] /\ daemons \in [Starters -> DaemonRecord]
      /\ startupLock \in Starters \cup {NoOne}
      /\ listening \subseteq Starters /\ busy \subseteq Starters
  BY DEF RaceInv, StartupInv, StartupTypeOK
<1>2. /\ UNCHANGED <<daemons, listening, socket>>
      /\ \A e \in Starters \ {s} : startupLock = e => startupLock' = e
  BY DEF DeadlinePassed, OnlyStarter, endpointVars, End
<1> QED BY <1>1, <1>2, EndEffect DEF DeadlinePassed, Parted, MovesOn, Moves, Told

(* PollAgain: the loop goes on. *)
LEMMA PollAgainMoves ==
    ASSUME RaceInv, NEW s \in Starters, PollAgain(s), UNCHANGED platform
    PROVE  MovesOn(s) /\ Parted(s)'
<1>1. /\ Placed(s) /\ Parted(s)
      /\ starters \in [Starters -> StarterRecord] /\ daemons \in [Starters -> DaemonRecord]
      /\ startupLock \in Starters \cup {NoOne}
      /\ listening \subseteq Starters /\ busy \subseteq Starters
  BY DEF RaceInv, StartupInv, StartupTypeOK
<1>2. /\ UNCHANGED <<daemons, listening, socket>>
      /\ \A e \in Starters \ {s} : startupLock = e => startupLock' = e
  BY DEF PollAgain, OnlyStarter, endpointVars
<1> QED BY <1>1, <1>2, GoToEffect DEF PollAgain, Parted, MovesOn, Moves, StarterLabel

(* RegistrationAnswered: the start ends with its answer. *)
LEMMA RegistrationAnsweredMoves ==
    ASSUME RaceInv, NEW s \in Starters, RegistrationAnswered(s), UNCHANGED platform
    PROVE  MovesOn(s) /\ Parted(s)'
<1>1. /\ Placed(s) /\ Parted(s)
      /\ starters \in [Starters -> StarterRecord] /\ daemons \in [Starters -> DaemonRecord]
      /\ startupLock \in Starters \cup {NoOne}
      /\ listening \subseteq Starters /\ busy \subseteq Starters
  BY DEF RaceInv, StartupInv, StartupTypeOK
<1>2. /\ UNCHANGED <<daemons, listening, socket>>
      /\ \A e \in Starters \ {s} : startupLock = e => startupLock' = e
  BY NoOneAssumption DEF RegistrationAnswered, OnlyStarter, endpointVars, Told, End
<1>3. PICK answer \in {"forwarding", "refused"} : End(s, answer)
  BY DEF RegistrationAnswered
<1>4. answer \in Told
  BY DEF Told
<1>5. /\ \A e \in Starters \ {s} : starters'[e] = starters[e]
      /\ starters'[s].at = "ended" /\ starters'[s].joined = starters[s].joined
  BY <1>1, <1>3, <1>4, EndEffect, Zenon
<1>6. /\ starters[s].at = "registering" /\ starters[s].joined # NoOne
  BY <1>1 DEF RegistrationAnswered, Parted
<1>7. Parted(s)'
  BY <1>5, <1>6 DEF Parted
<1>8. MovesOn(s)
  BY <1>2, <1>5, <1>6, Zenon DEF MovesOn, Moves
<1> QED BY <1>7, <1>8

(* RegistrationLost: the start ends without one. *)
LEMMA RegistrationLostMoves ==
    ASSUME RaceInv, NEW s \in Starters, RegistrationLost(s), UNCHANGED platform
    PROVE  MovesOn(s) /\ Parted(s)'
<1>1. /\ Placed(s) /\ Parted(s)
      /\ starters \in [Starters -> StarterRecord] /\ daemons \in [Starters -> DaemonRecord]
      /\ startupLock \in Starters \cup {NoOne}
      /\ listening \subseteq Starters /\ busy \subseteq Starters
  BY DEF RaceInv, StartupInv, StartupTypeOK
<1>2. /\ UNCHANGED <<daemons, listening, socket>>
      /\ \A e \in Starters \ {s} : startupLock = e => startupLock' = e
  BY DEF RegistrationLost, OnlyStarter, endpointVars, End
<1> QED BY <1>1, <1>2, EndEffect DEF RegistrationLost, Parted, MovesOn, Moves, Told

(* StarterKilled: the start is killed; its daemon is not. *)
LEMMA StarterKilledMoves ==
    ASSUME RaceInv, NEW s \in Starters, StarterKilled(s), UNCHANGED platform
    PROVE  MovesOn(s) /\ Parted(s)'
<1>1. /\ Placed(s) /\ Parted(s)
      /\ starters \in [Starters -> StarterRecord] /\ daemons \in [Starters -> DaemonRecord]
      /\ startupLock \in Starters \cup {NoOne}
      /\ listening \subseteq Starters /\ busy \subseteq Starters
  BY DEF RaceInv, StartupInv, StartupTypeOK
<1>2. /\ UNCHANGED <<daemons, listening, socket>>
      /\ \A e \in Starters \ {s} : startupLock = e => startupLock' = e
  BY DEF StarterKilled, OnlyStarter, endpointVars, End
<1> QED BY <1>1, <1>2, EndEffect DEF StarterKilled, Parted, MovesOn, Moves, Told

(* Such a step leaves what others have met and whom they have abandoned. *)
LEMMA MovesOnKeepRace ==
    ASSUME RaceInv, StartupInv', NEW s \in Starters, MovesOn(s), Parted(s)'
    PROVE  RaceInv'
<1>1. ASSUME NEW e \in Starters PROVE Parted(e)'
  <2>1. CASE e = s
    BY <2>1
  <2>2. CASE e # s
    BY DEF RaceInv, MovesOn, Moves, Parted
  <2> QED BY <2>2
<1>2. ASSUME platform = "unix", NEW e \in Starters PROVE Met(e)'
  <2>1. CASE starters'[e].joined = starters[e].joined
    BY <1>2, <2>1 DEF RaceInv, MovesOn, Moves, Met, Deaf
  <2>2. CASE starters'[e].joined # starters[e].joined
    BY <1>2, <2>2 DEF MovesOn, Moves, Met
  <2> QED BY <2>1, <2>2
<1>3. ASSUME platform = "unix", NEW d \in Starters PROVE Alone(d)'
  <2>1. SUFFICES ASSUME daemons'[d].at = "locking", starters'[d].at \in {"polling", "waiting"},
                        NEW e \in Starters \ {d}, daemons'[e].at \in Starting
                 PROVE  Abandoned(e)'
    BY DEF Alone
  <2>2. daemons[d].at = "locking" /\ daemons[e].at \in Starting
    BY <2>1 DEF MovesOn
  <2>3. starters[d].at \in {"polling", "waiting"}
    BY <2>1 DEF RaceInv, StartupInv, Placed, MovesOn, Moves
  <2>4. Abandoned(e)
    BY <1>3, <2>2, <2>3 DEF RaceInv, Alone
  <2>5. CASE e # s
    BY <2>4, <2>5 DEF MovesOn, Moves, Abandoned, Deaf
  <2>6. CASE e = s
    BY <2>4 DEF RaceInv, Parted, MovesOn, Moves, Abandoned, Deaf
  <2> QED BY <2>5, <2>6
<1> QED BY <1>1, <1>2, <1>3 DEF RaceInv, MovesOn, Moves

(* A daemon is spawned under the startup lock when nobody answers: whoever else may hold the    *)
(* daemon lock is then abandoned, since a start that waited would hold the startup lock and one *)
(* that had met its own daemon would have been answered by it.                                  *)
LEMMA SpawnDaemonKeepsRace ==
    ASSUME RaceInv, StartupInv', NEW s \in Starters, SpawnDaemon(s), UNCHANGED platform
    PROVE  RaceInv'
<1>1. /\ Placed(s) /\ Parted(s) /\ startupLock = s /\ daemons[s].at = "none"
      /\ starters \in [Starters -> StarterRecord] /\ daemons \in [Starters -> DaemonRecord]
      /\ startupLock \in Starters \cup {NoOne}
  BY DEF RaceInv, StartupInv, StartupTypeOK, Parted, Placed, SpawnDaemon
<1>2. CASE End(s, "failed") /\ UNCHANGED daemons
  <2>1. MovesOn(s) /\ Parted(s)'
    BY <1>1, <1>2, EndEffect
    DEF SpawnDaemon, endpointVars, Parted, MovesOn, Moves, DaemonError, Told
  <2> QED BY <2>1, MovesOnKeepRace
<1>3. CASE DaemonGoes(s, "locking") /\ GoTo(s, "polling") /\ UNCHANGED startupLock
  <2>1. /\ Moves(s) /\ Parted(s)' /\ starters'[s].joined = starters[s].joined
        /\ daemons'[s].at = "locking"
        /\ \A e \in Starters \ {s} : daemons'[e] = daemons[e]
    BY <1>1, <1>3, GoToEffect, DaemonGoesEffect
    DEF SpawnDaemon, endpointVars, Parted, Moves, StarterLabel, DaemonLabel
  <2>2. ASSUME NEW e \in Starters PROVE Parted(e)'
    <3>1. CASE e = s
      BY <2>1, <3>1
    <3>2. CASE e # s
      BY <2>1 DEF RaceInv, Moves, Parted
    <3> QED BY <3>1, <3>2
  <2>3. ASSUME platform = "unix", NEW e \in Starters PROVE Met(e)'
    <3>1. CASE e = s
      BY <1>1, <2>1, <3>1, NoOneAssumption DEF SpawnDaemon, Parted, Met
    <3>2. CASE e # s
      BY <2>1, <2>3, <3>2 DEF RaceInv, Moves, Met, Deaf
    <3> QED BY <3>1, <3>2
  <2>4. ASSUME platform = "unix", NEW e \in Starters \ {s}, daemons[e].at \in Starting
        PROVE  Abandoned(e)
    <3>1. /\ Placed(e) /\ Parted(e) /\ Met(e)
      BY <2>4 DEF RaceInv, StartupInv
    <3>2. starters[e].at \in {"registering", "ended"}
      BY <1>1, <2>4, <3>1 DEF Placed, Parted, Starting, StarterRecord, StarterLabel
    <3>3. starters[e].joined = e => daemons[e].at \in {"ending", "failing"} \/ Deaf(e)
      BY <2>4, <3>1 DEF Met, SpawnDaemon, Reachable, Starting, Holding
    <3> QED BY <2>4, <3>1, <3>2, <3>3 DEF Parted, Abandoned, Starting, Holding
  <2>5. ASSUME platform = "unix", NEW d \in Starters PROVE Alone(d)'
    <3>1. CASE d = s
      BY <2>1, <2>4, <2>5, <3>1 DEF Alone, Moves, Abandoned, Deaf
    <3>2. CASE d # s
      BY <1>1, <2>1, <3>2 DEF Alone, Moves, RaceInv, Parted
    <3> QED BY <3>1, <3>2
  <2> QED BY <2>2, <2>3, <2>5 DEF RaceInv
<1> QED BY <1>2, <1>3 DEF SpawnDaemon, DaemonGoes

(* A step of a daemon leaves whoever answers answering, unless that one is on its way out or turns *)
(* deaf, and whoever is deaf stays so until it is on its way out.                                  *)
EndpointStays(d) ==
    \A e \in Starters :
        /\ e \in listening /\ socket = e =>
              \/ e \in listening' /\ socket' = e
              \/ daemons'[e].at \in {"ending", "failing", "exited"}
              \/ Deaf(e)'
        /\ Deaf(e) => Deaf(e)' \/ daemons'[e].at \in {"ending", "exited"}

(* A step of a daemon does not take back that it is abandoned or met. *)
LEMMA AgesKeepsRace ==
    ASSUME RaceInv, StartupInv', NEW d \in Starters, Ages(d), EndpointStays(d),
           UNCHANGED <<platform, starters, startupLock>>
    PROVE  RaceInv'
<1>1. ASSUME NEW e \in Starters PROVE Parted(e)'
  <2>1. CASE e = d
    BY DEF RaceInv, Parted, Ages, AtAges
  <2>2. CASE e # d
    BY <2>2 DEF RaceInv, Parted, Ages
  <2> QED BY <2>1, <2>2
<1>2. ASSUME platform = "unix", NEW e \in Starters PROVE Met(e)'
  <2>1. CASE e = d
    BY <1>2 DEF RaceInv, Met, Ages, AtAges, EndpointStays
  <2>2. CASE e # d
    BY <1>2, <2>2 DEF RaceInv, Met, Ages, EndpointStays
  <2> QED BY <2>1, <2>2
<1>3. ASSUME platform = "unix", NEW e \in Starters PROVE Alone(e)'
  <2>1. SUFFICES ASSUME daemons'[e].at = "locking", starters[e].at \in {"polling", "waiting"},
                        NEW f \in Starters \ {e}, daemons'[f].at \in Starting
                 PROVE  Abandoned(f)'
    BY DEF Alone
  <2>2. daemons[e].at = "locking" /\ daemons[f].at \in Starting
    BY <2>1 DEF Ages, AtAges, Starting
  <2>3. Abandoned(f)
    BY <1>3, <2>1, <2>2 DEF RaceInv, Alone
  <2>4. CASE Deaf(f)
    BY <2>1, <2>4 DEF EndpointStays, Abandoned, Starting, Holding
  <2>5. CASE ~Deaf(f) /\ f = d
    BY <2>1, <2>3, <2>5 DEF Abandoned, Ages, AtAges, Starting, Holding
  <2>6. CASE ~Deaf(f) /\ f # d
    BY <2>3, <2>6 DEF Abandoned, Ages
  <2> QED BY <2>4, <2>5, <2>6
<1> QED BY <1>1, <1>2, <1>3 DEF RaceInv

(* Every step of a daemon is of that kind: only the holder of the lock binds or removes a socket, *)
(* and the listener's own Drop removes its own path only.                                         *)
LEMMA CloserStays ==
    ASSUME StartupInv, NEW d \in Starters, Ages(d),
           DaemonStep(d) \/ ServingEnds(d) \/ TunnelStep(d) \/ CrashDaemon(d)
    PROVE  EndpointStays(d)
<1>1. CASE CloseEndpoint(d) \/ AcceptFails(d)
  BY <1>1 DEF CloseEndpoint, AcceptFails, DropListener, EndpointStays, Deaf
<1>2. CASE CrashDaemon(d)
  BY <1>2 DEF CrashDaemon, EndpointStays, Deaf, StartupInv, StartupTypeOK
<1>3. CASE RemoveStaleSocket(d)
  <2>1. /\ daemonLock = d /\ d \notin listening /\ daemons[d].at = "removing"
        /\ UNCHANGED listening
    BY <1>3 DEF RemoveStaleSocket, StartupInv, Placed, Holding, Offering
  <2> QED BY <2>1, OnlyTheHolder DEF EndpointStays, Ages, Deaf
<1>4. CASE Bind(d)
  <2>1. /\ daemonLock = d /\ d \notin listening /\ daemons[d].at = "binding"
        /\ listening' = listening \/ listening' = listening \cup {d}
    BY <1>4 DEF Bind, StartupInv, Placed, Holding, Offering
  <2> QED BY <2>1, OnlyTheHolder DEF EndpointStays, Ages, Deaf
<1>5. CASE ~(CloseEndpoint(d) \/ AcceptFails(d) \/ CrashDaemon(d) \/ RemoveStaleSocket(d) \/ Bind(d))
  <2>1. UNCHANGED <<listening, socket>>
    BY <1>5
    DEF DaemonStep, AcquireDaemon, ReservePort, Configure, ProbeEndpoint, SpawnTunnel,
        AttachTunnel, Stabilize, AcceptConnection, StopTunnel, LeaveRun, ExitDaemon, ServingEnds,
        Cancel, TunnelStep, TunnelReadsConfig, TunnelExits, endpointVars
  <2>2. daemons[d].at = "serving" => daemons'[d].at \in {"serving", "ending"}
    <3>1. daemons \in [Starters -> DaemonRecord]
      BY DEF StartupInv, StartupTypeOK
    <3>2. daemons[d].at = "serving" =>
              AcceptConnection(d) \/ Cancel(d) \/ TunnelReadsConfig(d)
      BY <1>5
      DEF DaemonStep, AcquireDaemon, ReservePort, Configure, ProbeEndpoint, SpawnTunnel,
          AttachTunnel, Stabilize, StopTunnel, LeaveRun, ExitDaemon, ServingEnds,
          TunnelStep, TunnelExits
    <3>3. Cancel(d) => daemons'[d].at = "ending"
      BY <3>1, DaemonGoesEffect DEF Cancel, DaemonLabel
    <3>4. AcceptConnection(d) \/ TunnelReadsConfig(d) => daemons'[d].at = daemons[d].at
      BY <3>1 DEF AcceptConnection, TunnelReadsConfig, DaemonRecord
    <3> QED BY <3>2, <3>3, <3>4
  <2> QED BY <2>1, <2>2 DEF EndpointStays, Ages, Deaf
<1> QED BY <1>1, <1>2, <1>3, <1>4, <1>5

(* No start has begun. *)
LEMMA RaceInitInv == ASSUME StartupInit PROVE RaceInv
  BY StartupInitInv, NoOneAssumption DEF RaceInv, StartupInit, Parted, Met, Alone

(* One step for each kind of action. *)
LEMMA RaceNextInv == ASSUME RaceInv, [StartupNext]_startupVars PROVE RaceInv'
<1>1. StartupInv'
  BY StartupNextInv DEF RaceInv
<1>2. CASE UNCHANGED startupVars
  BY <1>1, <1>2
  DEF RaceInv, startupVars, lockVars, endpointVars, Parted, Met, Alone, Abandoned, Deaf
<1>3. CASE StartupNext
  <2>1. PICK p \in Starters :
           /\ \/ StarterStep(p) /\ UNCHANGED faults
              \/ StarterKilled(p)
              \/ (DaemonStep(p) \/ ServingEnds(p) \/ TunnelStep(p)) /\ OnlyDaemon /\ UNCHANGED faults
              \/ CrashDaemon(p) /\ OnlyDaemon
           /\ UNCHANGED <<platform, taken>>
    BY <1>3 DEF StartupNext
  <2>2. CASE StarterStep(p) \/ StarterKilled(p)
    <3>1. CASE SpawnDaemon(p)
      BY <1>1, <2>1, <3>1, SpawnDaemonKeepsRace
    <3>2. CASE ~SpawnDaemon(p)
      <4>1. MovesOn(p) /\ Parted(p)'
        BY <2>1, <2>2, <3>2, ConnectsMoves, FirstConnectFailsMoves, TakeStartupLockMoves,
           PollMissesMoves, ChildHasExitedMoves, DeadlinePassedMoves, PollAgainMoves,
           RegistrationAnsweredMoves, RegistrationLostMoves, StarterKilledMoves
        DEF StarterStep
      <4> QED BY <1>1, <4>1, MovesOnKeepRace
    <3> QED BY <3>1, <3>2
  <2>3. CASE (DaemonStep(p) \/ ServingEnds(p) \/ TunnelStep(p)) /\ OnlyDaemon /\ UNCHANGED faults
    <3>1. Ages(p)
      BY <2>1, <2>3, AcquireDaemonKeeps, ReservePortKeeps, ConfigureKeeps, ProbeEndpointKeeps,
         RemoveStaleSocketKeeps, BindKeeps, SpawnTunnelKeeps, AttachTunnelKeeps, StabilizeKeeps,
         AcceptConnectionKeeps, CloseEndpointKeeps, StopTunnelKeeps, LeaveRunKeeps,
         ExitDaemonKeeps, CancelKeeps, AcceptFailsKeeps, TunnelReadsConfigKeeps, TunnelExitsKeeps
      DEF DaemonStep, ServingEnds, TunnelStep, RaceInv
    <3> QED BY <1>1, <2>1, <2>3, <3>1, CloserStays, AgesKeepsRace DEF OnlyDaemon, RaceInv
  <2>4. CASE CrashDaemon(p) /\ OnlyDaemon
    <3>1. Ages(p)
      BY <2>1, <2>4, CrashDaemonKeeps DEF RaceInv
    <3> QED BY <1>1, <2>1, <2>4, <3>1, CloserStays, AgesKeepsRace DEF OnlyDaemon, RaceInv
  <2> QED BY <2>1, <2>2, <2>3, <2>4
<1> QED BY <1>2, <1>3

(* A process that is refused has found the lock taken: no other step leads there. *)
LEMMA RefusedForALock ==
    ASSUME StartupInv, StartupNext, NEW d \in Starters, Refused(d)
    PROVE  LockIsTaken
<1>1. /\ daemons \in [Starters -> DaemonRecord] /\ Placed(d)
      /\ daemons[d].at = "locking" /\ daemons'[d].at = "refused"
  BY DEF StartupInv, StartupTypeOK, Refused
<1>2. PICK p \in Starters :
         /\ \/ StarterStep(p) /\ UNCHANGED faults
            \/ StarterKilled(p)
            \/ (DaemonStep(p) \/ ServingEnds(p) \/ TunnelStep(p)) /\ OnlyDaemon /\ UNCHANGED faults
            \/ CrashDaemon(p) /\ OnlyDaemon
         /\ UNCHANGED <<platform, taken>>
  BY DEF StartupNext
<1>3. CASE StarterStep(p) \/ StarterKilled(p)
  <2>1. daemons' = daemons \/ DaemonGoes(p, "locking")
    BY <1>3
    DEF StarterStep, Connects, Join, FirstConnectFails, TakeStartupLock, SpawnDaemon, PollMisses,
        ChildHasExited, DeadlinePassed, PollAgain, RegistrationAnswered, RegistrationLost,
        StarterKilled, OnlyStarter, DaemonGoes
  <2>2. CASE p = d
    BY <1>1, <2>1, DaemonGoesEffect DEF DaemonLabel
  <2>3. CASE p # d
    BY <1>1, <2>1, DaemonGoesEffect DEF DaemonLabel
  <2> QED BY <2>2, <2>3
<1>4. CASE (DaemonStep(p) \/ ServingEnds(p) \/ TunnelStep(p)) /\ OnlyDaemon /\ UNCHANGED faults
  <2>1. Ages(p)
    BY <1>2, <1>4, AcquireDaemonKeeps, ReservePortKeeps, ConfigureKeeps, ProbeEndpointKeeps,
       RemoveStaleSocketKeeps, BindKeeps, SpawnTunnelKeeps, AttachTunnelKeeps, StabilizeKeeps,
       AcceptConnectionKeeps, CloseEndpointKeeps, StopTunnelKeeps, LeaveRunKeeps, ExitDaemonKeeps,
       CancelKeeps, AcceptFailsKeeps, TunnelReadsConfigKeeps, TunnelExitsKeeps
    DEF DaemonStep, ServingEnds, TunnelStep
  <2>2. p = d
    BY <1>1, <2>1 DEF Ages
  <2>3. AcquireDaemon(d)
    BY <1>1, <1>4, <2>2
    DEF DaemonStep, TunnelStep, ReservePort, Configure, ProbeEndpoint, RemoveStaleSocket, Bind,
        SpawnTunnel, AttachTunnel, Stabilize, AcceptConnection, CloseEndpoint, StopTunnel,
        LeaveRun, ExitDaemon, ServingEnds, Cancel, AcceptFails, DropListener, TunnelReadsConfig,
        TunnelExits, Placed, BeforeTunnel
  <2>4. ~DaemonGoes(d, "reserving")
    BY SMTT(60), <1>1, DaemonGoesEffect DEF DaemonLabel
  <2>5. ~(daemons' = [daemons EXCEPT ![d].at = "leaving", ![d].error = "failed"])
    BY <1>1, DaemonErrorEffect DEF DaemonLabel, DaemonError
  <2> QED BY <2>3, <2>4, <2>5 DEF AcquireDaemon
<1>5. CASE CrashDaemon(p)
  <2>1. CASE p = d
    BY <1>1, <1>5, CrashDaemonEffect
  <2>2. CASE p # d
    BY <1>1, <1>5, CrashDaemonEffect
  <2> QED BY <2>1, <2>2
<1> QED BY <1>2, <1>3, <1>4, <1>5

(* Two starts at the same time make one of them fail (unix) only through a daemon that shuts down *)
(* or whose accept loop has ended, or one whose own start no longer waits for it.                 *)
THEOREM RefusedByLeavers == StartupSafety => RefusedOnlyByLeavers
<1> DEFINE Step ==
      \A d \in Starters :
        platform = "unix" /\ Refused(d) /\ starters[d].at \in {"polling", "waiting"} =>
            \/ daemons[daemonLock].at \in {"ending", "failing"}
            \/ Deaf(daemonLock)
            \/ starters[daemonLock].told \in {"timeout", "interrupted"}
            \/ starters[daemonLock].joined \notin {daemonLock, NoOne}
<1>1. StartupInit => RaceInv
  BY RaceInitInv
<1>2. RaceInv /\ [StartupNext]_startupVars => RaceInv'
  BY RaceNextInv
<1>3. RaceInv /\ [StartupNext]_startupVars => [Step]_startupVars
  <2> SUFFICES ASSUME RaceInv, StartupNext, NEW d \in Starters, platform = "unix", Refused(d),
                      starters[d].at \in {"polling", "waiting"}
               PROVE  Abandoned(daemonLock)
    BY DEF Abandoned
  <2>1. daemonLock \in Starters
    BY RefusedForALock DEF LockIsTaken, RaceInv, StartupInv, StartupTypeOK
  <2>2. daemons[daemonLock].at \in Holding /\ daemonLock # d
    BY <2>1 DEF RaceInv, StartupInv, Placed, Refused, Holding
  <2> QED BY <2>1, <2>2 DEF RaceInv, Alone, Refused, Starting
<1> QED BY <1>1, <1>2, <1>3, PTL DEF StartupSafety, RefusedOnlyByLeavers

==============================================================================
