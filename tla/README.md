# A TLA+ development of fw

`fw` publishes local ports through a Cloudflare tunnel. `fw <port>` starts a foreground process, the
*owner* of one forward; the first owner starts a background *daemon*, which keeps the registry of
routes, runs `cloudflared`, proxies HTTP requests by host name and talks to the owners and to
`fw stop`, `fw kill` and `fw list` over a local endpoint. This directory models that program in
TLA+, model-checks it with TLC and proves its central results with TLAPS. Paths below are relative to
the repository (`src/daemon/mod.rs` is the daemon's module of the crate); line numbers are in
`PROJECT.json`.

## 1. Inventory

| Component | State | Operations | Hard behaviours | What makes it correct |
|---|---|---|---|---|
| Route registry (`registry.rs`) | three hash maps over the same routes: by slug, by port, by session | register, resolve, list, remove_session, clear | maps updated by hand; callers interleave | indexes agree; one route per slug and port |
| Daemon (`daemon/mod.rs`) | registry, owners' channels, acknowledgements, session counter, shutting_down, idle_since, cancellation token; one handler and one writer task per connection, a statistics task per forward, idle monitor, accept loop, main loop | Register, Unregister, TerminateAcknowledged, List, Stop, Kill, disconnect; idle exit; broadcast and shutdown when cloudflared exits | every lock is taken and released on its own: each operation is several steps that interleave with the others; bounded channels; a `Notify` that keeps no permit; timeouts | routes have somebody to remove them, answers are true, every request is answered, every way to shut down ends the process, and a daemon without clients ends |
| Foreground client (`main.rs`) | its connection, its session | start, run_owner_session, unregister, stop, kill, list | Ctrl-C, SIGKILL or suspension at any point; messages that arrive before the expected one | an owner that shows a forward has one; commands tell the truth |
| Control protocol (`ipc/`) | framed byte stream, endpoint | read_frame, write_frame, bind, connect | `select!` cancels a read within a frame; stale sockets; ordering | messages arrive in order and whole; one daemon owns the endpoint |
| Startup and locks (`main.rs` start_and_connect, `platform/`, `daemon/mod.rs` run) | startup lock, daemon lock, endpoint, child processes | acquire, spawn, poll, recover, supervise | two starts at once; a daemon that dies or idles out while a client connects; crash recovery | at most one daemon; a start succeeds, or fails with the daemon's reason |
| cloudflared supervisor (`cloudflared.rs`) | child, output buffer, exit status | spawn, stabilize, try_wait_exit, shutdown | exit racing the shutdown; escalation after a timeout; output cut anywhere | child never outlives the daemon; output bounded |
| Cloudflare configuration (`cloudflare_config.rs`) | YAML file, candidate file | normalize, validate, replace | crash between the write and the rename | file is always a complete configuration; normalising twice changes nothing |
| Proxy (`proxy/`) | reserved port, open requests | host to slug, lookup, forward, upgrade | route removed or replaced while a request runs | a request only reaches the port that had its slug at the lookup |
| Metrics (`metrics.rs`) | atomic counters, sampler | add, snapshot | concurrent adds, saturation | counts never decrease or wrap |
| Slugs and command line (`slug.rs`, `cli.rs`) | none | validate, normalise, generate, parse | boundaries | generated slugs are valid; a selector is a slug or a port, never both |
| Setup (`setup.rs`, `setup/`) | remote tunnel and DNS records, local files | create, roll back, recover | failure between a remote creation and its record | nothing remote is left without a record of it |
| Terminal output, errors (`ui.rs`, `error.rs`) | none the rest depends on | rendering | none | wording and layout, not modelled |

Interactions. Owners and commands send `ClientMessage` frames to a handler; the handler, other
handlers (`stop`, `kill`), the statistics task and the main loop send `ServerMessage`s into the
connection's bounded channel, which its writer task drains into the socket. Handlers, idle monitor and
main loop share the daemon's state through locks and atomics. The proxy reads the registry. The
daemon's main loop polls cloudflared. The startup path uses locks, the endpoint and the daemon's exit
status.

## 2. Plan

1. **Forwards, RouteRegistry, Daemon, FwSystem** (done): the registry, the daemon from the moment it
   serves its endpoint to its end, and its clients. The most important behaviour of the program and
   the most concurrent.
2. **SingleDaemon, Startup** (done): start_and_connect, the two locks, endpoint recovery, the steps of
   run() before the accept loop and the order of its end, several processes with kills.
3. **Cloudflared**, **RecentOutput**, **Ingress**, **ConfigInstall** (done).
4. **FrameStream**, **Traffic** over the registry (done).
5. **SetupLauncher**, **CommandLine**, **Terminal** (done).
6. **Proofs** (section 6) of the safety properties of the daemon, the startup and the parts (done). Left: what of
   `ForwardsAreReal` survives a `stop`, and liveness, which stays with TLC.

Abstract specifications: Forwards for the daemon with its clients, SingleDaemon for the startup. Runs
are few and each asks one question; components that share no state with each other share the run
`parts`.

## 3. Modules

**`Forwards.tla`**, the abstract specification. A forward is a slug, a port and a session. A session
is issued, waits, and is given a forward under a free slug and port or is refused; forwards end
together per session, all at once, or with the process.

**`RouteRegistry.tla`**, the value behind the registry's lock. Each hash map is a total function with
a sentinel for a missing entry. `SlugChoices` is the decision of register_with_rng (the set of slugs a
request may get, empty when it is refused), `AddRoute` its inserts, `RemoveSession` what remove_session
does to all three maps, `Resolve` the selector lookup. Its operators are the unit the proofs are about.

**`Daemon.tla`**, the daemon. Each task is a label and its local variables; an action is what the task
does between two `.await`s, because every lock, every channel send and every timer wait lets other
tasks run. For example Register is `ReadRegister` (checks and fetch_add, no await between),
`RegisterRoute` (registry lock), `RegisterOwner` (owners lock), `RegisterActive` (idle lock) and
`SendReply` (channel); remove_session is `RemoveRoutes`, `RemoveOwner`, `RemoveAck`, `CheckEmpty`,
`MarkIdle`, since mark_idle_if_empty releases the registry before it locks idle_since. A `stop` inserts
its acknowledgement, looks the owner up, sends, and only then creates its `notified()` future:
`StopArms` is that instant, and a wake-up before it is lost, as with tokio's notify_waiters. A send
waits for room in the channel, and fails at once when the writer task is gone. The handler leaves
through `?` (label `failed`) past its cleanup when a send or a read fails, as in the code.

**`FwSystem.tla`**, the composition with the client processes: one connection each, one request, and
for owners the session loop with Ctrl-C, crash and the answers to RemoteStop, DaemonKill and Fatal.
`ServerEndClosed` says when a client sees the end of its stream: only when the handler is gone *and*
no clone of its channel is left in `owners` or in a statistics task. The properties are here.

**`MCFwSystem.tla`** gives the processes of the instances their requests.

**`SingleDaemon.tla`**, the abstract startup. Processes take turns; whoever's turn it is may offer an
endpoint and keep a tunnel, and its turn ends after it has given up both, or with its process.

**`Startup.tla`**, what implements it: every `fw start` and the daemon process it may spawn, the file
locks (unix) or named mutexes (windows), the endpoint, config.yml and cloudflared. `starters[s].at` is
where run_start is: `new` (the first connect), `locking` and `retrying` (start_and_connect), `polling`
and `waiting` (its loop), `registering`. `daemons[d].at` is where run() is, in the order of the code:
daemon lock, proxy port, configuration, endpoint, cloudflared and its attachment, 750 ms of
stabilisation, service, and two ways to the end: `ending` (cancelled: the accept loop drops the
listener while the main loop stops cloudflared) and `failing` (run() gives up: cloudflared first).
`socket` is the name in the file system, `listening` the open listeners: a daemon that is killed
leaves the first without the second, and `ProbeEndpoint` and `RemoveStaleSocket` are the two halves of
prepare_endpoint. On windows there is no file, but only one free pipe instance until the accept loop
runs (`busy`), and a mutex exists while any process has a handle to it (`LockIsTaken`).

**`Ingress.tla`** and **`ConfigInstall.tla`**. normalize_value as a fold over the rules, with its
contract as a second, declarative definition; the candidate file, its validation and the rename, by
several installers, as two installations without a directory of their own share one config.yml. A
process id is given out again, so that names of candidates collide with what a killed process has left.

**`Cloudflared.tla`**, **`RecentOutput.tla`**. The supervised child and one helper it may start, what
the process group or job object contains (`owned`), who holds the output pipes, and the escalation of
shutdown. capture_stream cuts arbitrary chunks into lines; push_bytes trims, replaces and evicts; a read
error (`ReadFails`) ends the task and drops the line it had begun.

**`FrameStream.tla`**. Frames as bytes that are written and read in portions of any size; `CancelRead`
is `select!` dropping a read_frame it has polled.

**`Traffic.tla`** EXTENDS RouteRegistry. Requests are looked up, wait, time out, carry bytes in either
direction and end while owners come and go; a session stands for its route's RouteMetrics; `samplers`
are the statistics tasks. It keeps what the registry has forgotten in `ended`, and what the proxy has
taken in for the local services and from them in `carried`.

**`CommandLine.tla`**, **`Terminal.tla`**. Functions (slug rules, ports, selectors, the table of
normalize, the slug generator, panel widths) whose state is the input they are applied to.

**`SetupLauncher.tla`**. `fw --setup`: a script under a fixed name in the temporary directory,
downloaded, verified through an open handle, run and removed, by several launchers.

**`Components.tla`** puts the components that share no state side by side: in a behaviour one of them
moves and the others stay as they are. **`MCStartup.tla`** and **`MCParts.tla`** are the instances.

Proofs are in modules of their own: **`RegistryProofs`** (the operators of the registry),
**`FwSystemProofs`** (types), **`ForwardsProofs`** (the refinement), **`SessionProofs`** (owners,
acknowledgements, answers) and **`RouteProofs`** (routes and who removes them), each of which extends the one before;
**`StartupProofs`**; **`StreamProofs`** (frames, output, and the lemmas on numbers, folds and sums) and
**`PartsProofs`** for `Components`.

Two actions of the daemon are coarser than the code. `StatsTick` looks a slug up and sends in one step, so the last
sample after a removal in between is left out; an owner shows or skips it. `WriterFails` has a closed peer as its only
cause; the other, a frame over the size limit, is in `FrameStream`. Terminate and Fatal carry no session, because
the owner compares none (main.rs matches the reason alone).

Left out on purpose: the request identifiers (a client has one request open at a time, and the
answer is recognised by its kind), timestamps and ordering of `list`, the text of messages, the contents of
statistics, and the retry loop of slug generation (its result is any free generated slug, or a refusal
when none is free). Time is abstract: a running timer may go off at any moment. `ChannelCapacity` stands
for the channel together with what the writer task and the socket buffer hold.

One constant needs a word. With abstract time a `stop` may time out while the registration it
overtook is still between two lock acquisitions, which takes microseconds in the code while the timeout
is two seconds. `PromptHandlers = TRUE` excludes that, and only that; the safety runs `clients` and `faults`
do not assume it, so what they check holds even under such a delay. `stops`, where the leak such
a delay causes would break the liveness properties, does, and so do the runs that show a
violation by a `stop` or by the idle clock, so that they do not rest on it.

## 4. Runs

| Run | Instance | Question | Result |
|---|---|---|---|
| `clients` | 3 processes: an owner, one that wants its port or its slug or else is a `kill`, a `stop` by slug; two ports, two slugs, two sessions, channels of 2 | what the daemon stores stays consistent under every interleaving, answers are true, Forwards is implemented | holds, about 1.8 million states |
| `faults` | 2 processes on 2 ports and 2 slugs; interrupts, client and daemon crashes, accept and read errors | which guarantees survive failures | holds, about 1.9 million states |
| `stops` | an owner and a `stop`; interrupts and crashes | a `stop` is always answered; a daemon without clients ends | holds |
| `shutdown` | an owner with statistics and a `kill`, channels of 1; cloudflared exit, signals | both broadcasts end the process though channels fill | holds |
| `startup` | two starts; unix and windows; two ports, free or all taken; one process killed anywhere | one daemon at a time, starts that do not refuse each other, and every start ends | holds, 229 thousand states |
| `parts` | the eight components below, one per behaviour | what each of them promises | holds, 363 thousand states |
| `stop_race`, `idle_race`, `kill_race`, `suspended_owner` | two processes each | see Findings | violated |
| `no_proxy_port`, `frame_cancel` | as `startup`; as `parts`, the frames alone | see Findings | violated |

Properties of the daemon. `RegistryConsistent`: the indexes agree (run `clients`; with failures, by the theorem). `RoutesAreKept`: every route has a handler
or a pending `stop` that will remove it. `AnswersAreTrue`: Stopped and Unregistered are never sent while
the session has a route. `OwnersAreServed` and `AcksHaveWaiters`: no channel and no `Notify` is left
behind, though `stop` may remove them before the registration or after the owner has. `SessionsArePrivate`: all
that is on a connection names one issued session, which no other connection ever names; the daemon removes what an
Unregister names if it is the handler's own, and an owner waits on past an acknowledgement that names another session.
(`SystemTypeOK` speaks of types only.) `ForwardsAreReal`: an
owner that shows a forward has one. `ForwardsAreImplemented`: the refinement. `RequestsAreAnswered`,
`KillEndsDaemon`, `CloudflaredExitEndsDaemon`, `DaemonFollowsItsClients`: liveness. Each is shown to
depend on the code by a mutant of one definition (`PROJECT.json`, "mutants") that violates it.

Bounds. Races here are between two handlers, or between two handlers and a third that removes what they
share, which three processes cover; in `clients` the second owner contends with the first for its port
or, from another port, for its slug. Two sessions let a session end and a slug be taken again. In
`faults` two routes coexist, with only one slug that can be generated. A channel of one or two messages fills as soon as
statistics or a second Terminate arrive; what matters is only whether it is full. `Events` lists what may
occur unasked in an instance, and every event is enabled in some passing run. Ports are symmetric
in `faults`, which checks invariants only.

Properties of the startup. `OneDaemonServes`: the refinement of SingleDaemon; an endpoint that answers
and a supervised cloudflared belong to the holder of the daemon lock, also while stale sockets are
removed and daemons are killed. `TunnelsReadTheirPort`: config.yml, which every daemon rewrites, is read by a
cloudflared only while it names its own daemon's port. `RefusedOnlyByLeavers` (unix): the process of a
start that waits for it finds the daemon lock taken only by a daemon that is shutting down, by one whose
accept loop has ended on an error (`AcceptFails`, `Deaf`: nobody looks at that task, so the daemon serves on,
with its lock and without an endpoint, and refuses every later start until it is ended), or by one
whose own start no longer waits for it. `StartsEnd`: every start comes to an end. With three starts a daemon
may be refused by one whose start has met a third daemon while it polled; the property allows that, and
since two starts cannot show it, `RefusedOnlyByLeavers` is proved for any number of them.

Properties of the parts. `NormalizedIsManaged`: normalize_value accepts exactly the documents it should,
keeps the rules in order, and the next daemon's normalisation changes the port only.
`ConfigIsAlwaysWhole`: whatever fails or is killed. `CandidatesAreRemoved`: a candidate file is left only by a
process that was killed or by a removal the system refused, which the code ignores (`RemoveCandidate`), one file for each.
`GoneWhenReported`: nothing in cloudflared's process group or job object (`owned`) outlives the report of its end (unix) or the
supervisor. A helper forked before the job object is attached, or with a daemon killed in between, is outside, and
nothing in the code ends it. `ShutdownEnds`: a shutdown ends, on windows once no helper holds the pipes.
`OutputIsBounded`, `NewestOutputIsKept`. `FramesArriveWhole`: whatever the portions, unless a read is
cancelled within a frame. `TargetAndMetricsAgree`, `EveryByteIsCounted`, `SamplesAddUp`, `RequestsAreOver`: a request belongs to
one route that had its slug, whatever becomes of it, bytes count for the owner of that route, and what
an owner is shown adds up at the limit of the counters too. A byte counts when the proxy pulls or reads it, as in
the code; whether it is then delivered is not modelled. `SlugRulesAgree`, `SelectorsAreUnambiguous`,
`LinesHaveOneMeaning`, `GeneratedSlugsAreFree`: functions against definitions of another form. One kind of word
means different things to a start and a stop: `fw start +80` runs, since `str::parse` takes the sign,
and `fw stop +80` is refused as a slug. `SelectorsAreUnambiguous` states that no other word that a start takes is
refused by a stop, and that a stop takes no word for a forward that a start would not.
`RunsWhatItVerified`, `LeftoversAreGood`: the script that runs is the verified one (on unix for one setup at a time).
`PanelRowsFit`.

Their bounds. `startup`: a race here is between two starts, or between a start and a daemon that is
going; the second start's process plays the successor. One kill is enough to leave a socket, a lock, or a
cloudflared behind. `parts`: two installers, three process ids and two names per process let names
collide and be given up, with two faults (`MaxInstallFaults`: kills and refused removals); two helpers in a row, one at a time, fork before and after the attachment; chunks of two
bytes make the 2 * ReadChunk limit and both output bounds bite within two reads per stream; payloads of
0, 1, 3 bytes and of one above the limit; counters with the limit 1 saturate at the second byte; words
up to four characters with slugs up to three, ports up to 700 (so that `777` overflows and `00` is
refused); two launchers, three setups, one kill; panels up to the width where nothing is cut. Documents have up to three
rules of seven kinds.

Deadlock is not checked in any run: the system really stops when all processes have exited and the daemon
has ended, and an instance also stops when its users start no further process.

Fairness. Weak fairness on timers and on tasks that are ready: tokio polls every ready task.
Strong fairness on a handler's and the main loop's steps, because tokio's bounded channel queues waiting
senders in order, so a sender whose channel has room again and again is served. Clients read what they are sent
(weak fairness), unless they are in `Suspended`. Nothing that occurs unasked (`Occurrence`, connecting,
interrupts, crashes) is fair.

In Startup the steps of starters and of daemons are weakly fair: the operating system runs what is ready,
and a lock that is free is granted. `DeadlinePassed` is strongly fair, as the loop looks at
the clock in every turn; a start need not begin, a user need not end anything, nobody has to be killed and cloudflared need do
nothing. Without the fairness of the lock a start could wait for ever; with it, no start depends on what another's
daemon does, only on the deadline. In Cloudflared the supervisor's polls and timer are fair, in Traffic the
registry lookup and the header timeout; that a client, a local service, cloudflared or its helper ever
does anything is not assumed.

## 5. Findings

* **A `stop` during a registration leaves a zombie owner** (`stop_race`). `stop` finds the route before its
  owner's channel is stored; nobody is told, the session is removed two seconds later, and the owner goes on
  showing a forward that is gone.
* **The idle clock starts under an active forward** (`idle_race`). mark_idle_if_empty tests the registry
  and sets idle_since under different locks; a registration between the two is followed by an idle exit.
* **A route appears after `kill` has cleared them** (`kill_race`). The shutting_down check of Register
  and its insert are separate steps.
* **A suspended owner blocks `kill`** (`suspended_owner`). kill sends to each owner without a
  timeout; an owner stopped with Ctrl-Z fills its channel with statistics, and neither that `kill` nor any later
  one ends the daemon.
* **A full port range is not named** (`no_proxy_port`). reserve_listener returns the last bind error,
  AddrInUse, and run() translates only AddrNotAvailable: the error that names the port range is never
  reported, and the daemon fails as if its endpoint were taken.
* **Ctrl-C cuts a frame in two** (`frame_cancel`). `select!` drops a read_frame that has taken part of a frame;
  unregister() then reads the rest of it as a header and fails, or waits for bytes that never come.

## 6. Proofs

The theorems about the daemon hold for any sets of connections, ports, slugs and events, any number of
sessions and any capacity, those about the startup for any number of starts, those about the parts
for any number of installers, launchers, requests, helpers and any limits, under the named assumptions of the
modules: a port is no slug, sentinels are not entries (`SelectorAssumption`, `SentinelAssumption`,
`ConnAssumption`, `NoOneAssumption`, `NoPortAssumption`, `TargetAssumption`), generated slugs are slugs, and limits and bounds are natural numbers
(`MaxSessionAssumption`, `CapacityAssumption`, `FaultsAssumption`, `InstallAssumption`, `SetupAssumption`,
`CountAssumption`, `ForksAssumption`, `SlugBytesAssumption`, `PanelAssumption`, `FrameAssumption`, `OutputAssumption`, `RulesAssumption`,
`CandidatesAssumption`). `FrameAssumption` also says that a header has digits enough for every length allowed. `InstallAssumption` also says that 0 is no process id
and that a process can name as many candidates as it tries. Two theorems have a hypothesis of their own, given with them.

The daemon and its clients:

* `TypeCorrectness` (`FwSystemProofs`): `Safety => []SystemTypeOK`. Types alone are not inductive: an answer names
  the session the handler works on, and an owner's Unregister the session it was told. The invariant `Typed`
  adds `TargetsAreSessions` (at each label that works on a session, the handler has one) and
  `OwnersKnowSessions`. One lemma per group of actions, one step per action.
* `RegistryAlwaysConsistent` (`ForwardsProofs`): `Safety => []RegistryConsistent`. The work is in
  `RegistryProofs`: `AddRouteConsistent` needs that slug *and* port were free, and `RemoveSessionConsistent` that
  the indexes agreed before. remove_session deletes the port entries of the slugs it removes without looking
  at what they hold; because the port index named those very slugs, no surviving route loses its port.
* `Implementation` (`ForwardsProofs`): `Safety => ForwardsAreImplemented`. A step is `Quiet` (it touches
  neither the registry nor the registrations under way, and a handler gets no session but one it had or a
  route's) or one of six that map to actions of `Forwards`. `IInv` adds that no session above the counter
  is named anywhere (else a removal could not be mapped to End) and that two registrations under way never
  share a session (else one answer would end two waits).
* `NotifiesHaveWaiters`, `StoredOwnersServe`, `FinalAnswersAreTrue` (`SessionProofs`): `Safety => []P` for
  `AcksHaveWaiters`, `OwnersAreServed` and `AnswersAreTrue`. None is inductive, and they need each other. `SessionInv`
  adds what a handler knows at each label (`Fits`: it owns the session it registers, and only a `stop` works
  on another's), that no two handlers own a session, that a session being registered is known to nobody
  else (`NewSessionsAreFresh`, so that no old answer is about it), that from rmOwner on the target has no route
  (`ClearedHaveNoRoute`) and that a handler which has answered Unregistered, or is about to, has no channel
  stored (`CleanHaveNoOwner`). The proof goes through a frame, `SessionStep`: what any step may do to one handler
  (`Moves`) and to each map. Each action is shown to be such a step, and one lemma shows that such a step preserves the
  invariant, instead of every action against every conjunct.
* `SessionsStayPrivate` (`RouteProofs`): `Safety => []SessionsArePrivate`. `NamesInv` follows where numbers are:
  what a connection names is one session, and a number about to be handed out is above the counter and hence nowhere. The
  hard step is that handing-out: the connection must not have named another session before, which needs
  that a handler about to read Register is fresh (`KeptInv`, below) and that answers name the handler's own session.
* `RoutesHaveKeepers` (`RouteProofs`): `Safety => []RoutesAreKept` if `readError` is not among the events. An
  unreadable frame ends a handler without its cleanup, and the route stays; no client of
  this code sends such a frame. The hard case is a handler that leaves through `?` because its answer
  cannot be sent: its registration has a route by then. The channel can only be dead or full if something was sent on it
  before, and nothing speaks to an owner whose registration is unanswered but a `stop` of it or a shutdown
  (`WarnedBeforeAnswer`), which remove the route themselves. For that, `KeptInv` follows each connection from before
  its request (`Fresh`, `BeforeRequest`, `BeforeAnswer`), whom it names (`NamesOwn`, `AnswersOwn`),
  and the Terminates on their way (`QueuedHaveBegun`, `StopsReachOwners`).
* `ForwardsHaveRoutes` (`RouteProofs`): `Safety => []ForwardsAreReal` if no process uses `stop`; crashes,
  interrupts, dead writers and unreadable frames are allowed. With a `stop` the property is false
  (`stop_race`), and what it excuses is then the timeout of a `stop` whose Terminate has not been read. `ForwardInv`
  says that a process that shows a forward, or will when it reads, has a handler at rest and an empty
  inbox, and that its session has a route until the shutdown (`PromisesAreKept`).

The startup:

* `StartupTypeCorrect`, `ReadsItsPort`, `DaemonsTakeTurns` (`StartupProofs`): any number of starts, ports and
  kills, both platforms. The invariant `StartupInv` adds to the types, for every process, `Placed`: it is at one of the labels
  from ReservePort to the end of run() exactly if it holds the daemon lock; its listener is open, and its
  cloudflared runs, only at labels in between; config.yml names its port from Configure on. The last part
  needs the lock, since another daemon's Configure would undo it. `Others` is the frame lemma: what a process does
  under the lock, or without touching what is shared, leaves every other process where it is placed. From
  `OnlyTheHolder` (an open listener or a running tunnel means the lock) each step is one of
  SingleDaemon's or changes nothing of it. In particular the removal of a socket found dead never
  hits one that is alive, because between probing and removing nobody else can bind.
* `RefusedByLeavers` (`StartupProofs`): `StartupSafety => RefusedOnlyByLeavers`. When a start spawns its process it holds
  the startup lock and nobody answers. `Alone` says that then every other process that holds the daemon
  lock, or still asks for it, has been abandoned by its start; it is preserved because abandonment is final,
  and established because `Parted` (who waits for a daemon holds the startup lock) and `Met` (a daemon its own start has met
  answers until it shuts down) leave no other case.

The parts (`PartsProofs` and `StreamProofs`), each with the inductive invariant in front of it:

* `NothingOutlivesItsSupervisor`: `GoneWhenReported`, by `TunnelInv`: after the last kill of the group nothing
  in it runs, and nothing outside puts a helper into it.
* `VerifiedScriptsRun`, `LeftScriptsAreGood`: `RunsWhatItVerified` and `LeftoversAreGood`, by `SetupInv`. On windows
  the argument is the sharing mode: who reads a script keeps writers out (`ReadersKeepWritersOut`). On unix it is that the
  launcher is alone. A script that is not whole has a launcher that will see to it, unless one was killed.
* `ConfigStaysWhole`, `NoCandidateIsLeft`: `ConfigIsAlwaysWhole` and `CandidatesAreRemoved`, by `InstallInv`.
  Processes that run have ids of their own (`ProcessesDiffer`), hence names of their own, and `create_new` refuses
  the name of a candidate that a killed process has left; so each installer renames what it has validated itself.
  The count of the candidates is a proof about cardinalities.
* `RequestsCountForTheirRoute`, `SamplesAddUpToTotals`: `TargetAndMetricsAgree`, from the consistency of the
  registry (`RouteInv`, with the lemmas of `RegistryProofs`), and `SamplesAddUp`, from counters that never
  fall (`SampleInv`).
* `RowsFitEveryTerminal`, `OneRuleForSlugs`, `StopMeansWhatStartMeant`: `PanelRowsFit`, `SlugRulesAgree` and
  `SelectorsAreUnambiguous` for every width and for words of every length, where the run checks some.
* `FramesArrive` (`StreamProofs`): `FramesArriveWhole`, by `FrameInv`. As long as no read was cancelled within a frame,
  what is still ahead of the reader (what it has taken of a frame, the wire, what is not written yet) runs from the byte at the
  reader's place in the frame after the last one heard to the end of the last one written (`Flows`). A
  portion moves the borders between these three and no byte; a header read whole therefore declares the length that was encoded,
  which needs that division and remainder by the base are undone by `Declared`.
* `OutputStaysBounded`, `NewestOutputStays` (`StreamProofs`): `OutputIsBounded` and `NewestOutputIsKept`, by `OutputInv`:
  the byte count is the sum of the lines, and a stream has less than twice the chunk pending, or thrice while it is cut.
  A line that is cut to the limit fits by itself, hence the least eviction that satisfies both bounds leaves it there.
* `NormalizedStaysManaged`: `NormalizedIsManaged`. The scan agrees after every rule with the lists the contract
  selects (`ScanMatches`). The result has the same lists, with one wildcard rule and one fallback, so that
  a second scan differs in the port alone.
* `BytesAreCounted`: `EveryByteIsCounted`, by `ByteInv`: a session has one route for good and counters of sessions to come are
  zero, so that a byte raises one term of one port's sum (`Accounts`), or none when it is at its limit.
* `PartsTypeCorrect`: `PartsSpec => []PartsTypeOK`. `PartsAreComponents` shows that the composition implies every
  component's specification, so that the theorems above hold of it; the types then follow component by component,
  most of them from the invariants above (a sample is below its counter, hence below the limit).
* `FreeSlugsAreFound`, `OneMeaningForLines`: `GeneratedSlugsAreFree`, for any list of candidates and any draws, and
  `LinesHaveOneMeaning`.

Sums, widths and scans are folds, and the induction theorems of the library take an operator that the provers cannot
instantiate. The proofs about folds go another way: `Folds` shows that a fold is the last of a sequence of values
each of which follows from the one before, and a statement about every place in that sequence is proved by
`InductionOverNat`, whose hypothesis is a set of numbers; it follows from the well-foundedness of `<`
(`LeastElement`). `SumSplits` and its like are then facts about sums to be cited.

Model-checked only:

* `RequestsAreAnswered`, `KillEndsDaemon`, `CloudflaredExitEndsDaemon`, `DaemonFollowsItsClients`, `StartsEnd`,
  `ShutdownEnds`, `RequestsAreOver`: liveness, which the prover cannot treat (no ENABLED, no fairness).

## 7. Not modelled

* The setup scripts (`setup/`: shell, PowerShell and NSIS over Cloudflare's API). The one hazard of theirs that the survey
  found is listed.
* Checks that only read the file system and refuse: ownership, modes and symbolic links of the runtime
  directory and the lock files, paths of the installation (they appear as a start that fails).
* Header rewriting, connections that carry several requests, HTML and JSON pages, colours, wording and
  number formats.
* Two installations with a configuration in common are in ConfigInstall but not in Startup; the cloudflared a killed
  daemon leaves behind on unix is an orphan there and does nothing more. The file offset that a verified
  script's handle is left at is the platform's business.
* In FwSystem a client is connected from the start and a message is sent and received whole; Startup
  and FrameStream say what comes before and below. run() also awaits the proxy's task before it ends; the proxy stops
  on the same token and is assumed to.
