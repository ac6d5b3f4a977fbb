------------------------------- MODULE Daemon -------------------------------
(***************************************************************************)
(* The fw daemon (src/src/daemon/mod.rs) from the moment it serves its     *)
(* endpoint to the end of its process: the state its tasks share, one      *)
(* handler task per client connection, the stats tasks, the idle monitor,  *)
(* the delayed cancellation of `kill` and the main loop that watches       *)
(* cloudflared.  The tasks run on a multi-threaded executor, so an action  *)
(* is what a task does between two .awaits: every lock, channel send and   *)
(* timer wait ends one.  Clients are in FwSystem.tla.                      *)
(*                                                                         *)
(* Time is abstract: a timer that runs may go off at any moment.           *)
(***************************************************************************)
EXTENDS RouteRegistry, Sequences, FiniteSets

CONSTANTS
    Conns,            \* client connections, one per client process
    NoConn,           \* "no entry" in owners and in acknowledgements
    ChannelCapacity,  \* CHANNEL_CAPACITY, plus what the writer and the socket hold
    Events,           \* bound: the things that may go wrong or occur unasked in this instance
    PromptHandlers    \* no handler is still at the locks of a registration REMOTE_STOP_TIMEOUT
                      \* after a `stop` found that registration's route

ASSUME ConnAssumption == NoConn \notin Conns
ASSUME PromptAssumption == PromptHandlers \in BOOLEAN
ASSUME CapacityAssumption == ChannelCapacity \in Nat \ {0}

VARIABLES
    \* Shared
    registry,      \* registry: RwLock<RouteRegistry>
    owners,        \* owners: per session, the connection whose channel was stored
    acks,          \* acknowledgements: per session, the connection of the waiting `stop`
    issued,        \* next_session - 1
    shuttingDown,  \* shutting_down
    idle,          \* idle_since: "none", "counting", "elapsed" (set, DAEMON_IDLE_TIMEOUT ago)
    shutdown,      \* the root CancellationToken is cancelled
    \* tasks
    handler,       \* per connection, its handle_connection task: label and local variables
    stats,         \* per connection, the slug its stats task watches or NoSlug
    killTimer,     \* the task that cancels 250 ms after KillAccepted was queued
    idleTask,      \* idle_monitor: "ticking", "expired" (it read an old idle_since), "ended"
    accepting,     \* accept_loop runs and the endpoint exists
    main,          \* run(): its label and the channels broadcast_fatal still has to serve
    cloudflared,   \* "up", "exited" (by itself), "stopped" (by shutdown)
    \* connections
    link           \* per connection, both directions and whether each end is there

sharedVars == <<registry, owners, acks, issued, shuttingDown, idle, shutdown>>
taskVars == <<killTimer, idleTask, accepting, main, cloudflared>>
daemonVars == <<sharedVars, handler, stats, taskVars, link>>

------------------------------------------------------------------------------
(* Messages and types. *)

RegisterMessage == [type : {"register"}, port : Ports, slug : Slugs \cup {NoSlug}]
SessionMessage == [type : {"unregister", "terminateAcknowledged"}, session : Sessions]
StopMessage == [type : {"stop"}, selector : Selectors]
PlainMessage == [type : {"list", "kill"}]
ClientMessage == RegisterMessage \cup SessionMessage \cup StopMessage \cup PlainMessage

(* What a handler works on: a message, the end of its connection, or nothing. *)
Disconnect == [type |-> "disconnect"]
NoJob == [type |-> "none"]

(* The parts of ServerMessage that matter: the kind and the session it is about.  "remoteStop" and *)
(* "daemonKill" are Terminate with that reason; "none" is no message.                              *)
AnswerTypes == {"registered", "unregistered", "stopped"}
PlainTypes ==
    {"none", "routeList", "killAccepted", "remoteStop", "daemonKill", "stats", "error", "fatal"}
ServerMessage == [type : AnswerTypes, session : Sessions] \cup
                 [type : PlainTypes, session : {NoSession}]

Msg(type, session) == [type |-> type, session |-> session]
Plain(type) == Msg(type, NoSession)

HandlerLabels ==
    {"absent", "backlog", "reading",
     "regRoute", "regOwner", "regActive",
     "stopAck", "stopLookup", "stopSend", "stopArm", "stopWait",
     "killClear", "killSnapshot", "killSend",
     "rmRoutes", "rmOwner", "rmAck", "rmCheck", "rmIdle",
     "reply", "done", "failed", "gone"}

Handler ==
    [pc     : HandlerLabels,
     owned  : Sessions \cup {NoSession},           \* owned_session
     job    : ClientMessage \cup {Disconnect, NoJob},
     target : Sessions \cup {NoSession},           \* the session the job is about
     slug   : Slugs \cup {NoSlug},                 \* the slug a registration was given
     queue  : Seq(Conns),                          \* channels a Terminate still goes to
     reply  : ServerMessage]                       \* the response to send

Link ==
    [peer   : {"absent", "connected", "closed"},   \* the client's end
     inbox  : Seq(ClientMessage),                  \* written by the client, not read yet
     outbox : Seq(ServerMessage),                  \* sent to the client, not read yet
     writer : BOOLEAN]                             \* the writer task has not failed

(* Every shared map, handler, channel and task label has its type; sessions are numbers that the  *)
(* bound allows.  Which of them are issued, and to whom, is SessionsArePrivate (FwSystem.tla).    *)
TypeOK ==
    /\ registry \in Registry
    /\ owners \in [Sessions -> Conns \cup {NoConn}]
    /\ acks \in [Sessions -> Conns \cup {NoConn}]
    /\ issued \in 0..MaxSession
    /\ shuttingDown \in BOOLEAN
    /\ idle \in {"none", "counting", "elapsed"}
    /\ shutdown \in BOOLEAN
    /\ handler \in [Conns -> Handler]
    /\ stats \in [Conns -> Slugs \cup {NoSlug}]
    /\ killTimer \in BOOLEAN
    /\ idleTask \in {"ticking", "expired", "ended"}
    /\ accepting \in BOOLEAN
    /\ main \in [pc : {"polling", "fatalSnapshot", "fatalSend", "fatalClear", "fatalCancel",
                       "stopping", "draining", "exited"},
                 queue : Seq(Conns)]
    /\ cloudflared \in {"up", "exited", "stopped"}
    /\ link \in [Conns -> Link]

NoHandler ==
    [pc |-> "absent", owned |-> NoSession, job |-> NoJob, target |-> NoSession,
     slug |-> NoSlug, queue |-> <<>>, reply |-> Plain("none")]

NoLink == [peer |-> "absent", inbox |-> <<>>, outbox |-> <<>>, writer |-> TRUE]

(* run() has reserved the proxy port, bound the endpoint and seen cloudflared stabilise; it has    *)
(* called mark_idle_if_empty on the empty registry and spawned the accept loop and idle monitor.   *)
DaemonInit ==
    /\ registry = EmptyRegistry
    /\ owners = [n \in Sessions |-> NoConn]
    /\ acks = [n \in Sessions |-> NoConn]
    /\ issued = 0
    /\ shuttingDown = FALSE
    /\ idle = "counting"
    /\ shutdown = FALSE
    /\ handler = [c \in Conns |-> NoHandler]
    /\ stats = [c \in Conns |-> NoSlug]
    /\ killTimer = FALSE
    /\ idleTask = "ticking"
    /\ accepting = TRUE
    /\ main = [pc |-> "polling", queue |-> <<>>]
    /\ cloudflared = "up"
    /\ link = [c \in Conns |-> NoLink]

------------------------------------------------------------------------------
(* Channels.  A send waits for room, unless the writer task has failed: then it returns an error   *)
(* at once and the message is dropped.                                                             *)

CanSend(c) == link[c].writer => Len(link[c].outbox) < ChannelCapacity

Sent(c, m) ==
    IF link[c].writer THEN [link EXCEPT ![c].outbox = Append(@, m)] ELSE link

(* The orders in which a HashMap of owners may be iterated: every stored channel once. *)
Owning == {n \in Sessions : owners[n] # NoConn}

OwnerQueues ==
    {[i \in 1..Cardinality(Owning) |-> owners[order[i]]] :
        order \in {f \in [1..Cardinality(Owning) -> Owning] :
                       \A i, j \in DOMAIN f : f[i] = f[j] => i = j}}

------------------------------------------------------------------------------
(* A handler task: moving between labels. *)

Running == main.pc # "exited"

At(c, label) == Running /\ handler[c].pc = label

Goto(c, label) == handler' = [handler EXCEPT ![c].pc = label]

(* Back to the top of the loop, or out of it, with the locals of the last job dropped. *)
Rest(label, owned) ==
    [NoHandler EXCEPT !.pc = label, !.owned = owned]

Replying(h, m) == [h EXCEPT !.pc = "reply", !.reply = m]

GotoReply(c, m) == handler' = [handler EXCEPT ![c] = Replying(@, m)]

(* read_frame returns the next message, of one of these types. *)
Receive(c, types) ==
    /\ At(c, "reading")
    /\ link[c].inbox # <<>>
    /\ Head(link[c].inbox).type \in types
    /\ link' = [link EXCEPT ![c].inbox = Tail(@)]

Begin(c, label, target) ==
    handler' = [handler EXCEPT ![c].pc = label, ![c].target = target,
                               ![c].job = Head(link[c].inbox)]

Refuse(c) ==
    handler' = [handler EXCEPT ![c] = Replying(@, Plain("error"))]

(* accept_loop takes a connection from the backlog and spawns its handler. *)
Accept(c) ==
    /\ At(c, "backlog")
    /\ accepting
    /\ Goto(c, "reading")
    /\ UNCHANGED <<sharedVars, stats, taskVars, link>>

------------------------------------------------------------------------------
(* Register. *)

(* Mutant: the number is taken from the routes there are, not from a counter. *)
ReadRegisterByCount(c) ==
    /\ Receive(c, {"register"})
    /\ IF handler[c].owned # NoSession \/ shuttingDown
       THEN Refuse(c) /\ UNCHANGED issued
       ELSE LET session == Cardinality(Routes(registry)) + 1
            IN  /\ session <= MaxSession
                /\ issued' = IF session > issued THEN session ELSE issued
                /\ Begin(c, "regRoute", session)
    /\ UNCHANGED <<registry, owners, acks, shuttingDown, idle, shutdown, stats, taskVars>>

(* The checks, then fetch_add: no .await separates them. *)
ReadRegister(c) ==
    /\ Receive(c, {"register"})
    /\ IF handler[c].owned # NoSession \/ shuttingDown
       THEN Refuse(c) /\ UNCHANGED issued
       ELSE /\ issued < MaxSession
            /\ issued' = issued + 1
            /\ Begin(c, "regRoute", issued + 1)
    /\ UNCHANGED <<registry, owners, acks, shuttingDown, idle, shutdown, stats, taskVars>>

(* Mutant: owned_session = Some(session) forgotten. *)
RegisterRouteUnowned(c) ==
    /\ At(c, "regRoute")
    /\ \E m \in RegisterMessage :
          /\ handler[c].job = m
          /\ \E slug \in SlugChoices(registry, m.port, m.slug) :
                /\ registry' = AddRoute(registry, [slug |-> slug, port |-> m.port,
                                                   session |-> handler[c].target])
                /\ handler' = [handler EXCEPT ![c].pc = "regOwner", ![c].slug = slug]
    /\ UNCHANGED <<owners, acks, issued, shuttingDown, idle, shutdown, stats, taskVars, link>>

(* registry.register under the write lock, and owned_session on success. *)
RegisterRoute(c) ==
    /\ At(c, "regRoute")
    /\ \E m \in RegisterMessage :
          /\ handler[c].job = m
          /\ LET choices == SlugChoices(registry, m.port, m.slug)
                 session == handler[c].target
             IN \/ /\ choices = {}
                   /\ GotoReply(c, Plain("error"))
                   /\ UNCHANGED registry
                \/ \E slug \in choices :
                      /\ registry' = AddRoute(registry, [slug |-> slug, port |-> m.port,
                                                         session |-> session])
                      /\ handler' = [handler EXCEPT ![c].pc = "regOwner", ![c].slug = slug,
                                                    ![c].owned = session]
    /\ UNCHANGED <<owners, acks, issued, shuttingDown, idle, shutdown, stats, taskVars, link>>

RegisterOwner(c) ==
    /\ At(c, "regOwner")
    /\ owners' = [owners EXCEPT ![handler[c].target] = c]
    /\ Goto(c, "regActive")
    /\ UNCHANGED <<registry, acks, issued, shuttingDown, idle, shutdown, stats, taskVars, link>>

(* mark_active. *)
RegisterActive(c) ==
    /\ At(c, "regActive")
    /\ idle' = "none"
    /\ GotoReply(c, Msg("registered", handler[c].target))
    /\ UNCHANGED <<registry, owners, acks, issued, shuttingDown, shutdown, stats, taskVars, link>>

------------------------------------------------------------------------------
(* Unregister, TerminateAcknowledged and disconnection end in remove_session.  A foreign session   *)
(* is refused, or ignored when acknowledged.                                                       *)

ReadUnregister(c) ==
    /\ Receive(c, {"unregister"})
    /\ LET session == Head(link[c].inbox).session
       IN IF session = handler[c].owned THEN Begin(c, "rmRoutes", session) ELSE Refuse(c)
    /\ UNCHANGED <<sharedVars, stats, taskVars>>

ReadAcknowledged(c) ==
    /\ Receive(c, {"terminateAcknowledged"})
    /\ LET session == Head(link[c].inbox).session
       IN IF session = handler[c].owned THEN Begin(c, "rmRoutes", session) ELSE UNCHANGED handler
    /\ UNCHANGED <<sharedVars, stats, taskVars>>

(* Mutant: the handler ends without remove_session. *)
ReadDisconnectForgetting(c) ==
    /\ At(c, "reading")
    /\ link[c].inbox = <<>>
    /\ link[c].peer = "closed"
    /\ handler' = [handler EXCEPT ![c] = Rest("done", NoSession)]
    /\ UNCHANGED <<sharedVars, stats, taskVars, link>>

ReadDisconnect(c) ==
    /\ At(c, "reading")
    /\ link[c].inbox = <<>>
    /\ link[c].peer = "closed"
    /\ handler' = [handler EXCEPT
          ![c] = IF @.owned = NoSession THEN Rest("done", NoSession)
                 ELSE [@ EXCEPT !.pc = "rmRoutes", !.job = Disconnect, !.target = handler[c].owned]]
    /\ UNCHANGED <<sharedVars, stats, taskVars, link>>

(* A frame that cannot be read for any other reason (is_disconnect is false): handle_connection    *)
(* returns the error at once.                                                                      *)
ReadError(c) ==
    /\ "readError" \in Events
    /\ At(c, "reading")
    /\ link[c].peer = "connected"
    /\ handler' = [handler EXCEPT ![c] = Rest("failed", @.owned)]
    /\ UNCHANGED <<sharedVars, stats, taskVars, link>>

(* remove_session(target): one lock after the other, then the caller goes on. *)
RemoveRoutes(c) ==
    /\ At(c, "rmRoutes")
    /\ registry' = RemoveSession(registry, handler[c].target)
    /\ Goto(c, "rmOwner")
    /\ UNCHANGED <<owners, acks, issued, shuttingDown, idle, shutdown, stats, taskVars, link>>

(* Mutant: the owner's channel stays stored. *)
RemoveOwnerForgotten(c) ==
    /\ At(c, "rmOwner")
    /\ Goto(c, "rmAck")
    /\ UNCHANGED <<sharedVars, stats, taskVars, link>>

RemoveOwner(c) ==
    /\ At(c, "rmOwner")
    /\ owners' = [owners EXCEPT ![handler[c].target] = NoConn]
    /\ Goto(c, "rmAck")
    /\ UNCHANGED <<registry, acks, issued, shuttingDown, idle, shutdown, stats, taskVars, link>>

(* Mutant: the Notify is looked up but not removed. *)
RemoveAckKept(c) ==
    /\ At(c, "rmAck")
    /\ handler' = [d \in Conns |->
          IF d = c THEN [handler[d] EXCEPT !.pc = "rmCheck"]
          ELSE IF d = acks[handler[c].target] /\ handler[d].pc = "stopWait"
          THEN Replying(handler[d], Msg("stopped", handler[d].target))
          ELSE handler[d]]
    /\ UNCHANGED <<sharedVars, stats, taskVars, link>>

(* notify_waiters wakes a `stop` that waits already, and leaves nothing for one that does not. *)
RemoveAck(c) ==
    /\ At(c, "rmAck")
    /\ LET session == handler[c].target
       IN /\ acks' = [acks EXCEPT ![session] = NoConn]
          /\ handler' = [d \in Conns |->
                IF d = c THEN [handler[d] EXCEPT !.pc = "rmCheck"]
                ELSE IF d = acks[session] /\ handler[d].pc = "stopWait"
                THEN Replying(handler[d], Msg("stopped", handler[d].target))
                ELSE handler[d]]
    /\ UNCHANGED <<registry, owners, issued, shuttingDown, idle, shutdown, stats, taskVars, link>>

(* What the caller of remove_session does next. *)
AfterRemoval(h) ==
    CASE h.job.type = "unregister" -> Replying(h, Msg("unregistered", h.target))
      [] h.job.type = "stop" -> Replying(h, Msg("stopped", h.target))
      [] h.job.type = "terminateAcknowledged" -> Rest("reading", NoSession)
      [] OTHER -> Rest("done", NoSession)

(* mark_idle_if_empty reads the registry and lets go of it before it locks idle_since. *)
CheckEmpty(c) ==
    /\ At(c, "rmCheck")
    /\ handler' = [handler EXCEPT
          ![c] = IF IsEmpty(registry) THEN [@ EXCEPT !.pc = "rmIdle"] ELSE AfterRemoval(@)]
    /\ UNCHANGED <<sharedVars, stats, taskVars, link>>

MarkIdle(c) ==
    /\ At(c, "rmIdle")
    /\ idle' = IF idle = "none" THEN "counting" ELSE idle
    /\ handler' = [handler EXCEPT ![c] = AfterRemoval(@)]
    /\ UNCHANGED <<registry, owners, acks, issued, shuttingDown, shutdown, stats, taskVars, link>>

------------------------------------------------------------------------------
(* List and Stop. *)

ReadList(c) ==
    /\ Receive(c, {"list"})
    /\ GotoReply(c, Plain("routeList"))
    /\ UNCHANGED <<sharedVars, stats, taskVars>>

(* stop_route resolves the selector first; the route it found may be gone by the time it acts. *)
ReadStop(c) ==
    /\ Receive(c, {"stop"})
    /\ LET route == Resolve(registry, Head(link[c].inbox).selector)
       IN IF route = NoRoute THEN Refuse(c) ELSE Begin(c, "stopAck", route.session)
    /\ UNCHANGED <<sharedVars, stats, taskVars>>

(* The Notify replaces the one an earlier `stop` of the session may still wait for. *)
StopInsertsAck(c) ==
    /\ At(c, "stopAck")
    /\ acks' = [acks EXCEPT ![handler[c].target] = c]
    /\ Goto(c, "stopLookup")
    /\ UNCHANGED <<registry, owners, issued, shuttingDown, idle, shutdown, stats, taskVars, link>>

(* Mutant: the owner's channel is taken to be stored always. *)
StopLooksUpUnchecked(c) ==
    /\ At(c, "stopLookup")
    /\ handler' = [handler EXCEPT ![c].pc = "stopSend",
                                  ![c].queue = <<owners[handler[c].target]>>]
    /\ UNCHANGED <<sharedVars, stats, taskVars, link>>

(* send_owner clones the owner's channel, if it is stored, and sends Terminate. *)
StopLooksUp(c) ==
    /\ At(c, "stopLookup")
    /\ LET owner == owners[handler[c].target]
       IN handler' = [handler EXCEPT ![c].pc = "stopSend",
                                     ![c].queue = IF owner = NoConn THEN <<>> ELSE <<owner>>]
    /\ UNCHANGED <<sharedVars, stats, taskVars, link>>

(* One send of stop_route or of kill_daemon's loop over the owners, and what follows the last. *)
SendTerminate(c) ==
    /\ \/ At(c, "stopSend")
       \/ At(c, "killSend")
    /\ LET stopping == handler[c].pc = "stopSend"
           queue == handler[c].queue
       IN IF queue = <<>>
          THEN /\ handler' = [handler EXCEPT ![c] =
                     IF stopping THEN [@ EXCEPT !.pc = "stopArm"]
                                 ELSE Replying(@, Plain("killAccepted"))]
               /\ UNCHANGED link
          ELSE /\ CanSend(Head(queue))
               /\ link' = Sent(Head(queue), Plain(IF stopping THEN "remoteStop" ELSE "daemonKill"))
               /\ handler' = [handler EXCEPT ![c].queue = Tail(queue)]
    /\ UNCHANGED <<sharedVars, stats, taskVars>>

(* Only now does notify.notified() exist: a wake-up before this step is lost. *)
StopArms(c) ==
    /\ At(c, "stopArm")
    /\ Goto(c, "stopWait")
    /\ UNCHANGED <<sharedVars, stats, taskVars, link>>

Registering(n) ==
    \E c \in Conns : handler[c].target = n /\ handler[c].pc \in {"regOwner", "regActive"}

(* Mutant: after the timeout Stopped is sent although the owner did not leave. *)
StopTimesOutSilently(c) ==
    /\ At(c, "stopWait")
    /\ GotoReply(c, Msg("stopped", handler[c].target))
    /\ UNCHANGED <<sharedVars, stats, taskVars, link>>

(* Mutant: notified() is awaited without a timeout. *)
StopTimesOutNever(c) == FALSE

(* REMOTE_STOP_TIMEOUT has passed: the daemon removes the session itself. *)
StopTimesOut(c) ==
    /\ At(c, "stopWait")
    /\ PromptHandlers => ~Registering(handler[c].target)
    /\ Goto(c, "rmRoutes")
    /\ UNCHANGED <<sharedVars, stats, taskVars, link>>

------------------------------------------------------------------------------
(* Kill. *)

(* swap(true): only the first `kill`, and none after the daemon began to shut down, gets through. *)
ReadKill(c) ==
    /\ Receive(c, {"kill"})
    /\ shuttingDown' = TRUE
    /\ IF shuttingDown THEN Refuse(c) ELSE Begin(c, "killClear", NoSession)
    /\ UNCHANGED <<registry, owners, acks, issued, idle, shutdown, stats, taskVars>>

KillClears(c) ==
    /\ At(c, "killClear")
    /\ registry' = EmptyRegistry
    /\ Goto(c, "killSnapshot")
    /\ UNCHANGED <<owners, acks, issued, shuttingDown, idle, shutdown, stats, taskVars, link>>

(* owners is cloned and released; SendTerminate goes through the clone. *)
KillSnapshots(c) ==
    /\ At(c, "killSnapshot")
    /\ \E queue \in OwnerQueues :
          handler' = [handler EXCEPT ![c].pc = "killSend", ![c].queue = queue]
    /\ UNCHANGED <<sharedVars, stats, taskVars, link>>

(* Mutant: the delayed task cancels nothing. *)
KillDelayForgets ==
    /\ Running
    /\ killTimer
    /\ killTimer' = FALSE
    /\ UNCHANGED <<sharedVars, handler, stats, idleTask, accepting, main, cloudflared, link>>

KillDelayEnds ==
    /\ Running
    /\ killTimer
    /\ killTimer' = FALSE
    /\ shutdown' = TRUE
    /\ UNCHANGED <<registry, owners, acks, issued, shuttingDown, idle, handler, stats,
                   idleTask, accepting, main, cloudflared, link>>

------------------------------------------------------------------------------
(* send_response, and what each caller does after it: spawn_stats after Registered, owned_session  *)
(* = None after Unregistered, the delayed cancellation after KillAccepted.  When the writer has    *)
(* failed, `?` leaves handle_connection before any of it.                                          *)

SendReply(c) ==
    /\ At(c, "reply")
    /\ CanSend(c)
    /\ LET h == handler[c]
           sent == h.reply.type
       IN IF ~link[c].writer
          THEN /\ handler' = [handler EXCEPT ![c] = Rest("failed", h.owned)]
               /\ UNCHANGED <<link, stats, killTimer>>
          ELSE /\ link' = Sent(c, h.reply)
               /\ handler' = [handler EXCEPT ![c] =
                     Rest("reading", IF sent = "unregistered" THEN NoSession ELSE h.owned)]
               /\ stats' = IF sent = "registered" THEN [stats EXCEPT ![c] = h.slug] ELSE stats
               /\ killTimer' = (killTimer \/ sent = "killAccepted")
    /\ UNCHANGED <<sharedVars, idleTask, accepting, main, cloudflared>>

(* The stats task of a connection: it ends when its slug has no route, whoever owns it, or when    *)
(* the writer has failed.  It looks its slug up and then waits for room; here both are one step,   *)
(* so the sample that may still be sent after the route has gone in between is not: a client shows *)
(* or skips it, and no property tells the one from the other.                                      *)
StatsTick(c) ==
    /\ Running
    /\ stats[c] # NoSlug
    /\ IF registry.bySlug[stats[c]] = NoRoute \/ ~link[c].writer
       THEN stats' = [stats EXCEPT ![c] = NoSlug] /\ UNCHANGED link
       ELSE /\ "stats" \in Events
            /\ CanSend(c)
            /\ link' = Sent(c, Plain("stats"))
            /\ UNCHANGED stats
    /\ UNCHANGED <<sharedVars, handler, taskVars>>

(* The writer task: a write to a client that is gone fails, and the channel closes.  A frame over  *)
(* the size limit fails it as well, to a client that still reads; that is in FrameStream.tla.      *)
WriterFails(c) ==
    /\ Running
    /\ link[c].peer = "closed"
    /\ link[c].outbox # <<>>
    /\ link' = [link EXCEPT ![c].writer = FALSE, ![c].outbox = <<>>]
    /\ UNCHANGED <<sharedVars, handler, stats, taskVars>>

------------------------------------------------------------------------------
(* The idle monitor. *)

IdleElapses ==
    /\ Running
    /\ idle = "counting"
    /\ idle' = "elapsed"
    /\ UNCHANGED <<registry, owners, acks, issued, shuttingDown, shutdown, handler, stats,
                   taskVars, link>>

(* The tick that finds idle_since old enough lets go of it before it acts. *)
IdleExpires ==
    /\ Running
    /\ idleTask = "ticking"
    /\ idle = "elapsed"
    /\ idleTask' = "expired"
    /\ UNCHANGED <<sharedVars, handler, stats, killTimer, accepting, main, cloudflared, link>>

IdleShutsDown ==
    /\ Running
    /\ idleTask = "expired"
    /\ idleTask' = "ended"
    /\ shuttingDown' = TRUE
    /\ shutdown' = TRUE
    /\ UNCHANGED <<registry, owners, acks, issued, idle, handler, stats, killTimer, accepting,
                   main, cloudflared, link>>

IdleCancelled ==
    /\ Running
    /\ idleTask = "ticking"
    /\ shutdown
    /\ idleTask' = "ended"
    /\ UNCHANGED <<sharedVars, handler, stats, killTimer, accepting, main, cloudflared, link>>

(* accept_loop ends when the token is cancelled or when accept() fails; the endpoint goes with it, *)
(* and the connections nobody accepted.                                                            *)
AcceptEnds ==
    /\ Running
    /\ accepting
    /\ shutdown \/ "acceptError" \in Events
    /\ accepting' = FALSE
    /\ handler' = [c \in Conns |-> IF handler[c].pc = "backlog" THEN Rest("gone", NoSession)
                                                               ELSE handler[c]]
    /\ UNCHANGED <<sharedVars, stats, killTimer, idleTask, main, cloudflared, link>>

------------------------------------------------------------------------------
(* run(): the main loop, broadcast_fatal and the way out. *)

MainAt(label) == main.pc = label
MainGoto(label) == main' = [main EXCEPT !.pc = label]

CloudflaredExits ==
    /\ "cloudflaredExit" \in Events
    /\ Running
    /\ cloudflared = "up"
    /\ cloudflared' = "exited"
    /\ UNCHANGED <<sharedVars, handler, stats, killTimer, idleTask, accepting, main, link>>

(* SIGTERM or SIGINT, or an error of try_wait_exit: the token is cancelled and nobody is told. *)
Cancelled ==
    /\ "cancel" \in Events
    /\ Running
    /\ shutdown' = TRUE
    /\ UNCHANGED <<registry, owners, acks, issued, shuttingDown, idle, handler, stats, taskVars,
                   link>>

(* try_wait_exit reports the exit, also in the last round after a cancellation. *)
MainFindsExit ==
    /\ MainAt("polling")
    /\ cloudflared = "exited"
    /\ shuttingDown' = TRUE
    /\ MainGoto("fatalSnapshot")
    /\ UNCHANGED <<registry, owners, acks, issued, idle, shutdown, handler, stats, killTimer,
                   idleTask, accepting, cloudflared, link>>

FatalSnapshots ==
    /\ MainAt("fatalSnapshot")
    /\ \E queue \in OwnerQueues : main' = [pc |-> "fatalSend", queue |-> queue]
    /\ UNCHANGED <<sharedVars, handler, stats, killTimer, idleTask, accepting, cloudflared, link>>

SendFatal ==
    /\ MainAt("fatalSend")
    /\ IF main.queue = <<>>
       THEN MainGoto("fatalClear") /\ UNCHANGED link
       ELSE /\ CanSend(Head(main.queue))
            /\ link' = Sent(Head(main.queue), Plain("fatal"))
            /\ main' = [main EXCEPT !.queue = Tail(@)]
    /\ UNCHANGED <<sharedVars, handler, stats, killTimer, idleTask, accepting, cloudflared>>

FatalClears ==
    /\ MainAt("fatalClear")
    /\ registry' = EmptyRegistry
    /\ MainGoto("fatalCancel")
    /\ UNCHANGED <<owners, acks, issued, shuttingDown, idle, shutdown, handler, stats, killTimer,
                   idleTask, accepting, cloudflared, link>>

(* Mutant: root.cancel() forgotten after the broadcast. *)
MainLeavesLoopUncancelled ==
    /\ \/ MainAt("fatalCancel")
       \/ MainAt("polling") /\ shutdown
    /\ shuttingDown' = TRUE
    /\ MainGoto("stopping")
    /\ UNCHANGED <<registry, owners, acks, issued, idle, shutdown, handler, stats, killTimer,
                   idleTask, accepting, cloudflared, link>>

(* The token is cancelled: by run() itself after the broadcast, by others seen at the loop's head. *)
MainLeavesLoop ==
    /\ \/ MainAt("fatalCancel")
       \/ MainAt("polling") /\ shutdown
    /\ shutdown' = TRUE
    /\ shuttingDown' = TRUE
    /\ MainGoto("stopping")
    /\ UNCHANGED <<registry, owners, acks, issued, idle, handler, stats, killTimer, idleTask,
                   accepting, cloudflared, link>>

MainStopsCloudflared ==
    /\ MainAt("stopping")
    /\ cloudflared' = "stopped"
    /\ MainGoto("draining")
    /\ UNCHANGED <<sharedVars, handler, stats, killTimer, idleTask, accepting, link>>

(* The process ends: what its memory held is gone, and so are its tasks, wherever they were. *)
ProcessEnds ==
    /\ registry' = EmptyRegistry
    /\ owners' = [n \in Sessions |-> NoConn]
    /\ acks' = [n \in Sessions |-> NoConn]
    /\ handler' = [c \in Conns |-> Rest("gone", NoSession)]
    /\ stats' = [c \in Conns |-> NoSlug]
    /\ killTimer' = FALSE
    /\ idleTask' = "ended"
    /\ accepting' = FALSE
    /\ main' = [pc |-> "exited", queue |-> <<>>]
    /\ UNCHANGED <<issued, shuttingDown, idle, shutdown, cloudflared, link>>

(* run() awaits the accept loop and the idle monitor, but no handler. *)
MainExits ==
    /\ MainAt("draining")
    /\ ~accepting
    /\ idleTask = "ended"
    /\ ProcessEnds

DaemonCrashes ==
    /\ "daemonCrash" \in Events
    /\ Running
    /\ ProcessEnds

------------------------------------------------------------------------------

HandlerStep(c) ==
    \/ Accept(c)
    \/ ReadRegister(c) \/ RegisterRoute(c) \/ RegisterOwner(c) \/ RegisterActive(c)
    \/ ReadUnregister(c) \/ ReadAcknowledged(c) \/ ReadDisconnect(c)
    \/ RemoveRoutes(c) \/ RemoveOwner(c) \/ RemoveAck(c) \/ CheckEmpty(c) \/ MarkIdle(c)
    \/ ReadList(c)
    \/ ReadStop(c) \/ StopInsertsAck(c) \/ StopLooksUp(c) \/ SendTerminate(c)
    \/ StopArms(c) \/ StopTimesOut(c)
    \/ ReadKill(c) \/ KillClears(c) \/ KillSnapshots(c)
    \/ SendReply(c)

MainStep ==
    \/ MainFindsExit \/ FatalSnapshots \/ SendFatal \/ FatalClears
    \/ MainLeavesLoop \/ MainStopsCloudflared \/ MainExits

IdleStep == IdleExpires \/ IdleShutsDown \/ IdleCancelled

Occurrence ==
    \/ CloudflaredExits \/ Cancelled \/ DaemonCrashes
    \/ \E c \in Conns : ReadError(c)

DaemonNext ==
    \/ \E c \in Conns : HandlerStep(c) \/ StatsTick(c) \/ WriterFails(c)
    \/ IdleElapses \/ IdleStep \/ KillDelayEnds \/ AcceptEnds \/ MainStep
    \/ Occurrence

(* tokio polls every ready task and fires every timer; its bounded channels serve waiting senders  *)
(* in order, so a sender whose channel gets room again and again is served (strong fairness).      *)
(* What may occur unasked has no fairness.                                                         *)
DaemonFairness ==
    /\ \A c \in Conns :
          /\ SF_daemonVars(HandlerStep(c))
          /\ WF_daemonVars(StatsTick(c))
          /\ WF_daemonVars(WriterFails(c))
    /\ WF_daemonVars(IdleElapses)
    /\ WF_daemonVars(IdleStep)
    /\ WF_daemonVars(KillDelayEnds)
    /\ WF_daemonVars(shutdown /\ AcceptEnds)
    /\ SF_daemonVars(MainStep)
=============================================================================
