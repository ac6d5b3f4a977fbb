------------------------------ MODULE FwSystem ------------------------------
(***************************************************************************)
(* The daemon of Daemon.tla together with the fw processes that talk to it *)
(* (src/src/main.rs): owners (`fw <port>`), `fw stop`, `fw kill` and       *)
(* `fw list`.  Every process opens one connection, makes one request and,  *)
(* if it is an owner, stays to read what the daemon sends until it is told *)
(* to go, is interrupted or loses the connection.                          *)
(*                                                                         *)
(* An owner that finds no endpoint starts a daemon; that is not modelled   *)
(* here: clients whose connection is refused never appear.                 *)
(***************************************************************************)
EXTENDS Daemon

CONSTANTS
    Requests,  \* per process, the requests it may make: what it may have been started with
    Suspended  \* owners whose process is stopped once they forward (SIGSTOP, Ctrl-Z)

Request == RegisterMessage \cup StopMessage \cup PlainMessage

ASSUME RequestsAssumption == Requests \in [Conns -> SUBSET Request]
ASSUME SuspendedAssumption == Suspended \subseteq Conns

VARIABLE
    client  \* per process: the type of its request, how far it is, the session it was told

vars == <<daemonVars, client>>

ClientState ==
    [request : {"register", "stop", "list", "kill", "none"},
     state : {"new", "requested", "forwarding", "unregistering", "succeeded", "failed"},
     session : Sessions \cup {NoSession}]

(* The types of the daemon's state (Daemon.tla) and of the clients'. *)
SystemTypeOK == TypeOK /\ client \in [Conns -> ClientState]

Init ==
    /\ DaemonInit
    /\ client = [c \in Conns |-> [request |-> "none", state |-> "new", session |-> NoSession]]

------------------------------------------------------------------------------

Is(c, state) == client[c].state = state
Finished(c) == client[c].state \in {"succeeded", "failed"}
Open(c) == ~Is(c, "new") /\ ~Finished(c)
Owner(c) == client[c].request = "register"

Become(c, state) == client' = [client EXCEPT ![c].state = state]

(* connect() succeeds as long as the endpoint exists, accepted or not; then the request is written. *)
Connect(c) ==
    /\ Is(c, "new")
    /\ Running /\ accepting
    /\ \E m \in Requests[c] :
          /\ client' = [client EXCEPT ![c].request = m.type, ![c].state = "requested"]
          /\ link' = [link EXCEPT ![c].peer = "connected", ![c].inbox = <<m>>]
    /\ handler' = [handler EXCEPT ![c].pc = "backlog"]
    /\ UNCHANGED <<sharedVars, stats, taskVars>>

(* The stream is closed for the client once the handler and every clone of its channel are gone;   *)
(* until then nothing ends a read.  A process that ended may take what its writer held with it.    *)
ServerEndClosed(c) ==
    \/ ~Running
    \/ handler[c].pc = "gone"
    \/ /\ handler[c].pc \in {"done", "failed"}
       /\ stats[c] = NoSlug
       /\ \A n \in Sessions : owners[n] # c

------------------------------------------------------------------------------
(* What a process does to its own end of the connection. *)

Incoming(c, types) ==
    /\ link[c].outbox # <<>>
    /\ Head(link[c].outbox).type \in types

Read(c) == link' = [link EXCEPT ![c].outbox = Tail(@)]

(* The process exits with a status.  What it had not read was either in its socket, and is lost,   *)
(* or still with the daemon's writer, and will fail to be written.                                 *)
Exit(c, state, unread) ==
    /\ Become(c, state)
    /\ \E left \in {unread, <<>>} :
          link' = [link EXCEPT ![c].peer = "closed", ![c].outbox = left]

ReadAndExit(c, state) == Exit(c, state, Tail(link[c].outbox))

(* unregister(): write Unregister, then wait for the answer; the write fails if nobody listens. *)
Unregister(c, unread) ==
    IF ServerEndClosed(c)
    THEN Exit(c, "failed", unread)
    ELSE /\ Become(c, "unregistering")
         /\ link' = [link EXCEPT
                ![c].outbox = unread,
                ![c].inbox = Append(@, [type |-> "unregister", session |-> client[c].session])]

------------------------------------------------------------------------------
(* An owner: run_start up to the answer, then run_owner_session. *)

OwnerIsRegistered(c) ==
    /\ Owner(c) /\ Is(c, "requested")
    /\ Incoming(c, {"registered"})
    /\ client' = [client EXCEPT ![c].state = "forwarding",
                                ![c].session = Head(link[c].outbox).session]
    /\ Read(c)

(* An error, a fatal error, or anything else that arrives before the answer. *)
OwnerIsNotRegistered(c) ==
    /\ Owner(c) /\ Is(c, "requested")
    /\ link[c].outbox # <<>>
    /\ Head(link[c].outbox).type # "registered"
    /\ ReadAndExit(c, "failed")

(* The next message is the answer to this owner's Unregister: it names the owner's session. *)
Acknowledged(c) == Head(link[c].outbox) = Msg("unregistered", client[c].session)

(* unregister() skips whatever is not that answer, nor an error. *)
OwnerSkips(c) ==
    /\ Owner(c)
    /\ \/ Is(c, "forwarding") /\ Incoming(c, {"stats"})
       \/ /\ Is(c, "unregistering")
          /\ Incoming(c, {"stats", "remoteStop", "daemonKill", "fatal", "unregistered"})
          /\ ~Acknowledged(c)
    /\ Read(c)
    /\ UNCHANGED client

OwnerIsStopped(c) ==
    /\ Owner(c) /\ Is(c, "forwarding")
    /\ Incoming(c, {"remoteStop"})
    /\ Unregister(c, Tail(link[c].outbox))

(* TerminateAcknowledged is written if it can be, and the process leaves without an answer. *)
OwnerIsKilled(c) ==
    /\ Owner(c) /\ Is(c, "forwarding")
    /\ Incoming(c, {"daemonKill"})
    /\ Become(c, "succeeded")
    /\ link' = [link EXCEPT
          ![c].peer = "closed",
          ![c].outbox = Tail(@),
          ![c].inbox = IF ServerEndClosed(c) THEN @
                       ELSE Append(@, [type |-> "terminateAcknowledged",
                                       session |-> client[c].session])]

OwnerFails(c) ==
    /\ Owner(c) /\ client[c].state \in {"forwarding", "unregistering"}
    /\ Incoming(c, IF Is(c, "forwarding") THEN {"fatal", "error"} ELSE {"error"})
    /\ ReadAndExit(c, "failed")

OwnerLeaves(c) ==
    /\ Owner(c) /\ Is(c, "unregistering")
    /\ Incoming(c, {"unregistered"}) /\ Acknowledged(c)
    /\ ReadAndExit(c, "succeeded")

(* `fw stop`, `fw kill`, `fw list`: the first message is the answer. *)
RequestIsAnswered(c) ==
    /\ ~Owner(c) /\ Is(c, "requested")
    /\ link[c].outbox # <<>>
    /\ ReadAndExit(c, IF Incoming(c, {"error"}) THEN "failed" ELSE "succeeded")

(* The end of the stream is an error to every process that still reads.  Of a daemon that is gone, *)
(* messages its writer held are gone too.                                                          *)
ConnectionLost(c) ==
    /\ Open(c)
    /\ ServerEndClosed(c)
    /\ link[c].outbox = <<>> \/ ~Running
    /\ Exit(c, "failed", <<>>)

(* Ctrl-C in an owner's terminal. *)
OwnerInterrupted(c) ==
    /\ "interrupt" \in Events
    /\ c \notin Suspended /\ Owner(c) /\ Is(c, "forwarding")
    /\ Unregister(c, link[c].outbox)

(* The process is killed, or interrupted before it installed its handler. *)
ClientCrashes(c) ==
    /\ "clientCrash" \in Events
    /\ Open(c)
    /\ Exit(c, "failed", link[c].outbox)

ClientReads(c) ==
    /\ c \in Suspended => Is(c, "requested")
    /\ \/ OwnerIsRegistered(c) \/ OwnerIsNotRegistered(c) \/ OwnerSkips(c)
       \/ OwnerIsStopped(c) \/ OwnerIsKilled(c) \/ OwnerFails(c) \/ OwnerLeaves(c)
       \/ RequestIsAnswered(c) \/ ConnectionLost(c)
    /\ UNCHANGED <<sharedVars, handler, stats, taskVars>>

ClientOccurrence(c) ==
    /\ OwnerInterrupted(c) \/ ClientCrashes(c)
    /\ UNCHANGED <<sharedVars, handler, stats, taskVars>>

------------------------------------------------------------------------------

Next ==
    \/ DaemonNext /\ UNCHANGED client
    \/ \E c \in Conns : Connect(c) \/ ClientReads(c) \/ ClientOccurrence(c)

Safety == Init /\ [][Next]_vars

(* Users start processes when they like; a process that is not suspended reads what it is sent. *)
Spec == Safety /\ DaemonFairness /\ \A c \in Conns : WF_vars(ClientReads(c))

------------------------------------------------------------------------------
(* Safety. *)

(* The three indexes of registry.rs agree whatever the tasks do: no interleaving of registrations, *)
(* removals by owners and by `stop` timeouts, and clears leaves a port or a session entry behind.  *)
RegistryConsistent == Consistent(registry)

HasRoute(n) == \E s \in Slugs : registry.bySlug[s] # NoRoute /\ registry.bySlug[s].session = n

Serving(c) == handler[c].pc \notin {"done", "failed", "gone"}

StopPending(n) ==
    \E c \in Conns : /\ handler[c].job.type = "stop" /\ handler[c].target = n
                     /\ handler[c].pc # "reply"

(* Every route has somebody who will remove it: the handler that owns its session is still there,  *)
(* or a `stop` of it has not finished, or the daemon is going down.  A handler that leaves through *)
(* an error (a reply whose writer failed) skips its cleanup, so this is not the handler's doing    *)
(* alone (mod.rs:253-370, 372-423).                                                                *)
RoutesAreKept ==
    \A n \in Sessions : HasRoute(n) =>
        \/ \E c \in Conns : handler[c].owned = n /\ Serving(c)
        \/ StopPending(n)
        \/ shuttingDown

(* Stopped and Unregistered are only sent, and only arrive, when the session has no route any more *)
(* and so never will: not for a `stop` woken by the owner's cleanup, not for one that timed out,   *)
(* not for two that stop the same route (mod.rs:323-335, 409-422).                                 *)
AnswersAreTrue ==
    \A c \in Conns :
        \A m \in {handler[c].reply} \cup {link[c].outbox[i] : i \in DOMAIN link[c].outbox} :
            m.type \in {"stopped", "unregistered"} => ~HasRoute(m.session)

(* The sessions a connection is about: the one its handler registers or owns, the one its process  *)
(* was told, and those that messages of either, written and not yet read, name as that owner's.    *)
NamingTypes == {"registered", "unregistered", "unregister", "terminateAcknowledged"}

Naming(messages) == {m.session : m \in {x \in messages : x.type \in NamingTypes}}

SessionsOf(c) ==
    ({client[c].session, handler[c].owned}
        \cup (IF handler[c].pc = "regRoute" THEN {handler[c].target} ELSE {})
        \cup (IF handler[c].pc = "reply" THEN Naming({handler[c].reply}) ELSE {})
        \cup Naming({link[c].inbox[i] : i \in DOMAIN link[c].inbox})
        \cup Naming({link[c].outbox[i] : i \in DOMAIN link[c].outbox})) \ {NoSession}

(* A session belongs to one connection for good.  Both programs trust the numbers: the daemon      *)
(* removes what an Unregister names if it is the handler's own, and an owner that unregisters      *)
(* skips every answer that names another session and waits on (mod.rs:288, 324; main.rs:293-301).  *)
(* So all that is on a connection names one session, an issued one, and no other connection ever   *)
(* names it: not while two registrations run at once, not after a `stop` took the route of an      *)
(* owner that still shows it.                                                                      *)
SessionsArePrivate ==
    \A c \in Conns : \A n \in SessionsOf(c) :
        /\ n \in 1..issued
        /\ \A d \in Conns : n \in SessionsOf(d) => d = c
        /\ SessionsOf(c) = {n}

(* A channel stored in owners belongs to a handler that owns that session: nothing that ended in   *)
(* order leaves one behind, although a `stop` may remove the entry before the registration it      *)
(* overtook has stored it (mod.rs:297-302, 76).                                                    *)
OwnersAreServed ==
    \A n \in Sessions : owners[n] # NoConn => handler[owners[n]].owned = n

(* A Notify in acknowledgements is that of a `stop` of the session which still waits for it, so    *)
(* none is left behind by a timeout, by an overwritten entry or by an owner that left on its own   *)
(* (mod.rs:77-79, 395-416).                                                                        *)
AcksHaveWaiters ==
    \A n \in Sessions : acks[n] # NoConn =>
        LET h == handler[acks[n]]
        IN /\ h.job.type = "stop" /\ h.target = n
           /\ h.pc \in {"stopLookup", "stopSend", "stopArm", "stopWait",
                        "rmRoutes", "rmOwner", "rmAck"}

(* An owner that shows a running forward has one, as long as the daemon is not shutting down, or a *)
(* `stop` of it has not finished, or Terminate is on its way (main.rs:230-284, mod.rs:401-416).    *)
(* With `stop` in play this fails: see StopRace.cfg.                                               *)
ForwardsAreReal ==
    \A c \in Conns :
        LET n == client[c].session
        IN Is(c, "forwarding") /\ Running /\ ~shuttingDown =>
              \/ HasRoute(n)
              \/ StopPending(n)
              \/ \E i \in DOMAIN link[c].outbox : link[c].outbox[i].type = "remoteStop"

(* While routes exist the idle clock runs only until the registration that just added one reaches  *)
(* mark_active (mod.rs:61-72, 303).  This fails: see IdleRace.cfg.                                 *)
IdleClockStops ==
    idle # "none" /\ ~IsEmpty(registry) =>
        \E c \in Conns : handler[c].pc \in {"regOwner", "regActive"}

(* Once `fw kill` has reported success no forward is left (cli.rs:59, mod.rs:425-468).  This       *)
(* fails: see KillRace.cfg.                                                                        *)
KillStopsForwards ==
    (\E k \in Conns : client[k].request = "kill" /\ Is(k, "succeeded")) => IsEmpty(registry)

------------------------------------------------------------------------------
(* Refinement. *)

Fwd == INSTANCE Forwards WITH
    forwards <- Routes(registry),
    waiting <- {handler[c].target : c \in {d \in Conns : handler[d].pc = "regRoute"}}

(* The daemon implements Forwards.tla: routes start only under a session of their own and a free   *)
(* slug and port, and end only with all of their session's, at a clear or with the process.        *)
ForwardsAreImplemented == Fwd!Spec

------------------------------------------------------------------------------
(* Liveness, under Spec. *)

(* Every request is answered or its connection ends, although a `stop` may miss its wake-up, its   *)
(* owner may be dead or gone, and the daemon may stop first (mod.rs:409-416).                      *)
RequestsAreAnswered ==
    \A c \in Conns : Is(c, "requested") ~> ~Is(c, "requested")

(* An accepted `kill` ends the process, although it sends to every owner first, through channels   *)
(* that statistics fill (mod.rs:442-466).  With a suspended owner it fails: see SuspendedOwner.cfg. *)
KillEndsDaemon == (\E c \in Conns : handler[c].pc = "killClear") ~> ~Running

(* When cloudflared exits the daemon follows, after the same kind of broadcast (mod.rs:158-201,    *)
(* 525-540).                                                                                       *)
CloudflaredExitEndsDaemon == cloudflared = "exited" ~> ~Running

(* A daemon without clients exits, however they left: by Unregister, by `stop`, killed at any      *)
(* point.  One leaked route or one lost start of the idle clock would keep it alive for good       *)
(* (mod.rs:61-81, 364-366, 507-523).                                                               *)
DaemonFollowsItsClients == <>[](\A c \in Conns : ~Open(c)) => <>~Running
=============================================================================
