------------------------------ MODULE RouteProofs ------------------------------
(***************************************************************************)
(* Every route has somebody who will remove it, for every number of        *)
(* connections, ports, slugs and sessions, as long as no frame is          *)
(* unreadable: an error other than a disconnect ends a handler without its *)
(* cleanup (mod.rs:244-251).  What a connection names is one session, and  *)
(* no other connection's.  And where nobody uses `stop`, an owner that     *)
(* shows a running forward has its route until the daemon shuts down.      *)
(***************************************************************************)
EXTENDS SessionProofs

------------------------------------------------------------------------------
(* The inductive invariant: what one connection looks like. *)

RequestTypes == {"register", "stop", "list", "kill"}
SessionTypes == {"unregister", "terminateAcknowledged"}
KillLabels == {"killClear", "killSnapshot", "killSend"}

(* The request of the process has not been read. *)
Unread(c) == \E m \in Box(link[c].inbox) : m.type \in RequestTypes

(* A registration is under way: it has its route, and its answer has not been sent. *)
Unanswered(c) ==
    \/ handler[c].pc \in {"regOwner", "regActive"}
    \/ handler[c].pc = "reply" /\ handler[c].reply.type = "registered"

(* The process has been told of no session and has named none. *)
Untold(c) ==
    /\ client[c].session = NoSession
    /\ \A m \in Box(link[c].outbox) : m.type # "registered"
    /\ \A m \in Box(link[c].inbox) : m.type \notin SessionTypes

(* Nothing has been sent on the connection. *)
Silent(c) == link[c].outbox = <<>> /\ link[c].writer

Fresh(c) ==
    client[c].state = "new" =>
        /\ link[c].inbox = <<>> /\ Silent(c) /\ Untold(c)
        /\ stats[c] = NoSlug /\ handler[c].owned = NoSession

BeforeRequest(c) ==
    Unread(c) =>
        /\ handler[c].pc \in {"backlog", "reading", "gone", "failed"} /\ handler[c].owned = NoSession
        /\ Tail(link[c].inbox) = <<>>
        /\ Silent(c) /\ Untold(c) /\ stats[c] = NoSlug

BeforeAnswer(c) ==
    /\ handler[c].pc = "regRoute" => Silent(c)
    /\ handler[c].pc = "regRoute" \/ Unanswered(c) => Untold(c) /\ stats[c] = NoSlug

(* Whoever names a session on the connection names the one its handler owns. *)
NamesOwn(c) ==
    /\ client[c].session = NoSession \/ handler[c].owned \in {NoSession, client[c].session}
    /\ \A m \in Box(link[c].outbox) :
           m.type = "registered" => handler[c].owned \in {NoSession, m.session}
    /\ \A m \in Box(link[c].inbox) :
           m.type \in SessionTypes => handler[c].owned \in {NoSession, m.session}

(* Only Registered and Unregistered are sent by a handler that owns a session. *)
AnswersOwn(h) ==
    /\ h.pc = "reply" =>
          h.owned \in {NoSession} \cup
                      (IF h.reply.type \in {"registered", "unregistered"} THEN {h.reply.session} ELSE {})
    /\ h.job.type = "stop" =>
          /\ h.owned = NoSession
          /\ h.pc \in StopLabels \cup {"rmRoutes", "reply"} \cup Cleared
    /\ h.pc \in StopLabels \cup KillLabels => h.owned = NoSession

ConnectionOK(c) ==
    Fresh(c) /\ BeforeRequest(c) /\ BeforeAnswer(c) /\ NamesOwn(c) /\ AnswersOwn(handler[c])

------------------------------------------------------------------------------
(* The inductive invariant: routes and the Terminates on their way. *)

(* A connection that will never register again. *)
Begun(c) == client[c].state # "new" /\ ~Unread(c) /\ handler[c].pc # "regRoute"

StoredHaveBegun == \A n \in Sessions : owners[n] # NoConn => Begun(owners[n])

QueuedHaveBegun ==
    /\ \A d \in Conns : handler[d].pc \in {"stopSend", "killSend"} =>
           \A e \in Box(handler[d].queue) : Begun(e)
    /\ main.pc = "fatalSend" => \A e \in Box(main.queue) : Begun(e)

StopsReachOwners ==
    \A d \in Conns : handler[d].pc = "stopSend" =>
        \A e \in Box(handler[d].queue) : handler[e].owned \in {NoSession, handler[d].target}

ShutdownIsKnown ==
    /\ \A c \in Conns : handler[c].pc \in KillLabels => shuttingDown
    /\ main.pc \in {"fatalSnapshot", "fatalSend", "fatalClear"} => shuttingDown

(* Nothing but a `stop` or a shutdown speaks to an owner whose registration is unanswered. *)
WarnedBeforeAnswer ==
    \A c \in Conns : Unanswered(c) /\ ~Silent(c) =>
        \/ shuttingDown
        \/ handler[c].owned \notin RouteSessions
        \/ StopPending(handler[c].owned)

KeptInv ==
    /\ \A c \in Conns : ConnectionOK(c)
    /\ StoredHaveBegun /\ QueuedHaveBegun /\ StopsReachOwners /\ ShutdownIsKnown
    /\ WarnedBeforeAnswer
    /\ "readError" \notin Events => RoutesAreKept

------------------------------------------------------------------------------
(* What a step can do to a connection, as long as the process does not end. *)

Warned(n) == shuttingDown \/ StopPending(n)

Pending(h, n) == h.job.type = "stop" /\ h.target = n /\ h.pc # "reply"

(* An owner stays, unless its routes are gone or its answer cannot be sent any more. *)
KeepStep(d) ==
    handler[d].owned # NoSession /\ Serving(d) =>
        \/ handler'[d].owned = handler[d].owned /\ Serving(d)'
        \/ handler[d].owned \notin RouteSessions
        \/ Warned(handler[d].owned)
        \/ "readError" \in Events

(* A `stop` ends when the routes of its session are gone. *)
StopStep(d) ==
    \A n \in Sessions : Pending(handler[d], n) => Pending(handler'[d], n) \/ n \notin RouteSessions

WarnStep(d) ==
    Unanswered(d)' /\ ~Silent(d)' =>
        /\ Unanswered(d)
        /\ handler'[d].owned = handler[d].owned
        /\ ~Silent(d) \/ Warned(handler[d].owned) \/ handler[d].owned = NoSession

(* The channels a Terminate goes to are those that were stored. *)
QueueStep(d) ==
    /\ handler'[d].pc = "stopSend" =>
          /\ handler'[d].target = handler[d].target
          /\ \A e \in Box(handler'[d].queue) :
                \/ handler[d].pc = "stopSend" /\ e \in Box(handler[d].queue)
                \/ e \in Conns /\ handler[d].target \in Sessions /\ e = owners[handler[d].target]
    /\ handler'[d].pc = "killSend" =>
          \A e \in Box(handler'[d].queue) :
                \/ handler[d].pc = "killSend" /\ e \in Box(handler[d].queue)
                \/ e \in Conns /\ \E n \in Sessions : e = owners[n]

Keeps(d) ==
    /\ ConnectionOK(d)'
    /\ Begun(d) => Begun(d)'
    /\ KeepStep(d) /\ StopStep(d) /\ WarnStep(d) /\ QueueStep(d)
    /\ handler'[d].pc \in KillLabels => shuttingDown'

MainKeeps ==
    /\ shuttingDown => shuttingDown'
    /\ main'.pc \in {"fatalSnapshot", "fatalSend", "fatalClear"} => shuttingDown'
    /\ main'.pc = "fatalSend" =>
          \A e \in Box(main'.queue) :
                \/ main.pc = "fatalSend" /\ e \in Box(main.queue)
                \/ e \in Conns /\ \E n \in Sessions : e = owners[n]

KeptStep == MainKeeps /\ \A d \in Conns : Keeps(d)

------------------------------------------------------------------------------
(* Steps like these keep the invariant. *)

(* No route is without a session. *)
LEMMA NoSessionNoRoute ==
    ASSUME IInv'
    PROVE  NoSession \notin RouteSessions'
<1>1. registry' \in Registry
  BY DEF IInv, Typed, SystemTypeOK, TypeOK
<1>2. \A s \in Slugs : registry'.bySlug[s] # NoRoute => registry'.bySlug[s].session \in Sessions
  BY <1>1 DEF Registry, Route
<1> QED BY <1>2 DEF RouteSessions, Sessions, NoSession

(* A `stop` of a session is under way if some handler is at it, before and after a step. *)
LEMMA PendingIs ==
    ASSUME NEW n
    PROVE  /\ StopPending(n) <=> \E d \in Conns : Pending(handler[d], n)
           /\ StopPending(n)' <=> \E d \in Conns : Pending(handler'[d], n)
BY DEF StopPending, Pending

(* Routes appear only for a registration, which then owns its session. *)
LEMMA NewRoutesAreOwned ==
    ASSUME IInv, IInv', SessionInv, SessionStep, NEW n \in RouteSessions', n \notin RouteSessions
    PROVE  \E c \in Conns : /\ handler[c].pc = "regRoute" /\ handler[c].target = n
                            /\ handler'[c].pc = "regOwner" /\ handler'[c].owned = n
<1>1. PICK c \in Conns : /\ handler[c].pc = "regRoute" /\ handler[c].target = n
                         /\ handler'[c].pc = "regOwner"
  BY DEF SessionStep, RoutesStep
<1>2. OwnedStep(c) /\ Fits(handler[c]) /\ Fits(handler'[c])
  BY DEF SessionStep, Moves, SessionInv
<1>3. handler'[c].target \in Sessions /\ NoSession \notin Sessions
  BY <1>1, SessionFacts DEF IInv, Typed, TargetsAreSessions, SessionLabels
<1>4. handler'[c].owned = handler'[c].target /\ handler[c].owned = NoSession
  BY <1>1, <1>2 DEF Fits
<1>5. handler'[c].owned = n
  BY <1>1, <1>2, <1>3, <1>4 DEF OwnedStep, Clean
<1> QED BY <1>1, <1>5

(* What is known about a session that is owned stays known while it is. *)
LEMMA RoutelessStaysSo ==
    ASSUME IInv, IInv', SessionInv, SessionStep, NEW d \in Conns,
           handler[d].pc # "regRoute", handler[d].owned # NoSession,
           handler[d].owned \notin RouteSessions
    PROVE  handler[d].owned \notin RouteSessions'
<1> SUFFICES ASSUME handler[d].owned \in RouteSessions' PROVE FALSE
  OBVIOUS
<1>1. PICK c \in Conns : handler[c].pc = "regRoute" /\ handler[c].target = handler[d].owned
  BY NewRoutesAreOwned
<1> QED BY <1>1 DEF SessionInv, NewSessionsAreFresh

(* Once a session has been warned somebody sees to it until its route is gone. *)
LEMMA WarnedStays ==
    ASSUME KeptStep, NEW n \in Sessions, Warned(n)
    PROVE  Warned(n)' \/ n \notin RouteSessions
<1>1. CASE shuttingDown
  BY <1>1 DEF KeptStep, MainKeeps, Warned
<1>2. ASSUME NEW d \in Conns, Pending(handler[d], n)
      PROVE  Warned(n)' \/ n \notin RouteSessions
  BY <1>2, PendingIs DEF KeptStep, Keeps, StopStep, Warned
<1> QED BY <1>1, <1>2, PendingIs DEF Warned

(* A kept step keeps the invariant: only the moving connection has to be looked at. *)
LEMMA KeptStepKeeps ==
    ASSUME IInv, IInv', SessionInv, SessionStep, KeptInv, KeptStep,
           owners \in [Sessions -> Conns \cup {NoConn}]
    PROVE  KeptInv'
<1>1. \A c \in Conns : ConnectionOK(c)' /\ (Begun(c) => Begun(c)')
  BY DEF KeptStep, Keeps
<1>2. StoredHaveBegun'
  <2> SUFFICES ASSUME NEW n \in Sessions, NEW d \in Conns, owners'[n] = d PROVE Begun(d)'
    <3>1. owners' \in [Sessions -> Conns \cup {NoConn}]
      BY DEF IInv, Typed, SystemTypeOK, TypeOK
    <3> QED BY <3>1 DEF StoredHaveBegun, Begun, Unread
  <2>1. CASE owners[n] = d
    BY <1>1, <2>1, ConnAssumption DEF KeptInv, StoredHaveBegun
  <2>2. CASE handler[d].pc = "regOwner"
    <3>1. Begun(d)
      BY <2>2 DEF Begun, KeptInv, ConnectionOK, BeforeRequest, IInv, NewAreAbsent, Absent
    <3> QED BY <1>1, <3>1
  <2> QED BY <2>1, <2>2, ConnAssumption DEF SessionStep, OwnersStep
<1>3. \A n \in Sessions : owners[n] \in Conns => Begun(owners[n])
  BY ConnAssumption DEF KeptInv, StoredHaveBegun
<1>4. /\ \A d \in Conns : Box(handler[d].queue) \subseteq Conns /\ Box(handler'[d].queue) \subseteq Conns
      /\ Box(main.queue) \subseteq Conns
  BY DEF IInv, Typed, SystemTypeOK, TypeOK, Handler, Box
<1>5. QueuedHaveBegun'
  <2>1. ASSUME NEW d \in Conns, handler'[d].pc \in {"stopSend", "killSend"},
               NEW e \in Box(handler'[d].queue)
        PROVE  Begun(e)'
    <3>1. QueueStep(d)
      BY DEF KeptStep, Keeps
    <3>2. ASSUME handler[d].pc \in {"stopSend", "killSend"}, e \in Box(handler[d].queue)
          PROVE  Begun(e)'
      BY <1>1, <1>4, <3>2 DEF KeptInv, QueuedHaveBegun
    <3>3. ASSUME e \in Conns, NEW n \in Sessions, e = owners[n]
          PROVE  Begun(e)'
      BY <1>1, <1>3, <3>3
    <3> QED BY <2>1, <3>1, <3>2, <3>3 DEF QueueStep
  <2>2. ASSUME main'.pc = "fatalSend", NEW e \in Box(main'.queue)
        PROVE  Begun(e)'
    <3>1. ASSUME main.pc = "fatalSend", e \in Box(main.queue)
          PROVE  Begun(e)'
      BY <1>1, <1>4, <3>1 DEF KeptInv, QueuedHaveBegun
    <3>2. ASSUME e \in Conns, NEW n \in Sessions, e = owners[n]
          PROVE  Begun(e)'
      BY <1>1, <1>3, <3>2
    <3> QED BY <2>2, <3>1, <3>2 DEF KeptStep, MainKeeps
  <2> QED BY <2>1, <2>2 DEF QueuedHaveBegun
<1>6. StopsReachOwners'
  <2> SUFFICES ASSUME NEW d \in Conns, handler'[d].pc = "stopSend", NEW e \in Box(handler'[d].queue)
               PROVE  handler'[e].owned \in {NoSession, handler'[d].target}
    BY DEF StopsReachOwners
  <2>1. QueueStep(d) /\ e \in Conns /\ OwnedStep(e)
    BY <1>4 DEF KeptStep, Keeps, SessionStep, Moves
  <2>2. CASE handler[d].pc = "stopSend" /\ e \in Box(handler[d].queue)
    <3>1. handler[e].owned \in {NoSession, handler[d].target} /\ handler[e].pc # "regRoute"
      BY <2>2 DEF KeptInv, StopsReachOwners, QueuedHaveBegun, Begun
    <3> QED BY <2>1, <3>1 DEF OwnedStep, QueueStep
  <2>3. CASE handler[d].target \in Sessions /\ e = owners[handler[d].target]
    <3>1. handler[e].owned = handler[d].target /\ handler[e].pc # "regRoute"
      BY <1>3, <2>1, <2>3, ConnAssumption DEF SessionInv, OwnersAreServed, Begun
    <3> QED BY <2>1, <3>1 DEF OwnedStep, QueueStep
  <2> QED BY <2>1, <2>2, <2>3 DEF QueueStep
<1>7. ShutdownIsKnown'
  BY DEF KeptStep, Keeps, MainKeeps, ShutdownIsKnown
<1>8. WarnedBeforeAnswer'
  <2> SUFFICES ASSUME NEW c \in Conns, NEW n, n = handler'[c].owned, Unanswered(c)', ~Silent(c)'
               PROVE  Warned(n)' \/ n \notin RouteSessions'
    BY DEF WarnedBeforeAnswer, Warned, StopPending
  <2>1. WarnStep(c) /\ ConnectionOK(c)
    BY DEF KeptStep, Keeps, KeptInv
  <2>2. /\ Unanswered(c) /\ handler[c].owned = n
        /\ Warned(n) \/ n \notin RouteSessions \/ n = NoSession
    BY <2>1 DEF WarnStep, KeptInv, WarnedBeforeAnswer, Warned
  <2>3. handler[c].pc # "regRoute"
    BY <2>2 DEF Unanswered
  <2>4. CASE n = NoSession
    BY <2>4, NoSessionNoRoute
  <2>5. CASE n # NoSession /\ n \notin RouteSessions
    BY <2>2, <2>3, <2>5, RoutelessStaysSo
  <2>6. CASE n # NoSession /\ Warned(n) /\ n \in RouteSessions
    <3>1. n \in Sessions
      BY <2>2, <2>6, SessionFacts
    <3>2. Warned(n)'
      BY <2>6, <3>1, WarnedStays
    <3> QED BY <3>2
  <2> QED BY <2>2, <2>4, <2>5, <2>6
<1>9. ASSUME "readError" \notin Events PROVE RoutesAreKept'
  <2> SUFFICES ASSUME NEW n \in Sessions, n \in RouteSessions'
               PROVE  (\E c \in Conns : handler'[c].owned = n /\ Serving(c)') \/ Warned(n)'
    BY HasRouteIs DEF RoutesAreKept, Warned
  <2>1. CASE n \notin RouteSessions
    <3>1. PICK c \in Conns : handler'[c].pc = "regOwner" /\ handler'[c].owned = n
      BY <2>1, NewRoutesAreOwned
    <3> QED BY <3>1 DEF Serving
  <2>2. CASE n \in RouteSessions
    <3>1. \/ \E c \in Conns : handler[c].owned = n /\ Serving(c)
          \/ Warned(n)
      BY <1>9, <2>2, HasRouteIs DEF KeptInv, RoutesAreKept, Warned
    <3>2. ASSUME NEW c \in Conns, handler[c].owned = n, Serving(c)
          PROVE  (handler'[c].owned = n /\ Serving(c)') \/ Warned(n)
      <4>1. KeepStep(c) /\ n # NoSession
        BY SessionFacts DEF KeptStep, Keeps
      <4> QED BY <1>9, <2>2, <3>2, <4>1 DEF KeepStep
    <3>3. Warned(n) => Warned(n)'
      BY <2>2, WarnedStays
    <3> QED BY <3>1, <3>2, <3>3
  <2> QED BY <2>1, <2>2
<1> QED BY <1>1, <1>2, <1>5, <1>6, <1>7, <1>8, <1>9 DEF KeptInv

------------------------------------------------------------------------------
(* What happens to one connection in a step. *)

(* Nothing. *)
LEMMA SameKeeps ==
    ASSUME KeptInv, NEW d \in Conns, shuttingDown => shuttingDown',
           handler'[d] = handler[d], link'[d] = link[d], client'[d] = client[d],
           stats'[d] = stats[d]
    PROVE  Keeps(d)
<1>1. ConnectionOK(d) /\ (Unread(d)' <=> Unread(d)) /\ (Silent(d)' <=> Silent(d))
  BY DEF KeptInv, Unread, Silent
<1>2. ConnectionOK(d)'
  BY <1>1 DEF ConnectionOK, Fresh, BeforeRequest, BeforeAnswer, NamesOwn, AnswersOwn, Untold,
              Unread, Silent, Unanswered
<1>3. Begun(d) => Begun(d)'
  BY <1>1 DEF Begun
<1>4. KeepStep(d) /\ StopStep(d) /\ WarnStep(d)
  BY <1>1 DEF KeepStep, StopStep, WarnStep, Serving, Unanswered
<1>5. QueueStep(d)
  BY DEF QueueStep
<1>6. handler'[d].pc \in KillLabels => shuttingDown'
  BY DEF KeptInv, ShutdownIsKnown
<1> QED BY <1>2, <1>3, <1>4, <1>5, <1>6 DEF Keeps

(* Some task sends a message to its channel. *)
LEMMA ToldKeeps ==
    ASSUME KeptInv, NEW d \in Conns, shuttingDown => shuttingDown',
           KeepsJob(d), handler'[d].pc = handler[d].pc, handler'[d].reply = handler[d].reply,
           Box(handler'[d].queue) \subseteq Box(handler[d].queue),
           client'[d] = client[d], stats'[d] = stats[d],
           link'[d].inbox = link[d].inbox, link'[d].writer = link[d].writer,
           NEW m, m.type # "registered", Box(link'[d].outbox) \subseteq Box(link[d].outbox) \cup {m},
           Begun(d), Unanswered(d) => Warned(handler[d].owned) \/ handler[d].owned = NoSession
    PROVE  Keeps(d)
<1>1. ConnectionOK(d) /\ (Unread(d)' <=> Unread(d)) /\ Begun(d)'
  BY DEF KeptInv, Unread, Begun
<1>2. Untold(d) => Untold(d)'
  BY DEF Untold
<1>3. NamesOwn(d)'
  BY <1>1 DEF ConnectionOK, NamesOwn, KeepsJob
<1>4. BeforeAnswer(d)'
  BY <1>1, <1>2 DEF ConnectionOK, BeforeAnswer, Unanswered, Begun
<1>5. ConnectionOK(d)'
  BY <1>1, <1>3, <1>4 DEF ConnectionOK, Fresh, BeforeRequest, AnswersOwn, Begun, KeepsJob
<1>6. KeepStep(d) /\ StopStep(d) /\ WarnStep(d)
  BY DEF KeepStep, StopStep, WarnStep, Serving, Unanswered, KeepsJob, Pending
<1>7. QueueStep(d)
  BY DEF QueueStep, KeepsJob
<1>8. handler'[d].pc \in KillLabels => shuttingDown'
  BY DEF KeptInv, ShutdownIsKnown
<1> QED BY <1>1, <1>5, <1>6, <1>7, <1>8 DEF Keeps

(* Its own handler moves and sends nothing. *)
LEMMA MovedKeeps ==
    ASSUME KeptInv, NEW c \in Conns, client'[c] = client[c], stats'[c] = stats[c],
           link'[c].outbox = link[c].outbox, link'[c].writer = link[c].writer,
           Box(link'[c].inbox) \subseteq Box(link[c].inbox),
           client[c].state # "new", ~Unread(c)',
           handler'[c].owned \in {handler[c].owned, NoSession},
           handler'[c].pc = "regRoute" => Unread(c),
           Unanswered(c)' => Unanswered(c) /\ handler'[c].owned = handler[c].owned,
           AnswersOwn(handler'[c]),
           KeepStep(c), StopStep(c), QueueStep(c), handler'[c].pc \in KillLabels => shuttingDown'
    PROVE  Keeps(c)
<1>1. ConnectionOK(c) /\ (Silent(c)' <=> Silent(c))
  BY DEF KeptInv, Silent
<1>2. Untold(c) => Untold(c)'
  BY DEF Untold
<1>3. NamesOwn(c)'
  BY <1>1 DEF ConnectionOK, NamesOwn
<1>4. BeforeAnswer(c)'
  BY <1>1, <1>2 DEF ConnectionOK, BeforeAnswer, BeforeRequest
<1>5. ConnectionOK(c)'
  BY <1>3, <1>4 DEF ConnectionOK, Fresh, BeforeRequest
<1>6. Begun(c) => Begun(c)'
  BY DEF Begun
<1>7. WarnStep(c)
  BY <1>1 DEF WarnStep
<1> QED BY <1>5, <1>6, <1>7 DEF Keeps

Busy(c) == handler[c].pc \notin {"absent", "gone", "backlog", "reading", "failed"}

(* While a handler is busy its client has connected and its request has been read. *)
LEMMA BusyFacts ==
    ASSUME IInv, KeptInv, NEW c \in Conns, Busy(c)
    PROVE  client[c].state # "new" /\ ~Unread(c)
BY DEF Busy, IInv, NewAreAbsent, Absent, KeptInv, ConnectionOK, BeforeRequest

(* A handler goes on with its job. *)
LEMMA JobKeeps ==
    ASSUME IInv, KeptInv, NEW c \in Conns, UNCHANGED <<link, client, stats>>,
           Busy(c), KeepsJob(c),
           handler'[c].pc \notin {"reply", "regRoute", "failed", "done", "gone",
                                  "stopSend", "killSend"},
           handler'[c].pc \in KillLabels => handler[c].pc \in KillLabels /\ (shuttingDown => shuttingDown'),
           handler'[c].pc \in {"regOwner", "regActive"} => handler[c].pc = "regOwner",
           AnswersOwn(handler'[c])
    PROVE  Keeps(c)
<1>1. client[c].state # "new" /\ ~Unread(c)'
  BY BusyFacts DEF Unread
<1>2. KeepStep(c) /\ StopStep(c) /\ QueueStep(c)
  BY DEF KeepStep, StopStep, QueueStep, KeepsJob, Serving, Pending
<1>3. Unanswered(c)' => Unanswered(c)
  BY DEF Unanswered
<1>4. handler'[c].pc \in KillLabels => shuttingDown'
  BY DEF KeptInv, ShutdownIsKnown
<1> QED BY <1>1, <1>2, <1>3, <1>4, MovedKeeps DEF KeepsJob

(* A handler has its answer. *)
LEMMA ReplyKeeps ==
    ASSUME IInv, KeptInv, NEW c \in Conns, UNCHANGED <<client, stats>>,
           link'[c].outbox = link[c].outbox, link'[c].writer = link[c].writer,
           Box(link'[c].inbox) \subseteq Box(link[c].inbox),
           client[c].state # "new", ~Unread(c)',
           KeepsJob(c), handler'[c].pc = "reply",
           handler'[c].reply.type = "registered" => Unanswered(c),
           \A n \in Sessions : Pending(handler[c], n) => n \notin RouteSessions,
           AnswersOwn(handler'[c])
    PROVE  Keeps(c)
<1>1. KeepStep(c) /\ StopStep(c) /\ QueueStep(c)
  BY DEF KeepStep, StopStep, QueueStep, KeepsJob, Serving
<1>2. Unanswered(c)' => Unanswered(c)
  BY DEF Unanswered
<1>3. handler'[c].pc \notin KillLabels \cup {"regRoute"}
  BY DEF KillLabels
<1> QED BY <1>1, <1>2, <1>3, MovedKeeps DEF KeepsJob

(* The main loop goes on, and nobody takes back a shutdown. *)
LEMMA MainStays ==
    ASSUME KeptInv, UNCHANGED main, shuttingDown => shuttingDown'
    PROVE  MainKeeps
BY DEF MainKeeps, KeptInv, ShutdownIsKnown

(* Only one connection has something to do with the step. *)
LEMMA OneKeeps ==
    ASSUME KeptInv, NEW c \in Conns, OnlyHandler(c), OnlyLink(c), UNCHANGED main,
           shuttingDown => shuttingDown',
           \A d \in Conns \ {c} : client'[d] = client[d] /\ stats'[d] = stats[d],
           Keeps(c)
    PROVE  KeptStep
<1>1. ASSUME NEW d \in Conns \ {c} PROVE Keeps(d)
  BY SameKeeps DEF OnlyHandler, OnlyLink
<1> QED BY <1>1, MainStays DEF KeptStep

(* Where no channel changes, none but that of the moving connection does. *)
LEMMA SameLinkOnly == UNCHANGED link => \A c \in Conns : OnlyLink(c)
BY DEF OnlyLink

(* What is known when a request, or a message about a session, is read. *)
LEMMA ReadFacts ==
    ASSUME IInv, KeptInv, NEW c \in Conns, NEW types, Receive(c, types)
    PROVE  /\ OnlyLink(c) /\ handler[c].pc = "reading" /\ client[c].state # "new"
           /\ link'[c].outbox = link[c].outbox /\ link'[c].writer = link[c].writer
           /\ Box(link'[c].inbox) \subseteq Box(link[c].inbox)
           /\ Head(link[c].inbox).type \in types
           /\ \A n : ~Pending(handler[c], n)
           /\ types \subseteq RequestTypes =>
                 /\ handler[c].owned = NoSession
                 /\ Unread(c) /\ ~Unread(c)'
           /\ types \subseteq SessionTypes =>
                 /\ handler[c].owned \in {NoSession, Head(link[c].inbox).session}
                 /\ ~Unread(c)'
<1>1. /\ handler \in [Conns -> Handler] /\ link \in [Conns -> Link] /\ ConnectionOK(c)
  BY DEF IInv, Typed, SystemTypeOK, TypeOK, KeptInv
<1>2. /\ OnlyLink(c) /\ handler[c].pc = "reading"
      /\ link[c].inbox # <<>> /\ Head(link[c].inbox) \in Box(link[c].inbox)
      /\ Head(link[c].inbox).type \in types
      /\ link'[c].inbox = Tail(link[c].inbox)
      /\ Box(link'[c].inbox) \subseteq Box(link[c].inbox)
      /\ link'[c].outbox = link[c].outbox /\ link'[c].writer = link[c].writer
  BY <1>1, ReceiveEffect
<1>3. client[c].state # "new" /\ \A n : ~Pending(handler[c], n)
  BY <1>1, <1>2 DEF ConnectionOK, Fresh, AnswersOwn, Pending, StopLabels, Cleared
<1>4. ASSUME types \subseteq RequestTypes
      PROVE  handler[c].owned = NoSession /\ Unread(c) /\ ~Unread(c)'
  <2>1. Unread(c)
    BY <1>2, <1>4 DEF Unread
  <2>2. handler[c].owned = NoSession /\ link'[c].inbox = <<>>
    BY <1>1, <1>2, <2>1 DEF ConnectionOK, BeforeRequest
  <2>3. ~Unread(c)'
    BY <2>2 DEF Unread, Box
  <2> QED BY <2>1, <2>2, <2>3
<1>5. ASSUME types \subseteq SessionTypes
      PROVE  handler[c].owned \in {NoSession, Head(link[c].inbox).session} /\ ~Unread(c)'
  <2>1. ~Unread(c)
    BY <1>1, <1>2, <1>5 DEF ConnectionOK, BeforeRequest, Untold
  <2>2. ~Unread(c)'
    BY <1>2, <2>1 DEF Unread
  <2>3. handler[c].owned \in {NoSession, Head(link[c].inbox).session}
    BY <1>1, <1>2, <1>5 DEF ConnectionOK, NamesOwn
  <2> QED BY <2>2, <2>3
<1> QED BY <1>2, <1>3, <1>4, <1>5

(* An answer that is neither Registered nor Unregistered goes to a process without a session. *)
LEMMA AnswerOnReading ==
    ASSUME IInv, KeptInv, NEW c \in Conns, NEW types, Receive(c, types),
           UNCHANGED <<client, stats, main>>, shuttingDown => shuttingDown',
           NEW m, GotoReply(c, m), m.type # "registered",
           handler[c].owned = NoSession, ~Unread(c)'
    PROVE  KeptStep
<1>1. /\ OnlyLink(c) /\ handler[c].pc = "reading" /\ client[c].state # "new"
      /\ link'[c].outbox = link[c].outbox /\ link'[c].writer = link[c].writer
      /\ Box(link'[c].inbox) \subseteq Box(link[c].inbox)
      /\ \A n : ~Pending(handler[c], n)
  BY ReadFacts
<1>2. /\ OnlyHandler(c) /\ KeepsJob(c)
      /\ handler'[c].pc = "reply" /\ handler'[c].reply = m
  BY ReplyEffect DEF IInv, Typed, SystemTypeOK, TypeOK
<1>3. AnswersOwn(handler'[c])
  BY <1>2 DEF AnswersOwn, KeepsJob, StopLabels, KillLabels
<1>4. Keeps(c)
  BY <1>1, <1>2, <1>3, ReplyKeeps
<1> QED BY <1>1, <1>2, <1>4, OneKeeps

------------------------------------------------------------------------------
(* Every step but the end of the process is one of these. *)

(* Accepting a connection and every step of a registration. *)
LEMMA RegisterKept ==
    ASSUME IInv, SessionInv, KeptInv, UNCHANGED client, NEW c \in Conns,
           \/ Accept(c) \/ ReadRegister(c) \/ RegisterRoute(c) \/ RegisterOwner(c)
           \/ RegisterActive(c)
    PROVE  KeptStep
<1>0. /\ handler \in [Conns -> Handler] /\ link \in [Conns -> Link]
      /\ handler[c].pc \in SessionLabels => handler[c].target \in Sessions
      /\ Fits(handler[c]) /\ ConnectionOK(c)
  BY DEF IInv, Typed, SystemTypeOK, TypeOK, TargetsAreSessions, SessionInv, KeptInv
<1>1. CASE Accept(c)
  <2>1. /\ Goto(c, "reading") /\ handler[c].pc = "backlog"
        /\ UNCHANGED <<shuttingDown, stats, main, link>>
    BY <1>1 DEF Accept, At, sharedVars, taskVars
  <2>2. /\ OnlyHandler(c) /\ KeepsJob(c) /\ handler'[c].pc = "reading"
        /\ handler'[c].queue = handler[c].queue
    BY <1>0, <2>1, GotoEffect
  <2>3. client[c].state # "new" /\ handler[c].owned = NoSession
    BY <1>0, <2>1 DEF IInv, NewAreAbsent, Absent, Fits
  <2>4. ConnectionOK(c)'
    BY <1>0, <2>1, <2>2, <2>3
       DEF ConnectionOK, Fresh, BeforeRequest, BeforeAnswer, NamesOwn, AnswersOwn, Untold, Unread,
           Silent, Unanswered, KeepsJob, StopLabels, KillLabels, Cleared
  <2>5. Begun(c) => Begun(c)'
    BY <2>1, <2>2 DEF Begun, Unread
  <2>6. KeepStep(c) /\ StopStep(c) /\ WarnStep(c) /\ QueueStep(c)
    BY <2>1, <2>2, <2>3
       DEF KeepStep, StopStep, WarnStep, QueueStep, Pending, Unanswered, KeepsJob
  <2>7. Keeps(c)
    BY <2>2, <2>4, <2>5, <2>6 DEF Keeps, KillLabels
  <2> QED BY <2>1, <2>2, <2>7, OneKeeps, SameLinkOnly
<1>2. CASE ReadRegister(c)
  <2>1. Receive(c, {"register"}) /\ UNCHANGED <<shuttingDown, stats, main>>
    BY <1>2 DEF ReadRegister, taskVars
  <2>2. /\ OnlyLink(c) /\ handler[c].pc = "reading" /\ client[c].state # "new"
        /\ link'[c].outbox = link[c].outbox /\ link'[c].writer = link[c].writer
        /\ Box(link'[c].inbox) \subseteq Box(link[c].inbox)
        /\ Head(link[c].inbox).type = "register"
        /\ \A n : ~Pending(handler[c], n)
        /\ handler[c].owned = NoSession /\ Unread(c) /\ ~Unread(c)'
    BY <2>1, ReadFacts DEF RequestTypes
  <2>3. CASE Refuse(c)
    BY <2>1, <2>2, <2>3, RefuseIsReply, PlainFacts, AnswerOnReading
  <2>4. CASE Begin(c, "regRoute", issued + 1)
    <3>1. /\ OnlyHandler(c)
          /\ handler'[c].pc = "regRoute" /\ handler'[c].job = Head(link[c].inbox)
          /\ handler'[c].owned = NoSession
      BY <1>0, <2>2, <2>4, BeginEffect
    <3>2. AnswersOwn(handler'[c])
      BY <2>2, <3>1 DEF AnswersOwn, StopLabels, KillLabels
    <3>3. KeepStep(c) /\ StopStep(c) /\ QueueStep(c)
      BY <2>2, <3>1 DEF KeepStep, StopStep, QueueStep
    <3>4. Keeps(c)
      BY <2>1, <2>2, <3>1, <3>2, <3>3, MovedKeeps DEF Unanswered, KillLabels
    <3> QED BY <2>1, <2>2, <3>1, <3>4, OneKeeps
  <2> QED BY <1>2, <2>3, <2>4 DEF ReadRegister
<1>3. CASE RegisterRoute(c)
  <2>1. /\ handler[c].pc = "regRoute" /\ handler[c].target \in Sessions
        /\ UNCHANGED <<shuttingDown, stats, main, link>>
    BY <1>0, <1>3 DEF RegisterRoute, At, SessionLabels, taskVars
  <2>2. /\ handler[c].owned = NoSession /\ client[c].state # "new" /\ ~Unread(c)
        /\ Silent(c) /\ Untold(c) /\ stats[c] = NoSlug /\ handler[c].job.type # "stop"
    BY <1>0, <2>1, BusyFacts
       DEF Busy, Fits, ConnectionOK, BeforeAnswer, AnswersOwn, StopLabels, Cleared
  <2>3. CASE GotoReply(c, Plain("error"))
    <3>1. /\ OnlyHandler(c) /\ KeepsJob(c)
          /\ handler'[c].pc = "reply" /\ handler'[c].reply = Plain("error")
      BY <1>0, <2>3, ReplyEffect
    <3>2. AnswersOwn(handler'[c])
      BY <2>2, <3>1 DEF AnswersOwn, KeepsJob, StopLabels, KillLabels
    <3>3. Keeps(c)
      BY <2>1, <2>2, <3>1, <3>2, ReplyKeeps, PlainFacts DEF Unread, Pending
    <3> QED BY <2>1, <3>1, <3>3, OneKeeps, SameLinkOnly
  <2>4. ASSUME NEW m \in RegisterMessage, NEW slug \in SlugChoices(registry, m.port, m.slug),
               handler' = [handler EXCEPT ![c].pc = "regOwner", ![c].slug = slug,
                                          ![c].owned = handler[c].target]
        PROVE  KeptStep
    <3>1. /\ OnlyHandler(c)
          /\ handler'[c].pc = "regOwner" /\ handler'[c].owned = handler[c].target
          /\ handler'[c].job = handler[c].job
      BY <1>0, <2>4 DEF OnlyHandler, Handler
    <3>2. Unread(c)' = Unread(c) /\ Silent(c)' /\ Untold(c)'
      BY <2>1, <2>2 DEF Unread, Silent, Untold
    <3>3. NamesOwn(c)'
      BY <3>2 DEF NamesOwn, Untold
    <3>4. AnswersOwn(handler'[c])
      BY <2>2, <3>1 DEF AnswersOwn, StopLabels, KillLabels
    <3>5. ConnectionOK(c)'
      BY <2>1, <2>2, <3>1, <3>2, <3>3, <3>4
         DEF ConnectionOK, Fresh, BeforeRequest, BeforeAnswer
    <3>6. KeepStep(c) /\ StopStep(c) /\ WarnStep(c) /\ QueueStep(c)
      BY <2>2, <3>1, <3>2 DEF KeepStep, StopStep, WarnStep, QueueStep, Pending
    <3>7. Keeps(c)
      BY <2>1, <3>1, <3>5, <3>6 DEF Keeps, Begun, KillLabels
    <3> QED BY <2>1, <3>1, <3>7, OneKeeps, SameLinkOnly
  <2> QED BY <1>3, <2>3, <2>4 DEF RegisterRoute
<1>4. CASE RegisterOwner(c)
  <2>1. /\ Goto(c, "regActive") /\ handler[c].pc = "regOwner"
        /\ UNCHANGED <<shuttingDown, stats, main, link>>
    BY <1>4 DEF RegisterOwner, At, taskVars
  <2>2. OnlyHandler(c) /\ KeepsJob(c) /\ handler'[c].pc = "regActive"
    BY <1>0, <2>1, GotoEffect
  <2>3. AnswersOwn(handler'[c])
    BY <1>0, <2>1, <2>2 DEF ConnectionOK, AnswersOwn, KeepsJob, StopLabels, KillLabels, Cleared
  <2>4. Keeps(c)
    BY <2>1, <2>2, <2>3, JobKeeps DEF Busy, KillLabels
  <2> QED BY <2>1, <2>2, <2>4, OneKeeps, SameLinkOnly
<1>5. CASE RegisterActive(c)
  <2>1. /\ handler[c].pc = "regActive" /\ GotoReply(c, Msg("registered", handler[c].target))
        /\ UNCHANGED <<shuttingDown, stats, main, link>>
    BY <1>5 DEF RegisterActive, At, taskVars
  <2>2. /\ OnlyHandler(c) /\ KeepsJob(c)
        /\ handler'[c].pc = "reply" /\ handler'[c].reply = Msg("registered", handler[c].target)
    BY <1>0, <2>1, ReplyEffect
  <2>3. handler[c].job.type # "stop" /\ handler[c].owned = handler[c].target
    BY <1>0, <2>1 DEF ConnectionOK, AnswersOwn, StopLabels, Cleared, Fits
  <2>4. AnswersOwn(handler'[c])
    BY <2>2, <2>3 DEF AnswersOwn, KeepsJob, StopLabels, KillLabels, Msg
  <2>5. client[c].state # "new" /\ ~Unread(c)'
    BY <2>1, BusyFacts DEF Busy, Unread
  <2>6. Keeps(c)
    BY <2>1, <2>2, <2>3, <2>4, <2>5, ReplyKeeps DEF Unanswered, Pending
  <2> QED BY <2>1, <2>2, <2>6, OneKeeps, SameLinkOnly
<1> QED BY <1>1, <1>2, <1>3, <1>4, <1>5

(* Reading what an owner sends or the end of its stream; only a read error would lose a keeper. *)
LEMMA ReadKept ==
    ASSUME IInv, SessionInv, KeptInv, UNCHANGED client, NEW c \in Conns,
           \/ ReadUnregister(c) \/ ReadAcknowledged(c) \/ ReadDisconnect(c) \/ ReadError(c)
    PROVE  KeptStep
<1>0. /\ handler \in [Conns -> Handler] /\ link \in [Conns -> Link] /\ handler[c] \in Handler
      /\ ConnectionOK(c)
  BY DEF IInv, Typed, SystemTypeOK, TypeOK, KeptInv
<1>1. CASE ReadUnregister(c) \/ ReadAcknowledged(c)
  <2>1. PICK types \in {{"unregister"}, {"terminateAcknowledged"}} :
            Receive(c, types) /\ UNCHANGED <<shuttingDown, stats, main>>
    BY <1>1 DEF ReadUnregister, ReadAcknowledged, sharedVars, taskVars
  <2> DEFINE n == Head(link[c].inbox).session
  <2>2. /\ OnlyLink(c) /\ handler[c].pc = "reading" /\ client[c].state # "new"
        /\ link'[c].outbox = link[c].outbox /\ link'[c].writer = link[c].writer
        /\ Box(link'[c].inbox) \subseteq Box(link[c].inbox)
        /\ Head(link[c].inbox).type \in types
        /\ \A k : ~Pending(handler[c], k)
        /\ handler[c].owned \in {NoSession, n} /\ ~Unread(c)'
    BY <2>1, ReadFacts DEF SessionTypes
  <2>3. CASE handler[c].owned = n /\ Begin(c, "rmRoutes", n)
    <3>1. /\ OnlyHandler(c)
          /\ handler'[c].pc = "rmRoutes" /\ handler'[c].job = Head(link[c].inbox)
          /\ handler'[c].owned = handler[c].owned
      BY <1>0, <2>3, BeginEffect
    <3>2. AnswersOwn(handler'[c])
      BY <2>2, <3>1 DEF AnswersOwn, StopLabels, KillLabels
    <3>3. KeepStep(c) /\ StopStep(c) /\ QueueStep(c)
      BY <2>2, <3>1 DEF KeepStep, StopStep, QueueStep, Serving
    <3>4. Keeps(c)
      BY <2>1, <2>2, <3>1, <3>2, <3>3, MovedKeeps DEF Unanswered, KillLabels
    <3> QED BY <2>1, <2>2, <3>1, <3>4, OneKeeps
  <2>4. CASE handler[c].owned # n /\ Refuse(c)
    BY <2>1, <2>2, <2>4, RefuseIsReply, PlainFacts, AnswerOnReading
  <2>5. CASE UNCHANGED handler
    <3>1. AnswersOwn(handler'[c]) /\ KeepStep(c) /\ StopStep(c) /\ QueueStep(c)
      BY <1>0, <2>2, <2>5 DEF ConnectionOK, KeepStep, StopStep, QueueStep, Serving
    <3>2. Keeps(c)
      BY <2>1, <2>2, <2>5, <3>1, MovedKeeps DEF Unanswered, KillLabels
    <3> QED BY <2>1, <2>2, <2>5, <3>2, OneKeeps DEF OnlyHandler
  <2> QED BY <1>1, <2>3, <2>4, <2>5 DEF ReadUnregister, ReadAcknowledged
<1>2. CASE ReadDisconnect(c)
  <2>1. /\ handler[c].pc = "reading" /\ link[c].inbox = <<>>
        /\ UNCHANGED <<shuttingDown, stats, main, link>>
    BY <1>2 DEF ReadDisconnect, At, sharedVars, taskVars
  <2>2. /\ ~Unread(c)' /\ client[c].state # "new" /\ handler[c].job.type # "stop"
    BY <1>0, <2>1
       DEF Unread, Box, IInv, NewAreAbsent, Absent, ConnectionOK, AnswersOwn, StopLabels, Cleared
  <2>3. CASE handler[c].owned = NoSession
    <3>1. handler' = [handler EXCEPT ![c] = Rest("done", NoSession)]
      BY <1>2, <2>3 DEF ReadDisconnect
    <3>2. /\ OnlyHandler(c) /\ handler'[c].pc = "done" /\ handler'[c].owned = NoSession
          /\ handler'[c].job = NoJob
      BY <1>0, <3>1 DEF Rest, NoHandler, OnlyHandler
    <3>3. AnswersOwn(handler'[c])
      BY <3>2 DEF AnswersOwn, NoJob, StopLabels, KillLabels
    <3>4. KeepStep(c) /\ StopStep(c) /\ QueueStep(c)
      BY <2>2, <2>3, <3>2 DEF KeepStep, StopStep, QueueStep, Pending
    <3>5. Keeps(c)
      BY <2>1, <2>2, <3>2, <3>3, <3>4, MovedKeeps DEF Unanswered, KillLabels
    <3> QED BY <2>1, <3>2, <3>5, OneKeeps, SameLinkOnly
  <2>4. CASE handler[c].owned # NoSession
    <3> DEFINE h == [handler[c] EXCEPT !.pc = "rmRoutes", !.job = Disconnect,
                                       !.target = handler[c].owned]
    <3>1. h.pc = "rmRoutes" /\ h.owned = handler[c].owned /\ h.job = Disconnect
      BY <1>0 DEF Handler
    <3>2. handler' = [handler EXCEPT ![c] = h]
      BY <1>2, <2>4 DEF ReadDisconnect
    <3> HIDE DEF h
    <3>3. OnlyHandler(c) /\ handler'[c] = h
      BY <1>0, <3>2 DEF OnlyHandler
    <3>4. AnswersOwn(handler'[c])
      BY <3>1, <3>3 DEF AnswersOwn, Disconnect, StopLabels, KillLabels
    <3>5. KeepStep(c) /\ StopStep(c) /\ QueueStep(c)
      BY <2>2, <3>1, <3>3 DEF KeepStep, StopStep, QueueStep, Pending, Serving
    <3>6. Keeps(c)
      BY <2>1, <2>2, <3>1, <3>3, <3>4, <3>5, MovedKeeps DEF Unanswered, KillLabels
    <3> QED BY <2>1, <3>3, <3>6, OneKeeps, SameLinkOnly
  <2> QED BY <2>3, <2>4
<1>3. CASE ReadError(c)
  <2>1. /\ handler[c].pc = "reading" /\ "readError" \in Events
        /\ UNCHANGED <<shuttingDown, stats, main, link>>
        /\ handler' = [handler EXCEPT ![c] = Rest("failed", handler[c].owned)]
    BY <1>3 DEF ReadError, At, sharedVars, taskVars
  <2>2. /\ OnlyHandler(c) /\ handler'[c].pc = "failed" /\ handler'[c].owned = handler[c].owned
        /\ handler'[c].job = NoJob
    BY <1>0, <2>1 DEF Rest, NoHandler, OnlyHandler
  <2>3. client[c].state # "new" /\ handler[c].job.type # "stop"
    BY <1>0, <2>1
       DEF IInv, NewAreAbsent, Absent, ConnectionOK, AnswersOwn, StopLabels, Cleared
  <2>4. ConnectionOK(c)'
    BY <1>0, <2>1, <2>2, <2>3
       DEF ConnectionOK, Fresh, BeforeRequest, BeforeAnswer, NamesOwn, AnswersOwn, Untold, Unread,
           Silent, Unanswered, NoJob, StopLabels, KillLabels, Cleared
  <2>5. KeepStep(c) /\ StopStep(c) /\ WarnStep(c) /\ QueueStep(c)
    BY <2>1, <2>2, <2>3 DEF KeepStep, StopStep, WarnStep, QueueStep, Pending, Unanswered
  <2>6. Begun(c) => Begun(c)'
    BY <2>1, <2>2 DEF Begun, Unread
  <2>7. Keeps(c)
    BY <2>2, <2>4, <2>5, <2>6 DEF Keeps, KillLabels
  <2> QED BY <2>1, <2>2, <2>7, OneKeeps, SameLinkOnly
<1> QED BY <1>1, <1>2, <1>3

(* The caller of remove_session goes on. *)
LEMMA AfterRemovalKeeps ==
    ASSUME IInv, SessionInv, KeptInv, NEW c \in Conns, UNCHANGED <<link, client, stats>>,
           handler[c].pc \in {"rmCheck", "rmIdle"},
           handler' = [handler EXCEPT ![c] = AfterRemoval(handler[c])]
    PROVE  Keeps(c) /\ OnlyHandler(c)
<1>0. /\ handler \in [Conns -> Handler] /\ Fits(handler[c]) /\ ConnectionOK(c)
      /\ client[c].state # "new" /\ ~Unread(c)'
      /\ handler[c].target \notin RouteSessions
  BY BusyFacts DEF IInv, Typed, SystemTypeOK, TypeOK, SessionInv, KeptInv, Busy, Unread,
                   ClearedHaveNoRoute, Cleared
<1>1. ASSUME NEW type, GotoReply(c, Msg(type, handler[c].target)),
             \/ type = "unregistered" /\ handler[c].job.type = "unregister"
             \/ type = "stopped" /\ handler[c].job.type = "stop"
      PROVE  Keeps(c) /\ OnlyHandler(c)
  <2>1. /\ OnlyHandler(c) /\ KeepsJob(c) /\ handler'[c].pc = "reply"
        /\ handler'[c].reply = Msg(type, handler[c].target)
    BY <1>0, <1>1, ReplyEffect
  <2>2. AnswersOwn(handler'[c])
    BY <1>0, <1>1, <2>1
       DEF AnswersOwn, ConnectionOK, Fits, KeepsJob, Msg, StopLabels, KillLabels, Cleared
  <2>3. Keeps(c)
    BY <1>0, <1>1, <2>1, <2>2, ReplyKeeps DEF Msg, Pending
  <2> QED BY <2>1, <2>3
<1>2. ASSUME NEW label \in {"reading", "done"}, handler[c].job.type # "stop",
             handler' = [handler EXCEPT ![c] = Rest(label, NoSession)]
      PROVE  Keeps(c) /\ OnlyHandler(c)
  <2>1. /\ OnlyHandler(c) /\ handler'[c].pc = label /\ handler'[c].owned = NoSession
        /\ handler'[c].job = NoJob
    BY <1>0, <1>2 DEF Rest, NoHandler, OnlyHandler
  <2>2. AnswersOwn(handler'[c])
    BY <2>1 DEF AnswersOwn, NoJob, StopLabels, KillLabels
  <2>3. KeepStep(c) /\ StopStep(c) /\ QueueStep(c)
    BY <1>0, <1>2, <2>1 DEF KeepStep, StopStep, QueueStep, Pending, Fits, Cleared
  <2>4. Keeps(c)
    BY <1>0, <2>1, <2>2, <2>3, MovedKeeps DEF Unanswered, KillLabels
  <2> QED BY <2>1, <2>4
<1>3. \/ GotoReply(c, Msg("unregistered", handler[c].target)) /\ handler[c].job.type = "unregister"
      \/ GotoReply(c, Msg("stopped", handler[c].target)) /\ handler[c].job.type = "stop"
      \/ \E label \in {"reading", "done"} :
            /\ handler[c].job.type # "stop"
            /\ handler' = [handler EXCEPT ![c] = Rest(label, NoSession)]
  <2> DEFINE h == handler[c]
  <2>1. \/ /\ h.job.type = "unregister"
           /\ AfterRemoval(h) = Replying(h, Msg("unregistered", h.target))
        \/ /\ h.job.type = "stop"
           /\ AfterRemoval(h) = Replying(h, Msg("stopped", h.target))
        \/ h.job.type # "stop" /\ AfterRemoval(h) = Rest("reading", NoSession)
        \/ h.job.type # "stop" /\ AfterRemoval(h) = Rest("done", NoSession)
    BY DEF AfterRemoval
  <2> QED BY <2>1 DEF GotoReply
<1> QED BY <1>1, <1>2, <1>3

(* remove_session. *)
LEMMA RemoveKept ==
    ASSUME IInv, SessionInv, KeptInv, UNCHANGED client, NEW c \in Conns,
           \/ RemoveRoutes(c) \/ RemoveOwner(c) \/ RemoveAck(c) \/ CheckEmpty(c) \/ MarkIdle(c)
    PROVE  KeptStep
<1>0. /\ handler \in [Conns -> Handler] /\ ConnectionOK(c) /\ Fits(handler[c])
      /\ acks \in [Sessions -> Conns \cup {NoConn}]
      /\ handler[c].pc \in SessionLabels => handler[c].target \in Sessions
      /\ UNCHANGED <<shuttingDown, stats, main, link>>
  BY DEF IInv, Typed, SystemTypeOK, TypeOK, SessionInv, KeptInv, TargetsAreSessions, RemoveRoutes,
         RemoveOwner, RemoveAck, CheckEmpty, MarkIdle, sharedVars, taskVars
<1>1. ASSUME NEW label \in Cleared, handler[c].pc \in {"rmRoutes"} \cup Cleared,
             KeepsJob(c), handler'[c].pc = label
      PROVE  Keeps(c)
  <2>1. AnswersOwn(handler'[c])
    BY <1>0, <1>1 DEF ConnectionOK, AnswersOwn, KeepsJob, StopLabels, KillLabels, Cleared
  <2> QED BY <1>0, <1>1, <2>1, JobKeeps DEF Busy, Cleared, KillLabels
<1>2. ASSUME NEW label \in Cleared, handler[c].pc \in {"rmRoutes"} \cup Cleared, Goto(c, label)
      PROVE  KeptStep
  <2>1. OnlyHandler(c) /\ KeepsJob(c) /\ handler'[c].pc = label
    BY <1>0, <1>2, GotoEffect
  <2> QED BY <1>0, <1>1, <1>2, <2>1, OneKeeps, SameLinkOnly
<1>3. CASE RemoveRoutes(c) \/ RemoveOwner(c)
  BY <1>2, <1>3 DEF RemoveRoutes, RemoveOwner, At, Cleared
<1>4. CASE RemoveAck(c)
  <2> DEFINE n == handler[c].target
  <2>1. handler[c].pc = "rmAck" /\ n \in Sessions /\ n \notin RouteSessions
    BY <1>0, <1>4 DEF RemoveAck, At, SessionLabels, SessionInv, ClearedHaveNoRoute, Cleared
  <2>2. Keeps(c)
    <3>1. handler'[c] = [handler[c] EXCEPT !.pc = "rmCheck"]
      BY <1>4 DEF RemoveAck
    <3>2. KeepsJob(c) /\ handler'[c].pc = "rmCheck"
      BY <1>0, <3>1 DEF KeepsJob, Handler
    <3> QED BY <1>1, <2>1, <3>2 DEF Cleared
  <2>3. ASSUME NEW d \in Conns \ {c}, handler'[d] = handler[d]
        PROVE  Keeps(d)
    BY <1>0, <2>3, SameKeeps
  <2>4. ASSUME NEW d \in Conns \ {c}, d = acks[n], handler[d].pc = "stopWait",
               handler'[d] = Replying(handler[d], Msg("stopped", handler[d].target))
        PROVE  Keeps(d)
    <3>1. handler[d].target = n
      BY <2>1, <2>4, ConnAssumption DEF SessionInv, AcksHaveWaiters
    <3>2. /\ KeepsJob(d) /\ handler'[d].pc = "reply"
          /\ handler'[d].reply = Msg("stopped", n)
      BY SMTT(60), <1>0, <2>4, <3>1 DEF Replying, Handler, KeepsJob
    <3>3. AnswersOwn(handler'[d])
      BY <2>4, <3>2
         DEF KeptInv, ConnectionOK, AnswersOwn, KeepsJob, Msg, StopLabels, KillLabels
    <3>4. client[d].state # "new" /\ ~Unread(d)'
      BY <1>0, <2>4, BusyFacts DEF Busy, Unread
    <3> QED BY <1>0, <2>1, <3>1, <3>2, <3>3, <3>4, ReplyKeeps DEF Msg, Pending
  <2>5. ASSUME NEW d \in Conns PROVE Keeps(d)
    <3>1. handler'[d] = IF d = c THEN [handler[d] EXCEPT !.pc = "rmCheck"]
                        ELSE IF d = acks[n] /\ handler[d].pc = "stopWait"
                        THEN Replying(handler[d], Msg("stopped", handler[d].target))
                        ELSE handler[d]
      BY <1>4 DEF RemoveAck
    <3> QED BY <2>2, <2>3, <2>4, <3>1
  <2> QED BY <1>0, <2>5, MainStays DEF KeptStep
<1>5. CASE CheckEmpty(c) \/ MarkIdle(c)
  <2>1. /\ handler[c].pc \in {"rmCheck", "rmIdle"}
        /\ \/ Goto(c, "rmIdle")
           \/ handler' = [handler EXCEPT ![c] = AfterRemoval(handler[c])]
    BY <1>5 DEF CheckEmpty, MarkIdle, At, Goto
  <2>2. CASE Goto(c, "rmIdle")
    BY <1>2, <2>1, <2>2 DEF Cleared
  <2>3. CASE handler' = [handler EXCEPT ![c] = AfterRemoval(handler[c])]
    BY <1>0, <2>1, <2>3, AfterRemovalKeeps, OneKeeps, SameLinkOnly
  <2> QED BY <2>1, <2>2, <2>3
<1> QED BY <1>3, <1>4, <1>5

(* stop_route. *)
LEMMA StopKept ==
    ASSUME IInv, SessionInv, KeptInv, UNCHANGED client, NEW c \in Conns,
           \/ ReadList(c) \/ ReadStop(c) \/ StopInsertsAck(c) \/ StopLooksUp(c)
           \/ StopArms(c) \/ StopTimesOut(c)
    PROVE  KeptStep
<1>0. /\ handler \in [Conns -> Handler] /\ ConnectionOK(c) /\ Fits(handler[c])
      /\ owners \in [Sessions -> Conns \cup {NoConn}]
      /\ handler[c].pc \in SessionLabels => handler[c].target \in Sessions
      /\ UNCHANGED <<shuttingDown, stats, main>>
  BY DEF IInv, Typed, SystemTypeOK, TypeOK, SessionInv, KeptInv, TargetsAreSessions, ReadList,
         ReadStop, StopInsertsAck, StopLooksUp, StopArms, StopTimesOut, sharedVars, taskVars
<1>1. CASE ReadList(c)
  <2>1. Receive(c, {"list"}) /\ GotoReply(c, Plain("routeList"))
    BY <1>1 DEF ReadList
  <2>2. handler[c].owned = NoSession /\ ~Unread(c)'
    BY <2>1, ReadFacts DEF RequestTypes
  <2> QED BY <1>0, <2>1, <2>2, PlainFacts, AnswerOnReading
<1>2. CASE ReadStop(c)
  <2>1. Receive(c, {"stop"})
    BY <1>2 DEF ReadStop
  <2>2. /\ OnlyLink(c) /\ handler[c].pc = "reading" /\ client[c].state # "new"
        /\ link'[c].outbox = link[c].outbox /\ link'[c].writer = link[c].writer
        /\ Box(link'[c].inbox) \subseteq Box(link[c].inbox)
        /\ \A n : ~Pending(handler[c], n)
        /\ handler[c].owned = NoSession /\ Unread(c) /\ ~Unread(c)'
    BY <2>1, ReadFacts DEF RequestTypes
  <2>3. CASE Refuse(c)
    BY <1>0, <2>1, <2>2, <2>3, RefuseIsReply, PlainFacts, AnswerOnReading
  <2>4. ASSUME NEW n, Begin(c, "stopAck", n)
        PROVE  KeptStep
    <3>1. /\ OnlyHandler(c) /\ handler'[c].pc = "stopAck" /\ handler'[c].owned = NoSession
      BY <1>0, <2>2, <2>4, BeginEffect
    <3>2. AnswersOwn(handler'[c])
      BY <3>1 DEF AnswersOwn, StopLabels
    <3>3. KeepStep(c) /\ StopStep(c) /\ QueueStep(c)
      BY <2>2, <3>1 DEF KeepStep, StopStep, QueueStep
    <3>4. Keeps(c)
      BY <1>0, <2>2, <3>1, <3>2, <3>3, MovedKeeps DEF Unanswered, KillLabels
    <3> QED BY <1>0, <2>2, <3>1, <3>4, OneKeeps
  <2> QED BY <1>2, <2>3, <2>4 DEF ReadStop
<1>3. CASE StopInsertsAck(c) \/ StopArms(c) \/ StopTimesOut(c)
  <2>1. PICK label \in {"stopLookup", "stopWait", "rmRoutes"} :
            /\ Goto(c, label) /\ handler[c].pc \in {"stopAck", "stopArm", "stopWait"}
            /\ UNCHANGED link
    BY <1>3 DEF StopInsertsAck, StopArms, StopTimesOut, At
  <2>2. OnlyHandler(c) /\ KeepsJob(c) /\ handler'[c].pc = label
    BY <1>0, <2>1, GotoEffect
  <2>3. AnswersOwn(handler'[c])
    BY <1>0, <2>1, <2>2 DEF ConnectionOK, AnswersOwn, KeepsJob, StopLabels, KillLabels
  <2>4. Keeps(c)
    BY <1>0, <2>1, <2>2, <2>3, JobKeeps DEF Busy, KillLabels
  <2> QED BY <1>0, <2>1, <2>2, <2>4, OneKeeps, SameLinkOnly
<1>4. CASE StopLooksUp(c)
  <2> DEFINE owner == owners[handler[c].target]
             queue == IF owner = NoConn THEN <<>> ELSE <<owner>>
  <2>1. /\ handler[c].pc = "stopLookup" /\ UNCHANGED link /\ handler[c].target \in Sessions
        /\ handler' = [handler EXCEPT ![c].pc = "stopSend", ![c].queue = queue]
    BY <1>0, <1>4 DEF StopLooksUp, At, SessionLabels
  <2>2. /\ OnlyHandler(c) /\ KeepsJob(c) /\ handler'[c].pc = "stopSend"
        /\ handler'[c].queue = queue
    BY <1>0, <2>1 DEF Handler, OnlyHandler, KeepsJob
  <2>3. \A e \in Box(queue) : e \in Conns /\ e = owner
    <3>1. CASE owner = NoConn
      BY <3>1 DEF Box
    <3>2. CASE owner # NoConn
      BY <1>0, <2>1, <3>2 DEF Box
    <3> QED BY <3>1, <3>2
  <2>4. AnswersOwn(handler'[c])
    BY <1>0, <2>1, <2>2 DEF ConnectionOK, AnswersOwn, KeepsJob, StopLabels, KillLabels
  <2>5. KeepStep(c) /\ StopStep(c) /\ QueueStep(c)
    BY <2>1, <2>2, <2>3 DEF KeepStep, StopStep, QueueStep, Pending, KeepsJob, Serving
  <2>6. client[c].state # "new" /\ ~Unread(c)'
    BY <2>1, BusyFacts DEF Busy, Unread
  <2>7. Keeps(c)
    BY <1>0, <2>1, <2>2, <2>4, <2>5, <2>6, MovedKeeps DEF Unanswered, KillLabels, KeepsJob
  <2> QED BY <1>0, <2>1, <2>2, <2>7, OneKeeps, SameLinkOnly
<1> QED BY <1>1, <1>2, <1>3, <1>4

(* A registration that is unanswered is told to stop only by a `stop` of it, or in a shutdown. *)
LEMMA SendKeeps ==
    ASSUME IInv, SessionInv, KeptInv, UNCHANGED <<client, stats>>, shuttingDown => shuttingDown',
           NEW e \in Conns, NEW type \in {"remoteStop", "daemonKill", "fatal"},
           link' = Sent(e, Plain(type)), Begun(e),
           Unanswered(e) => Warned(handler[e].owned) \/ handler[e].owned = NoSession,
           NEW d \in Conns, KeepsJob(d), handler'[d].pc = handler[d].pc,
           handler'[d].reply = handler[d].reply,
           Box(handler'[d].queue) \subseteq Box(handler[d].queue),
           (Begun(d) /\ ~Unanswered(d)) \/ d = e \/ handler'[d] = handler[d]
    PROVE  Keeps(d)
<1>1. /\ OnlyLink(e) /\ link'[e].inbox = link[e].inbox /\ link'[e].writer = link[e].writer
      /\ Box(link'[e].outbox) \subseteq Box(link[e].outbox) \cup {Plain(type)}
  <2>1. Plain(type) \in ServerMessage /\ link \in [Conns -> Link]
    BY ServerMessageKinds DEF PlainTypes, IInv, Typed, SystemTypeOK, TypeOK
  <2> QED BY <2>1, SentEffect
<1>2. Plain(type).type # "registered"
  BY PlainFacts
<1>3. CASE d = e
  BY <1>1, <1>2, <1>3, ToldKeeps
<1>4. CASE d # e /\ handler'[d] = handler[d]
  BY <1>1, <1>4, SameKeeps DEF OnlyLink
<1>5. CASE d # e /\ Begun(d) /\ ~Unanswered(d)
  BY <1>1, <1>2, <1>5, ToldKeeps DEF OnlyLink
<1> QED BY <1>3, <1>4, <1>5

(* A `stop` warns the owner, or finds its writer gone. *)
LEMMA TerminateKept ==
    ASSUME IInv, SessionInv, KeptInv, UNCHANGED client, NEW c \in Conns, SendTerminate(c)
    PROVE  KeptStep
<1> DEFINE queue == handler[c].queue
<1>0. /\ handler \in [Conns -> Handler] /\ handler[c] \in Handler /\ queue \in Seq(Conns)
      /\ Fits(handler[c]) /\ handler[c].pc \in {"stopSend", "killSend"} /\ ConnectionOK(c)
      /\ UNCHANGED <<shuttingDown, stats, main>>
  BY DEF IInv, Typed, SystemTypeOK, TypeOK, SessionInv, KeptInv, Handler, SendTerminate, At,
         sharedVars, taskVars
<1>1. client[c].state # "new" /\ ~Unread(c)
  BY <1>0, BusyFacts DEF Busy
<1>2. CASE queue = <<>> /\ handler[c].pc = "stopSend"
  <2>1. Goto(c, "stopArm") /\ UNCHANGED link
    BY <1>2 DEF SendTerminate, Goto
  <2>2. OnlyHandler(c) /\ KeepsJob(c) /\ handler'[c].pc = "stopArm"
    BY <1>0, <2>1, GotoEffect
  <2>3. AnswersOwn(handler'[c])
    BY <1>0, <1>2, <2>2 DEF ConnectionOK, AnswersOwn, KeepsJob, StopLabels, KillLabels
  <2>4. Keeps(c)
    BY <1>0, <2>1, <2>2, <2>3, JobKeeps DEF Busy, KillLabels
  <2> QED BY <1>0, <2>1, <2>2, <2>4, OneKeeps, SameLinkOnly
<1>3. CASE queue = <<>> /\ handler[c].pc = "killSend"
  <2>1. GotoReply(c, Plain("killAccepted")) /\ UNCHANGED link
    BY <1>3 DEF SendTerminate, GotoReply
  <2>2. /\ OnlyHandler(c) /\ KeepsJob(c)
        /\ handler'[c].pc = "reply" /\ handler'[c].reply = Plain("killAccepted")
    BY <1>0, <2>1, ReplyEffect
  <2>3. handler[c].job.type # "stop" /\ handler[c].owned = NoSession
    BY <1>0, <1>3 DEF ConnectionOK, AnswersOwn, StopLabels, KillLabels, Cleared
  <2>4. AnswersOwn(handler'[c])
    BY <2>2, <2>3 DEF AnswersOwn, KeepsJob, StopLabels, KillLabels
  <2>5. Keeps(c)
    BY <1>0, <1>1, <2>1, <2>2, <2>3, <2>4, PlainFacts, ReplyKeeps DEF Pending, Unread
  <2> QED BY <1>0, <2>1, <2>2, <2>5, OneKeeps, SameLinkOnly
<1>4. CASE queue # <<>>
  <2> DEFINE e == Head(queue)
  <2>1. PICK type \in {"remoteStop", "daemonKill"} : link' = Sent(e, Plain(type))
    BY <1>4 DEF SendTerminate
  <2>2. e \in Conns /\ e \in Box(queue) /\ Box(Tail(queue)) \subseteq Box(queue)
    BY <1>0, <1>4, BoxFacts
  <2>3. handler' = [handler EXCEPT ![c].queue = Tail(queue)]
    BY <1>4 DEF SendTerminate
  <2>4. /\ OnlyHandler(c) /\ KeepsJob(c) /\ handler'[c].pc = handler[c].pc
        /\ handler'[c].reply = handler[c].reply /\ handler'[c].queue = Tail(queue)
    BY <1>0, <2>3 DEF OnlyHandler, KeepsJob, Handler
  <2>5. Begun(e)
    BY <1>0, <2>2 DEF KeptInv, QueuedHaveBegun
  <2>6. Warned(handler[e].owned) \/ handler[e].owned = NoSession
    <3>1. CASE handler[c].pc = "stopSend"
      <4>1. handler[e].owned \in {NoSession, handler[c].target}
        BY <2>2, <3>1 DEF KeptInv, StopsReachOwners
      <4>2. StopPending(handler[c].target)
        BY <1>0, <3>1 DEF StopPending, Fits, StopLabels
      <4> QED BY <4>1, <4>2 DEF Warned
    <3>2. CASE handler[c].pc = "killSend"
      BY <3>2 DEF KeptInv, ShutdownIsKnown, KillLabels, Warned
    <3> QED BY <1>0, <3>1, <3>2
  <2>7. Begun(c) /\ ~Unanswered(c)
    BY <1>0, <1>1 DEF Begun, Unanswered
  <2> HIDE DEF e
  <2>8. ASSUME NEW d \in Conns PROVE Keeps(d)
    <3>1. CASE d = c
      BY <1>0, <2>1, <2>2, <2>4, <2>5, <2>6, <2>7, <3>1, SendKeeps
    <3>2. CASE d # c
      <4>1. handler'[d] = handler[d]
        BY <2>4, <3>2 DEF OnlyHandler
      <4> QED BY <1>0, <2>1, <2>2, <2>5, <2>6, <4>1, SendKeeps DEF KeepsJob
    <3> QED BY <3>1, <3>2
  <2> QED BY <1>0, <2>8, MainStays DEF KeptStep
<1> QED BY <1>0, <1>2, <1>3, <1>4

(* The channels of a snapshot of the owners are stored ones. *)
LEMMA SnapshotFacts ==
    ASSUME owners \in [Sessions -> Conns \cup {NoConn}], NEW queue \in OwnerQueues
    PROVE  \A e \in Box(queue) : e \in Conns /\ \E n \in Sessions : e = owners[n]
<1>1. PICK order \in [1..Cardinality(Owning) -> Owning] :
          queue = [i \in 1..Cardinality(Owning) |-> owners[order[i]]]
  BY DEF OwnerQueues
<1>2. ASSUME NEW i \in 1..Cardinality(Owning)
      PROVE  queue[i] \in Conns /\ \E n \in Sessions : queue[i] = owners[n]
  BY <1>1 DEF Owning
<1> QED BY <1>1, <1>2 DEF Box

(* `kill` reads, clears the registry and takes its snapshot. *)
LEMMA KillKept ==
    ASSUME IInv, SessionInv, KeptInv, UNCHANGED client, NEW c \in Conns,
           ReadKill(c) \/ KillClears(c) \/ KillSnapshots(c)
    PROVE  KeptStep
<1>0. /\ handler \in [Conns -> Handler] /\ ConnectionOK(c)
      /\ owners \in [Sessions -> Conns \cup {NoConn}]
      /\ UNCHANGED <<stats, main>> /\ (shuttingDown => shuttingDown')
  BY DEF IInv, Typed, SystemTypeOK, TypeOK, KeptInv, ReadKill, KillClears, KillSnapshots,
         sharedVars, taskVars
<1>1. CASE ReadKill(c)
  <2>1. Receive(c, {"kill"}) /\ shuttingDown'
    BY <1>1 DEF ReadKill
  <2>2. /\ OnlyLink(c) /\ handler[c].pc = "reading" /\ client[c].state # "new"
        /\ link'[c].outbox = link[c].outbox /\ link'[c].writer = link[c].writer
        /\ Box(link'[c].inbox) \subseteq Box(link[c].inbox)
        /\ Head(link[c].inbox).type = "kill"
        /\ \A n : ~Pending(handler[c], n)
        /\ handler[c].owned = NoSession /\ Unread(c) /\ ~Unread(c)'
    BY <2>1, ReadFacts DEF RequestTypes
  <2>3. CASE Refuse(c)
    BY <1>0, <2>1, <2>2, <2>3, RefuseIsReply, PlainFacts, AnswerOnReading
  <2>4. CASE Begin(c, "killClear", NoSession)
    <3>1. /\ OnlyHandler(c) /\ handler'[c].pc = "killClear" /\ handler'[c].owned = NoSession
          /\ handler'[c].job = Head(link[c].inbox)
      BY <1>0, <2>2, <2>4, BeginEffect
    <3>2. AnswersOwn(handler'[c])
      BY <2>2, <3>1 DEF AnswersOwn
    <3>3. KeepStep(c) /\ StopStep(c) /\ QueueStep(c)
      BY <2>2, <3>1 DEF KeepStep, StopStep, QueueStep
    <3>4. Keeps(c)
      BY <1>0, <2>1, <2>2, <3>1, <3>2, <3>3, MovedKeeps DEF Unanswered
    <3> QED BY <1>0, <2>2, <3>1, <3>4, OneKeeps
  <2> QED BY <1>1, <2>3, <2>4 DEF ReadKill
<1>2. CASE KillClears(c)
  <2>1. Goto(c, "killSnapshot") /\ handler[c].pc = "killClear" /\ UNCHANGED link
    BY <1>2 DEF KillClears, At
  <2>2. OnlyHandler(c) /\ KeepsJob(c) /\ handler'[c].pc = "killSnapshot"
    BY <1>0, <2>1, GotoEffect
  <2>3. AnswersOwn(handler'[c])
    BY <1>0, <2>1, <2>2 DEF ConnectionOK, AnswersOwn, KeepsJob, StopLabels, KillLabels, Cleared
  <2>4. Keeps(c)
    BY <1>0, <2>1, <2>2, <2>3, JobKeeps DEF Busy, KillLabels
  <2> QED BY <1>0, <2>1, <2>2, <2>4, OneKeeps, SameLinkOnly
<1>3. CASE KillSnapshots(c)
  <2>1. PICK queue \in OwnerQueues :
            handler' = [handler EXCEPT ![c].pc = "killSend", ![c].queue = queue]
    BY <1>3 DEF KillSnapshots
  <2>2. handler[c].pc = "killSnapshot" /\ UNCHANGED link
    BY <1>3 DEF KillSnapshots, At
  <2>3. /\ OnlyHandler(c) /\ KeepsJob(c) /\ handler'[c].pc = "killSend"
        /\ handler'[c].queue = queue
    BY <1>0, <2>1, QueueEffect
  <2>4. AnswersOwn(handler'[c])
    BY <1>0, <2>2, <2>3 DEF ConnectionOK, AnswersOwn, KeepsJob, StopLabels, KillLabels, Cleared
  <2>5. KeepStep(c) /\ StopStep(c) /\ QueueStep(c)
    BY <1>0, <2>2, <2>3, SnapshotFacts
       DEF KeepStep, StopStep, QueueStep, Pending, KeepsJob, Serving
  <2>6. client[c].state # "new" /\ ~Unread(c)'
    BY <2>2, BusyFacts DEF Busy, Unread
  <2>7. shuttingDown'
    BY <1>0, <2>2 DEF KeptInv, ShutdownIsKnown, KillLabels
  <2>8. Keeps(c)
    BY <1>0, <2>2, <2>3, <2>4, <2>5, <2>6, <2>7, MovedKeeps DEF Unanswered, KeepsJob
  <2> QED BY <1>0, <2>2, <2>3, <2>8, OneKeeps, SameLinkOnly
<1> QED BY <1>1, <1>2, <1>3

(* Answers and statistics. *)
LEMMA ReplyKept ==
    ASSUME IInv, SessionInv, KeptInv, UNCHANGED client, NEW c \in Conns, SendReply(c)
    PROVE  KeptStep
<1> DEFINE h == handler[c]
<1>0. /\ handler \in [Conns -> Handler] /\ link \in [Conns -> Link] /\ h \in Handler
      /\ h.pc = "reply" /\ h.reply \in ServerMessage /\ ConnectionOK(c)
      /\ client[c].state # "new" /\ ~Unread(c)
      /\ UNCHANGED <<shuttingDown, main>>
      /\ stats \in [Conns -> Slugs \cup {NoSlug}]
  BY BusyFacts
     DEF IInv, Typed, SystemTypeOK, TypeOK, KeptInv, SendReply, At, Handler, Busy, sharedVars
<1>1. h.reply.type = "unregistered" => h.owned \notin RouteSessions \/ h.owned = NoSession
  <2>1. h.reply.type = "unregistered" => h.reply.session \notin RouteSessions
    BY HasRouteIs DEF SessionInv, AnswersAreTrue
  <2> QED BY <1>0, <2>1 DEF ConnectionOK, AnswersOwn
<1>2. CASE ~link[c].writer
  <2>1. handler' = [handler EXCEPT ![c] = Rest("failed", h.owned)] /\ UNCHANGED <<link, stats>>
    BY <1>2, <1>0 DEF SendReply
  <2>2. /\ OnlyHandler(c) /\ handler'[c].pc = "failed" /\ handler'[c].owned = h.owned
        /\ handler'[c].job = NoJob
    BY <1>0, <2>1 DEF Rest, NoHandler, OnlyHandler
  <2>3. AnswersOwn(handler'[c])
    BY <2>2 DEF AnswersOwn, NoJob, StopLabels, KillLabels
  <2>4. KeepStep(c)
    <3>1. CASE h.reply.type = "registered"
      <4>1. Unanswered(c) /\ ~Silent(c)
        BY <1>0, <1>2, <3>1 DEF Unanswered, Silent
      <4> QED BY <4>1 DEF KeepStep, KeptInv, WarnedBeforeAnswer, Warned
    <3>2. CASE h.reply.type # "registered"
      BY <1>0, <1>1, <3>2 DEF KeepStep, ConnectionOK, AnswersOwn
    <3> QED BY <3>1, <3>2
  <2>5. StopStep(c) /\ QueueStep(c)
    BY <1>0, <2>2 DEF StopStep, QueueStep, Pending
  <2>6. Keeps(c)
    BY <1>0, <2>1, <2>2, <2>3, <2>4, <2>5, MovedKeeps DEF Unanswered, Unread, KillLabels
  <2> QED BY <1>0, <2>1, <2>2, <2>6, OneKeeps, SameLinkOnly
<1>3. CASE link[c].writer
  <2> DEFINE n == IF h.reply.type = "unregistered" THEN NoSession ELSE h.owned
  <2>1. /\ handler' = [handler EXCEPT ![c] = Rest("reading", n)] /\ link' = Sent(c, h.reply)
        /\ stats' = stats \/ stats' = [stats EXCEPT ![c] = h.slug]
    BY <1>0, <1>3 DEF SendReply
  <2>2. /\ n = h.owned \/ (n = NoSession /\ h.reply.type = "unregistered")
    OBVIOUS
  <2> HIDE DEF n
  <2>3. /\ OnlyHandler(c) /\ handler'[c].pc = "reading" /\ handler'[c].owned = n
        /\ handler'[c].job = NoJob
    BY <1>0, <2>1 DEF Rest, NoHandler, OnlyHandler
  <2>4. /\ OnlyLink(c) /\ link'[c].inbox = link[c].inbox
        /\ Box(link'[c].outbox) \subseteq Box(link[c].outbox) \cup {h.reply}
    BY <1>0, <2>1, SentEffect
  <2>5. \A d \in Conns \ {c} : stats'[d] = stats[d]
    BY <1>0, <2>1
  <2>6. NamesOwn(c)'
    <3>1. h.reply.type = "registered" => h.owned \in {NoSession, h.reply.session}
      BY <1>0 DEF ConnectionOK, AnswersOwn
    <3>2. n \in {NoSession, h.owned}
      BY <2>2
    <3> QED BY <1>0, <2>3, <2>4, <3>1, <3>2 DEF ConnectionOK, NamesOwn
  <2>7. AnswersOwn(handler'[c]) /\ ~Unread(c)'
    BY <1>0, <2>3, <2>4 DEF AnswersOwn, NoJob, StopLabels, KillLabels, Unread
  <2>8. ConnectionOK(c)'
    BY <1>0, <2>3, <2>6, <2>7
       DEF ConnectionOK, Fresh, BeforeRequest, BeforeAnswer, Unanswered
  <2>9. KeepStep(c) /\ StopStep(c) /\ QueueStep(c) /\ WarnStep(c)
    BY <1>0, <1>1, <2>2, <2>3
       DEF KeepStep, StopStep, QueueStep, WarnStep, Unanswered, Pending, Serving
  <2>10. Keeps(c)
    BY <1>0, <2>3, <2>7, <2>8, <2>9 DEF Keeps, Begun, KillLabels
  <2> QED BY <1>0, <2>3, <2>4, <2>5, <2>10, OneKeeps
<1> QED BY <1>2, <1>3

(* Statistics and a writer that fails. *)
LEMMA ChannelKept ==
    ASSUME IInv, SessionInv, KeptInv, UNCHANGED client, NEW c \in Conns,
           StatsTick(c) \/ WriterFails(c)
    PROVE  KeptStep
<1>0. /\ link \in [Conns -> Link] /\ stats \in [Conns -> Slugs \cup {NoSlug}] /\ ConnectionOK(c)
      /\ UNCHANGED <<shuttingDown, main, handler>>
  BY DEF IInv, Typed, SystemTypeOK, TypeOK, KeptInv, StatsTick, WriterFails, sharedVars, taskVars
<1>1. OnlyHandler(c) /\ KeepStep(c) /\ StopStep(c) /\ QueueStep(c)
  BY <1>0 DEF OnlyHandler, KeepStep, StopStep, QueueStep, Serving
<1>2. handler'[c].pc \in KillLabels => shuttingDown'
  BY <1>0 DEF KeptInv, ShutdownIsKnown
<1>3. CASE StatsTick(c)
  <2>1. /\ stats[c] # NoSlug
        /\ \/ stats' = [stats EXCEPT ![c] = NoSlug] /\ UNCHANGED link
           \/ link' = Sent(c, Plain("stats")) /\ UNCHANGED stats
    BY <1>3 DEF StatsTick
  <2>2. Begun(c) /\ ~Unanswered(c)
    BY <1>0, <2>1 DEF ConnectionOK, Fresh, BeforeRequest, BeforeAnswer, Begun
  <2>3. CASE stats' = [stats EXCEPT ![c] = NoSlug] /\ UNCHANGED link
    <3>1. /\ stats'[c] = NoSlug /\ \A d \in Conns \ {c} : stats'[d] = stats[d]
      BY <1>0, <2>3
    <3>2. ~Unread(c)' /\ ~Unanswered(c)' /\ NamesOwn(c)' /\ Begun(c)'
      BY <1>0, <2>2, <2>3 DEF Begun, Unread, Unanswered, ConnectionOK, NamesOwn
    <3>3. ConnectionOK(c)'
      BY <1>0, <2>2, <3>2
         DEF ConnectionOK, Fresh, BeforeRequest, BeforeAnswer, Begun
    <3>4. Keeps(c)
      BY <1>1, <1>2, <3>2, <3>3 DEF Keeps, WarnStep
    <3> QED BY <1>0, <1>1, <2>3, <3>1, <3>4, OneKeeps, SameLinkOnly
  <2>4. CASE link' = Sent(c, Plain("stats")) /\ UNCHANGED stats
    <3>1. /\ OnlyLink(c) /\ link'[c].inbox = link[c].inbox /\ link'[c].writer = link[c].writer
          /\ Box(link'[c].outbox) \subseteq Box(link[c].outbox) \cup {Plain("stats")}
      BY <1>0, <2>4, SentEffect, ServerMessageKinds DEF PlainTypes
    <3>2. Keeps(c)
      BY <1>0, <2>2, <2>4, <3>1, PlainFacts, ToldKeeps DEF KeepsJob
    <3> QED BY <1>0, <1>1, <2>4, <3>1, <3>2, OneKeeps
  <2> QED BY <2>1, <2>3, <2>4
<1>4. CASE WriterFails(c)
  <2>1. /\ link[c].outbox # <<>> /\ UNCHANGED stats
        /\ link' = [link EXCEPT ![c].writer = FALSE, ![c].outbox = <<>>]
    BY <1>4 DEF WriterFails
  <2>2. /\ OnlyLink(c) /\ link'[c].inbox = link[c].inbox /\ Box(link'[c].outbox) = {}
    BY <1>0, <2>1 DEF OnlyLink, Link, Box
  <2>3. Begun(c) /\ ~Silent(c)
    BY <1>0, <2>1 DEF ConnectionOK, Fresh, BeforeRequest, BeforeAnswer, Begun, Silent
  <2>4. Untold(c) => Untold(c)'
    BY <2>2 DEF Untold
  <2>5. NamesOwn(c)' /\ Begun(c)'
    BY <1>0, <2>2, <2>3 DEF ConnectionOK, NamesOwn, Begun, Unread
  <2>6. ConnectionOK(c)'
    BY <1>0, <2>1, <2>3, <2>4, <2>5
       DEF ConnectionOK, Fresh, BeforeRequest, BeforeAnswer, Begun, Unanswered
  <2>7. WarnStep(c)
    BY <1>0, <2>3 DEF WarnStep, Unanswered
  <2>8. Keeps(c)
    BY <1>1, <1>2, <2>5, <2>6, <2>7 DEF Keeps
  <2> QED BY <1>0, <1>1, <2>1, <2>2, <2>8, OneKeeps
<1> QED BY <1>3, <1>4

(* The other tasks. *)
LEMMA TaskKept ==
    ASSUME IInv, SessionInv, KeptInv, UNCHANGED client,
           \/ IdleElapses \/ IdleStep \/ KillDelayEnds \/ AcceptEnds
           \/ CloudflaredExits \/ Cancelled
           \/ MainFindsExit \/ FatalSnapshots \/ SendFatal \/ FatalClears \/ MainLeavesLoop
           \/ MainStopsCloudflared
    PROVE  KeptStep
<1>0. /\ handler \in [Conns -> Handler] /\ link \in [Conns -> Link]
      /\ owners \in [Sessions -> Conns \cup {NoConn}]
      /\ main \in [pc : {"polling", "fatalSnapshot", "fatalSend", "fatalClear", "fatalCancel",
                         "stopping", "draining", "exited"},
                   queue : Seq(Conns)]
  BY DEF IInv, Typed, SystemTypeOK, TypeOK
<1>1. ASSUME UNCHANGED <<handler, link, stats>>, MainKeeps
      PROVE  KeptStep
  BY <1>1, SameKeeps DEF KeptStep, MainKeeps
<1>2. CASE AcceptEnds
  <2>1. UNCHANGED <<shuttingDown, main, stats, link>>
    BY <1>2 DEF AcceptEnds, sharedVars
  <2>2. ASSUME NEW d \in Conns PROVE Keeps(d)
    <3>1. CASE handler'[d] = handler[d]
      BY <2>1, <3>1, SameKeeps
    <3>2. CASE handler[d].pc = "backlog" /\ handler'[d] = Rest("gone", NoSession)
      <4>1. /\ handler'[d].pc = "gone" /\ handler'[d].owned = NoSession
            /\ handler'[d].job = NoJob
            /\ handler[d].owned = NoSession /\ ConnectionOK(d)
        BY <3>2 DEF Rest, NoHandler, SessionInv, Fits, KeptInv
      <4>2. ConnectionOK(d)'
        BY <2>1, <4>1
           DEF ConnectionOK, Fresh, BeforeRequest, BeforeAnswer, NamesOwn, AnswersOwn, Untold,
               Unread, Silent, Unanswered, NoJob, StopLabels, KillLabels, Cleared
      <4>3. Begun(d) => Begun(d)'
        BY <2>1, <4>1 DEF Begun, Unread
      <4>4. KeepStep(d) /\ StopStep(d) /\ QueueStep(d) /\ WarnStep(d)
        BY <3>2, <4>1
           DEF KeepStep, StopStep, QueueStep, WarnStep, Unanswered, Pending, ConnectionOK,
               AnswersOwn, StopLabels, Cleared
      <4> QED BY <4>1, <4>2, <4>3, <4>4 DEF Keeps, KillLabels
    <3> QED BY <1>2, <3>1, <3>2 DEF AcceptEnds
  <2> QED BY <2>1, <2>2, MainStays DEF KeptStep
<1>3. CASE SendFatal
  <2>1. UNCHANGED <<shuttingDown, handler, stats>> /\ main.pc = "fatalSend" /\ shuttingDown
    BY <1>3 DEF SendFatal, sharedVars, MainAt, KeptInv, ShutdownIsKnown
  <2>2. CASE main.queue = <<>>
    <3>1. UNCHANGED link /\ main'.pc = "fatalClear"
      BY <1>0, <1>3, <2>2 DEF SendFatal, MainGoto
    <3>2. MainKeeps
      BY <2>1, <3>1 DEF MainKeeps
    <3> QED BY <1>1, <2>1, <3>1, <3>2
  <2>3. CASE main.queue # <<>>
    <3> DEFINE e == Head(main.queue)
    <3>1. link' = Sent(e, Plain("fatal")) /\ main' = [main EXCEPT !.queue = Tail(@)]
      BY <1>3, <2>3 DEF SendFatal
    <3>2. e \in Conns /\ e \in Box(main.queue) /\ Box(Tail(main.queue)) \subseteq Box(main.queue)
      BY <1>0, <2>3, BoxFacts
    <3>3. MainKeeps
      BY <1>0, <2>1, <3>1, <3>2 DEF MainKeeps
    <3>4. Begun(e) /\ Warned(handler[e].owned)
      BY <2>1, <3>2 DEF KeptInv, QueuedHaveBegun, Warned
    <3> HIDE DEF e
    <3>5. ASSUME NEW d \in Conns PROVE Keeps(d)
      BY <2>1, <3>1, <3>2, <3>4, SendKeeps DEF KeepsJob
    <3> QED BY <3>3, <3>5 DEF KeptStep
  <2> QED BY <2>2, <2>3
<1>4. CASE FatalSnapshots
  <2>1. PICK queue \in OwnerQueues : main' = [pc |-> "fatalSend", queue |-> queue]
    BY <1>4 DEF FatalSnapshots
  <2>2. UNCHANGED <<shuttingDown, handler, link, stats>> /\ shuttingDown
    BY <1>4 DEF FatalSnapshots, sharedVars, MainAt, KeptInv, ShutdownIsKnown
  <2>3. MainKeeps
    BY <1>0, <2>1, <2>2, SnapshotFacts DEF MainKeeps
  <2> QED BY <1>1, <2>2, <2>3
<1>5. CASE MainFindsExit \/ FatalClears \/ MainLeavesLoop \/ MainStopsCloudflared
  <2>1. /\ UNCHANGED <<handler, link, stats>> /\ (shuttingDown => shuttingDown')
        /\ \/ main'.pc = "fatalSnapshot" /\ shuttingDown'
           \/ main'.pc \in {"fatalCancel", "stopping", "draining"}
    BY <1>0, <1>5
       DEF MainFindsExit, FatalClears, MainLeavesLoop, MainStopsCloudflared, MainGoto, sharedVars
  <2>2. MainKeeps
    BY <2>1 DEF MainKeeps
  <2> QED BY <1>1, <2>1, <2>2
<1>6. CASE IdleElapses \/ IdleStep \/ KillDelayEnds \/ CloudflaredExits \/ Cancelled
  <2>1. UNCHANGED <<handler, link, stats, main>> /\ (shuttingDown => shuttingDown')
    BY <1>6
       DEF IdleElapses, IdleStep, IdleExpires, IdleShutsDown, IdleCancelled, KillDelayEnds,
           CloudflaredExits, Cancelled, sharedVars, taskVars
  <2> QED BY <1>1, <2>1, MainStays
<1> QED BY <1>2, <1>3, <1>4, <1>5, <1>6

------------------------------------------------------------------------------
(* The processes. *)

(* A process shortens its outbox, remembers the session it was told, and names that one. *)
ClientEffect(c) ==
    /\ OnlyLink(c) /\ \A d \in Conns \ {c} : client'[d] = client[d]
    /\ client[c].state # "new" /\ client'[c].state # "new"
    /\ link'[c].writer = link[c].writer
    /\ Box(link'[c].outbox) \subseteq Box(link[c].outbox)
    /\ link[c].outbox = <<>> => link'[c].outbox = <<>>
    /\ \/ client'[c].session = client[c].session
       \/ \E m \in Box(link[c].outbox) : m.type = "registered" /\ client'[c].session = m.session
    /\ \/ link'[c].inbox = link[c].inbox
       \/ \E m : /\ m.type \in SessionTypes /\ m.session = client[c].session
                 /\ client[c].session \in Sessions
                 /\ Box(link'[c].inbox) = Box(link[c].inbox) \cup {m}

(* What a client may do, reduced to its channels and its state. *)
LEMMA ClientEffects ==
    ASSUME IInv, NEW c \in Conns, ClientReads(c) \/ ClientOccurrence(c)
    PROVE  ClientEffect(c)
<1> DEFINE box == link[c].outbox
           Kept(unread) == Box(unread) \subseteq Box(box) /\ (box = <<>> => unread = <<>>)
<1>1. /\ link \in [Conns -> Link] /\ box \in Seq(ServerMessage)
      /\ client \in [Conns -> ClientState]
      /\ link[c].inbox \in Seq(ClientMessage)
      /\ Is(c, "forwarding") => client[c].session \in Sessions
  BY DEF IInv, Typed, SystemTypeOK, TypeOK, Link, OwnersKnowSessions, Is
<1>2. /\ Kept(<<>>) /\ Kept(box)
      /\ box # <<>> => Kept(Tail(box)) /\ Head(box) \in Box(box)
  BY <1>1, BoxFacts
<1>3. \A type \in SessionTypes, n \in Sessions :
          LET m == [type |-> type, session |-> n]
          IN Box(Append(link[c].inbox, m)) = Box(link[c].inbox) \cup {m}
  <2>1. ASSUME NEW type \in SessionTypes, NEW n \in Sessions
        PROVE  [type |-> type, session |-> n] \in ClientMessage
    BY DEF SessionTypes, ClientMessage, SessionMessage
  <2>2. ASSUME NEW m \in ClientMessage
        PROVE  Box(Append(link[c].inbox, m)) = Box(link[c].inbox) \cup {m}
    BY <1>1, <2>2, BoxFacts
  <2> QED BY <2>1, <2>2
<1>4. ASSUME NEW state \in {"forwarding", "unregistering", "succeeded", "failed"},
             Become(c, state)
      PROVE  /\ \A d \in Conns \ {c} : client'[d] = client[d]
             /\ client'[c].state # "new" /\ client'[c].session = client[c].session
  BY <1>1, <1>4 DEF Become, ClientState
<1>5. ASSUME NEW unread, NEW state \in {"succeeded", "failed"}, Exit(c, state, unread),
             Kept(unread), ~Is(c, "new")
      PROVE  ClientEffect(c)
  <2>1. PICK left \in {unread, <<>>} :
            link' = [link EXCEPT ![c].peer = "closed", ![c].outbox = left]
    BY <1>5 DEF Exit
  <2>2. /\ OnlyLink(c) /\ link'[c].writer = link[c].writer /\ link'[c].inbox = link[c].inbox
        /\ link'[c].outbox = left
    BY <1>1, <2>1 DEF OnlyLink, Link
  <2>3. Become(c, state)
    BY <1>5 DEF Exit
  <2> QED BY <1>2, <1>4, <1>5, <2>2, <2>3 DEF ClientEffect, Is
<1>6. ASSUME NEW unread, Unregister(c, unread), Kept(unread), Is(c, "forwarding")
      PROVE  ClientEffect(c)
  <2>1. CASE ServerEndClosed(c)
    BY <1>5, <1>6, <2>1 DEF Unregister, Is
  <2>2. CASE ~ServerEndClosed(c)
    <3> DEFINE m == [type |-> "unregister", session |-> client[c].session]
    <3>1. /\ Become(c, "unregistering")
          /\ link' = [link EXCEPT ![c].outbox = unread, ![c].inbox = Append(@, m)]
      BY <1>6, <2>2 DEF Unregister
    <3>2. /\ OnlyLink(c) /\ link'[c].writer = link[c].writer
          /\ link'[c].inbox = Append(link[c].inbox, m) /\ link'[c].outbox = unread
      BY <1>1, <3>1 DEF OnlyLink, Link
    <3>3. /\ client[c].session \in Sessions /\ m.type \in SessionTypes
          /\ m.session = client[c].session
          /\ Box(link'[c].inbox) = Box(link[c].inbox) \cup {m}
      BY <1>1, <1>3, <1>6, <3>2 DEF SessionTypes
    <3> HIDE DEF m
    <3> QED BY <1>4, <1>6, <3>1, <3>2, <3>3 DEF ClientEffect, Is
  <2> QED BY <2>1, <2>2
<1>7. CASE OwnerIsKilled(c)
  <2> DEFINE m == [type |-> "terminateAcknowledged", session |-> client[c].session]
  <2>1. /\ Become(c, "succeeded") /\ Is(c, "forwarding") /\ box # <<>>
        /\ link' = [link EXCEPT ![c].peer = "closed", ![c].outbox = Tail(@),
                                ![c].inbox = IF ServerEndClosed(c) THEN @ ELSE Append(@, m)]
    BY <1>7 DEF OwnerIsKilled, Incoming
  <2>2. /\ OnlyLink(c) /\ link'[c].writer = link[c].writer /\ link'[c].outbox = Tail(box)
        /\ link'[c].inbox = link[c].inbox \/ link'[c].inbox = Append(link[c].inbox, m)
    BY <1>1, <2>1 DEF OnlyLink, Link
  <2>3. /\ client[c].session \in Sessions /\ m.type \in SessionTypes
        /\ m.session = client[c].session
        /\ Box(Append(link[c].inbox, m)) = Box(link[c].inbox) \cup {m}
    BY <1>1, <1>3, <2>1 DEF SessionTypes
  <2> HIDE DEF m
  <2> QED BY <1>2, <1>4, <2>1, <2>2, <2>3 DEF ClientEffect, Is
<1>8. CASE OwnerIsRegistered(c)
  <2>1. /\ Is(c, "requested") /\ box # <<>> /\ Head(box).type = "registered"
        /\ client' = [client EXCEPT ![c].state = "forwarding", ![c].session = Head(box).session]
        /\ link' = [link EXCEPT ![c].outbox = Tail(@)]
    BY <1>8 DEF OwnerIsRegistered, Incoming, Read
  <2>2. /\ OnlyLink(c) /\ link'[c].writer = link[c].writer /\ link'[c].inbox = link[c].inbox
        /\ link'[c].outbox = Tail(box)
    BY <1>1, <2>1 DEF OnlyLink, Link
  <2>3. /\ \A d \in Conns \ {c} : client'[d] = client[d]
        /\ client'[c].state = "forwarding" /\ client'[c].session = Head(box).session
    BY <1>1, <2>1 DEF ClientState
  <2> QED BY <1>2, <2>1, <2>2, <2>3 DEF ClientEffect, Is
<1>9. CASE OwnerSkips(c)
  <2>1. /\ ~Is(c, "new") /\ box # <<>> /\ UNCHANGED client
        /\ link' = [link EXCEPT ![c].outbox = Tail(@)]
    BY <1>9 DEF OwnerSkips, Incoming, Read, Is
  <2>2. /\ OnlyLink(c) /\ link'[c].writer = link[c].writer /\ link'[c].inbox = link[c].inbox
        /\ link'[c].outbox = Tail(box)
    BY <1>1, <2>1 DEF OnlyLink, Link
  <2> QED BY <1>2, <2>1, <2>2 DEF ClientEffect, Is
<1>10. CASE OwnerIsStopped(c) \/ OwnerInterrupted(c)
  BY <1>2, <1>6, <1>10 DEF OwnerIsStopped, OwnerInterrupted, Incoming
<1>11. CASE OwnerIsNotRegistered(c) \/ OwnerFails(c) \/ OwnerLeaves(c) \/ RequestIsAnswered(c)
  <2>1. PICK state \in {"succeeded", "failed"} :
            box # <<>> /\ ~Is(c, "new") /\ ReadAndExit(c, state)
    BY <1>11
       DEF OwnerIsNotRegistered, OwnerFails, OwnerLeaves, RequestIsAnswered, Incoming, Is
  <2> QED BY <1>2, <1>5, <2>1 DEF ReadAndExit
<1>12. CASE ConnectionLost(c) \/ ClientCrashes(c)
  BY <1>2, <1>5, <1>12 DEF ConnectionLost, ClientCrashes, Open
<1> QED BY <1>7, <1>8, <1>9, <1>10, <1>11, <1>12 DEF ClientReads, ClientOccurrence

(* A client connects, reads, is interrupted or killed: its route keeps its keeper. *)
LEMMA ClientKept ==
    ASSUME IInv, SessionInv, KeptInv, NEW c \in Conns,
           Connect(c) \/ ClientReads(c) \/ ClientOccurrence(c)
    PROVE  KeptStep
<1>0. /\ handler \in [Conns -> Handler] /\ link \in [Conns -> Link]
      /\ client \in [Conns -> ClientState] /\ ConnectionOK(c)
      /\ UNCHANGED <<shuttingDown, main, stats>>
  BY DEF IInv, Typed, SystemTypeOK, TypeOK, KeptInv, Connect, ClientReads, ClientOccurrence,
         sharedVars, taskVars
<1>1. CASE Connect(c)
  <2>1. PICK m \in Requests[c] :
            /\ client' = [client EXCEPT ![c].request = m.type, ![c].state = "requested"]
            /\ link' = [link EXCEPT ![c].peer = "connected", ![c].inbox = <<m>>]
    BY <1>1 DEF Connect
  <2>2. /\ client[c].state = "new" /\ handler[c].pc \in Absent /\ Goto(c, "backlog")
    BY <1>1 DEF Connect, Is, Goto, IInv, NewAreAbsent
  <2>3. m.type \in RequestTypes /\ Box(<<m>>) = {m} /\ Tail(<<m>>) = <<>>
    <3>1. m \in Request
      BY RequestsAssumption
    <3>2. m.type \in RequestTypes
      BY <3>1 DEF Request, RegisterMessage, StopMessage, PlainMessage, RequestTypes
    <3>3. Box(<<m>>) = {m}
      BY DEF Box
    <3> QED BY <3>2, <3>3
  <2>4. /\ OnlyHandler(c) /\ KeepsJob(c) /\ handler'[c].pc = "backlog"
    BY <1>0, <2>2, GotoEffect
  <2>5. /\ OnlyLink(c) /\ link'[c].inbox = <<m>> /\ link'[c].outbox = link[c].outbox
        /\ link'[c].writer = link[c].writer
    BY <1>0, <2>1 DEF OnlyLink, Link
  <2>6. /\ \A d \in Conns \ {c} : client'[d] = client[d]
        /\ client'[c].state = "requested" /\ client'[c].session = client[c].session
    BY <1>0, <2>1 DEF ClientState
  <2>7. /\ Silent(c) /\ Untold(c) /\ stats[c] = NoSlug /\ handler[c].owned = NoSession
        /\ handler[c].job.type # "stop"
    BY <1>0, <2>2 DEF ConnectionOK, Fresh, AnswersOwn, StopLabels, Cleared, Absent
  <2>8. Silent(c)' /\ Untold(c)'
    BY <2>3, <2>5, <2>6, <2>7 DEF Silent, Untold, RequestTypes, SessionTypes
  <2>9. NamesOwn(c)' /\ AnswersOwn(handler'[c])
    BY <2>4, <2>7 DEF NamesOwn, AnswersOwn, KeepsJob, StopLabels, KillLabels
  <2>10. ConnectionOK(c)'
    BY <1>0, <2>3, <2>4, <2>5, <2>6, <2>7, <2>8, <2>9
       DEF ConnectionOK, Fresh, BeforeRequest, BeforeAnswer, Unanswered, KeepsJob
  <2>11. KeepStep(c) /\ StopStep(c) /\ QueueStep(c) /\ WarnStep(c) /\ ~Begun(c)
    BY <2>2, <2>4, <2>7
       DEF KeepStep, StopStep, QueueStep, WarnStep, Unanswered, Pending, Begun
  <2>12. Keeps(c)
    BY <2>4, <2>10, <2>11 DEF Keeps, KillLabels
  <2> QED BY <1>0, <2>4, <2>5, <2>6, <2>12, OneKeeps
<1>2. CASE ClientReads(c) \/ ClientOccurrence(c)
  <2>1. ClientEffect(c) /\ UNCHANGED handler
    BY <1>2, ClientEffects DEF ClientReads, ClientOccurrence
  <2>2. Unread(c)' => Unread(c) /\ link'[c].inbox = link[c].inbox
    BY <1>0, <2>1
       DEF ClientEffect, ConnectionOK, BeforeRequest, Unread, Untold, SessionTypes, RequestTypes,
           Sessions, NoSession
  <2>3. (Silent(c) => Silent(c)') /\ (Silent(c) /\ Untold(c) => link'[c].outbox = <<>>)
    BY <2>1 DEF ClientEffect, Silent
  <2>4. Untold(c) => Untold(c)'
    <3>1. Untold(c) => client'[c].session = NoSession /\ link'[c].inbox = link[c].inbox
      BY <2>1 DEF ClientEffect, Untold, Sessions, NoSession
    <3> QED BY <2>1, <3>1 DEF ClientEffect, Untold
  <2>5. NamesOwn(c)'
    <3>1. client'[c].session = NoSession \/ handler'[c].owned \in {NoSession, client'[c].session}
      BY <1>0, <2>1 DEF ClientEffect, ConnectionOK, NamesOwn
    <3>2. \A m \in Box(link'[c].inbox) :
              m.type \in SessionTypes => handler'[c].owned \in {NoSession, m.session}
      BY <1>0, <2>1 DEF ClientEffect, ConnectionOK, NamesOwn, Sessions, NoSession
    <3> QED BY <1>0, <2>1, <3>1, <3>2 DEF ClientEffect, ConnectionOK, NamesOwn
  <2>6. BeforeRequest(c)' /\ BeforeAnswer(c)'
    BY <1>0, <2>1, <2>2, <2>3, <2>4 DEF ConnectionOK, BeforeRequest, BeforeAnswer, Unanswered
  <2>7. ConnectionOK(c)'
    BY <1>0, <2>1, <2>5, <2>6 DEF ConnectionOK, ClientEffect, Fresh
  <2>8. KeepStep(c) /\ StopStep(c) /\ QueueStep(c) /\ WarnStep(c)
    BY <2>1, <2>3 DEF KeepStep, StopStep, QueueStep, WarnStep, Unanswered, Serving
  <2>9. Begun(c) => Begun(c)'
    BY <2>1, <2>2 DEF Begun, ClientEffect
  <2>10. handler'[c].pc \in KillLabels => shuttingDown'
    BY <1>0, <2>1 DEF KeptInv, ShutdownIsKnown
  <2>11. Keeps(c)
    BY <2>7, <2>8, <2>9, <2>10 DEF Keeps
  <2> QED BY <1>0, <2>1, <2>11, OneKeeps DEF ClientEffect, OnlyHandler
<1> QED BY <1>1, <1>2

------------------------------------------------------------------------------
(* The end of the process, and the theorem. *)

(* When the process ends there is no route and no handler any more. *)
LEMMA ProcessEndsKept ==
    ASSUME KeptInv, ProcessEnds, UNCHANGED client
    PROVE  KeptInv'
<1>1. /\ \A d \in Conns : /\ handler'[d].pc = "gone" /\ handler'[d].owned = NoSession
                          /\ handler'[d].reply = Plain("none") /\ handler'[d].job = NoJob
                          /\ stats'[d] = NoSlug
      /\ registry' = EmptyRegistry
      /\ \A n \in Sessions : owners'[n] = NoConn
      /\ main'.pc = "exited"
      /\ UNCHANGED <<link, client>>
  BY DEF ProcessEnds, Rest, NoHandler
<1>2. RouteSessions' = {}
  BY <1>1, ClearLeavesNoRoute
<1>3. ASSUME NEW d \in Conns PROVE ConnectionOK(d)'
  <2>1. ConnectionOK(d)
    BY DEF KeptInv
  <2> QED BY <1>1, <2>1
          DEF ConnectionOK, Fresh, BeforeRequest, BeforeAnswer, NamesOwn, AnswersOwn, Untold,
              Unread, Silent, Unanswered, NoJob, StopLabels, KillLabels, Cleared
<1>4. StoredHaveBegun' /\ QueuedHaveBegun' /\ StopsReachOwners' /\ ShutdownIsKnown'
  BY <1>1 DEF StoredHaveBegun, QueuedHaveBegun, StopsReachOwners, ShutdownIsKnown, KillLabels
<1>5. WarnedBeforeAnswer'
  BY <1>1 DEF WarnedBeforeAnswer, Unanswered
<1>6. RoutesAreKept'
  BY <1>2, HasRouteIs DEF RoutesAreKept
<1> QED BY <1>3, <1>4, <1>5, <1>6 DEF KeptInv

(* A fresh daemon has no connection and no route. *)
LEMMA KeptInvInit == Init => KeptInv
<1> SUFFICES ASSUME Init PROVE KeptInv
  OBVIOUS
<1>1. /\ \A d \in Conns : /\ handler[d] = NoHandler /\ link[d] = NoLink /\ stats[d] = NoSlug
                          /\ client[d].session = NoSession
      /\ registry = EmptyRegistry
      /\ \A n \in Sessions : owners[n] = NoConn
      /\ main.pc = "polling"
  BY DEF Init, DaemonInit
<1>2. ASSUME NEW d \in Conns
      PROVE  ConnectionOK(d) /\ ~Unanswered(d) /\ handler[d].pc = "absent"
  <2>1. /\ handler[d].pc = "absent" /\ handler[d].owned = NoSession /\ handler[d].job = NoJob
        /\ link[d].inbox = <<>> /\ link[d].outbox = <<>> /\ link[d].writer
    BY <1>1 DEF NoHandler, NoLink
  <2>2. Silent(d) /\ Untold(d) /\ ~Unread(d)
    BY <1>1, <2>1 DEF Silent, Untold, Unread, Box
  <2> QED BY <1>1, <2>1, <2>2
          DEF ConnectionOK, Fresh, BeforeRequest, BeforeAnswer, NamesOwn, AnswersOwn, Untold,
              Unanswered, NoJob, StopLabels, KillLabels
<1>3. StoredHaveBegun /\ QueuedHaveBegun /\ StopsReachOwners /\ ShutdownIsKnown
  BY <1>1, <1>2 DEF StoredHaveBegun, QueuedHaveBegun, StopsReachOwners, ShutdownIsKnown, KillLabels
<1>4. WarnedBeforeAnswer
  BY <1>2 DEF WarnedBeforeAnswer
<1>5. RoutesAreKept
  BY <1>1 DEF RoutesAreKept, HasRoute, EmptyRegistry
<1> QED BY <1>2, <1>3, <1>4, <1>5 DEF KeptInv

(* Every step is the end of the process or a session step that keeps the keepers. *)
LEMMA KeptSteps ==
    ASSUME IInv, SessionInv, KeptInv, [Next]_vars
    PROVE  (ProcessEnds /\ UNCHANGED client) \/ (SessionStep /\ KeptStep)
<1>1. CASE DaemonNext /\ UNCHANGED client
  <2>1. ASSUME NEW c \in Conns, HandlerStep(c) \/ StatsTick(c) \/ WriterFails(c) \/ ReadError(c)
        PROVE  SessionStep /\ KeptStep
    <3>1. SessionStep
      BY <2>1, RegisterSessionStep, ReadSessionStep, RemoveSessionStep, StopSessionStep,
         TerminateSessionStep, KillSessionStep, ReplySessionStep DEF HandlerStep
    <3>2. KeptStep
      BY <1>1, <2>1, RegisterKept, ReadKept, RemoveKept, StopKept, TerminateKept, KillKept,
         ReplyKept, ChannelKept DEF HandlerStep
    <3> QED BY <3>1, <3>2
  <2>2. CASE \/ IdleElapses \/ IdleStep \/ KillDelayEnds \/ AcceptEnds
             \/ CloudflaredExits \/ Cancelled
             \/ MainFindsExit \/ FatalSnapshots \/ SendFatal \/ FatalClears \/ MainLeavesLoop
             \/ MainStopsCloudflared
    BY <1>1, <2>2, TaskKept, TaskSessionStep
  <2>3. CASE MainExits \/ DaemonCrashes
    BY <1>1, <2>3 DEF MainExits, DaemonCrashes
  <2> QED BY <1>1, <2>1, <2>2, <2>3 DEF DaemonNext, Occurrence, MainStep
<1>2. CASE \E c \in Conns : Connect(c) \/ ClientReads(c) \/ ClientOccurrence(c)
  BY <1>2, ClientKept, ClientSessionStep
<1>3. CASE UNCHANGED vars
  <2>1. SessionStep
    BY <1>3, NobodyMoves, SameLinkNoFinals DEF vars, daemonVars, sharedVars
  <2>2. KeptStep
    BY <1>3, SameKeeps, MainStays DEF KeptStep, vars, daemonVars, sharedVars, taskVars
  <2> QED BY <2>1, <2>2
<1> QED BY <1>1, <1>2, <1>3 DEF Next

(* The invariant is inductive, given those of the refinement and of the sessions. *)
LEMMA KeptInvNext == IInv /\ SessionInv /\ KeptInv /\ [Next]_vars => KeptInv'
<1> SUFFICES ASSUME IInv, SessionInv, KeptInv, [Next]_vars PROVE KeptInv'
  OBVIOUS
<1>1. IInv' /\ owners \in [Sessions -> Conns \cup {NoConn}]
  BY IInvNext DEF IInv, Typed, SystemTypeOK, TypeOK
<1> QED BY <1>1, KeptSteps, ProcessEndsKept, KeptStepKeeps

(* The invariant holds in every behaviour. *)
LEMMA KeptInvariant == Safety => []KeptInv
<1>1. KeptInv /\ IInv /\ SessionInv /\ [Next]_vars => KeptInv'
  BY KeptInvNext
<1> QED BY <1>1, KeptInvInit, SessionInvariant, IInvInvariant, PTL DEF Safety

(* In every behaviour in which no frame is unreadable, every route belongs to a session somebody   *)
(* will still take off: a handler that serves its owner, a `stop` that has begun, or the shutdown, *)
(* which clears them all.  The other error of the reader ends the handler without its cleanup      *)
(* (mod.rs:244-251), and no client of this code sends such a frame.                                *)
THEOREM RoutesHaveKeepers ==
    ASSUME "readError" \notin Events
    PROVE  Safety => []RoutesAreKept
<1>1. KeptInv => RoutesAreKept
  BY DEF KeptInv
<1> QED BY <1>1, KeptInvariant, PTL

------------------------------------------------------------------------------
(* Sessions are private: what can name a session on a connection.  A reply that names one names    *)
(* the one its handler owns, so it adds nothing.                                                   *)

NamedIn(box, n) == \E m \in box : m.type \in NamingTypes /\ m.session = n

Names(c, n) ==
    \/ client[c].session = n
    \/ handler[c].owned = n
    \/ handler[c].pc = "regRoute" /\ handler[c].target = n
    \/ NamedIn(Box(link[c].inbox), n)
    \/ NamedIn(Box(link[c].outbox), n)

RepliesOwn(h) == h.pc = "reply" /\ h.reply.type \in NamingTypes => h.reply.session = h.owned

NamesInv ==
    /\ \A c \in Conns : RepliesOwn(handler[c])
    /\ \A c \in Conns, n \in Sessions : Names(c, n) => n <= issued
    /\ \A c, d \in Conns, n \in Sessions : Names(c, n) /\ Names(d, n) => c = d
    /\ \A c \in Conns, n, k \in Sessions : Names(c, n) /\ Names(c, k) => n = k

(* A connection comes to name a session only as a number nobody had, and if it named none. *)
NamesStep(c) ==
    /\ RepliesOwn(handler'[c])
    /\ \A n \in Sessions : Names(c, n)' =>
          \/ Names(c, n)
          \/ /\ n = issued + 1 /\ handler'[c].pc = "regRoute" /\ handler'[c].target = n
             /\ \A k \in Sessions : ~Names(c, k)

(* Steps like these keep the invariant: numbers are handed out in order, one to each handler. *)
LEMMA NamesStepKeeps ==
    ASSUME IInv, IInv', SessionStep, NamesInv, \A c \in Conns : NamesStep(c)
    PROVE  NamesInv'
<1>1. issued \in Nat /\ issued' \in Nat /\ issued <= issued' /\ Sessions \subseteq Nat
  BY SessionFacts, MaxSessionAssumption DEF IInv, Typed, SystemTypeOK, TypeOK, SessionStep
<1>2. ASSUME NEW c \in Conns, NEW n \in Sessions, Names(c, n)'
      PROVE  \/ Names(c, n) /\ n <= issued
             \/ /\ n = issued + 1 /\ handler'[c].pc = "regRoute" /\ handler'[c].target = n
                /\ \A k \in Sessions : ~Names(c, k)
  BY <1>2 DEF NamesStep, NamesInv
<1>3. ASSUME NEW c \in Conns, NEW n \in Sessions, Names(c, n)' PROVE n <= issued'
  <2>1. CASE n <= issued
    BY <1>1, <2>1
  <2>2. CASE handler'[c].target = n
    BY <2>2 DEF IInv, SessionsAreIssued
  <2> QED BY <1>2, <1>3, <2>1, <2>2
<1>4. ASSUME NEW c \in Conns, NEW d \in Conns, NEW n \in Sessions, Names(c, n)', Names(d, n)'
      PROVE  c = d
  <2>1. CASE n <= issued
    <3>1. n # issued + 1
      BY <1>1, <2>1
    <3> QED BY <1>2, <1>4, <3>1 DEF NamesInv
  <2>2. CASE n = issued + 1
    <3>1. ~(n <= issued)
      BY <1>1, <2>2
    <3>2. /\ handler'[c].pc = "regRoute" /\ handler'[d].pc = "regRoute"
          /\ handler'[c].target = handler'[d].target
      BY <1>2, <1>4, <3>1
    <3> QED BY <3>2 DEF IInv, WaitersAreDistinct
  <2> QED BY <1>2, <1>4, <2>1, <2>2
<1>5. ASSUME NEW c \in Conns, NEW n \in Sessions, NEW k \in Sessions, Names(c, n)', Names(c, k)'
      PROVE  n = k
  BY <1>2, <1>5 DEF NamesInv
<1>6. \A c \in Conns : RepliesOwn(handler'[c])
  BY DEF NamesStep
<1> QED BY <1>3, <1>4, <1>5, <1>6 DEF NamesInv

(* What a step of the daemon does to one connection. *)
Shortens(c) ==
    /\ Box(link'[c].inbox) \subseteq Box(link[c].inbox)
    /\ \A m \in Box(link'[c].outbox) :
          \/ m \in Box(link[c].outbox)
          \/ m.type \notin NamingTypes
          \/ handler[c].pc = "reply" /\ m = handler[c].reply

DaemonNames(c) ==
    /\ Shortens(c)
    /\ RepliesOwn(handler'[c])
    /\ handler'[c].pc = "regRoute" =>
          \/ handler[c].pc = "regRoute" /\ handler'[c].target = handler[c].target
          \/ Unread(c) /\ handler[c].pc = "reading" /\ handler'[c].target = issued + 1

(* Before its request is read nothing on a connection names a session. *)
LEMMA UnreadNamesNone ==
    ASSUME IInv, KeptInv, NEW c \in Conns, Unread(c), handler[c].pc = "reading",
           NEW k \in Sessions
    PROVE  ~Names(c, k)
<1>1. /\ handler[c].owned = NoSession /\ Tail(link[c].inbox) = <<>> /\ Silent(c) /\ Untold(c)
  BY DEF KeptInv, ConnectionOK, BeforeRequest
<1>2. k # NoSession
  BY SessionFacts
<1>3. link[c].inbox \in Seq(ClientMessage)
  BY DEF IInv, Typed, SystemTypeOK, TypeOK, Link
<1>4. \A m \in Box(link[c].inbox) : m.type \notin NamingTypes
  <2> SUFFICES ASSUME NEW m \in Box(link[c].inbox) PROVE m.type \notin NamingTypes
    OBVIOUS
  <2>1. m \in ClientMessage
    BY <1>3 DEF Box
  <2>2. m.type \in RequestTypes \cup SessionTypes
    BY <2>1
       DEF ClientMessage, RegisterMessage, SessionMessage, StopMessage, PlainMessage, RequestTypes,
           SessionTypes
  <2>3. m.type \in RequestTypes
    BY <1>1, <2>2 DEF Untold
  <2> QED BY <2>3 DEF RequestTypes, NamingTypes
<1>5. Box(link[c].outbox) = {}
  BY <1>1 DEF Silent, Box
<1> QED BY <1>1, <1>2, <1>4, <1>5 DEF Names, NamedIn, Untold

(* A session step that is one of these keeps the names. *)
LEMMA DaemonNamesStep ==
    ASSUME IInv, SessionInv, KeptInv, NamesInv, UNCHANGED client, NEW c \in Conns,
           OwnedStep(c), DaemonNames(c)
    PROVE  NamesStep(c)
<1> SUFFICES ASSUME NEW n \in Sessions, Names(c, n)', ~Names(c, n)
             PROVE  /\ n = issued + 1 /\ handler'[c].pc = "regRoute" /\ handler'[c].target = n
                    /\ \A k \in Sessions : ~Names(c, k)
  BY DEF NamesStep, DaemonNames
<1>1. n # NoSession
  BY SessionFacts
<1>2. ~NamedIn(Box(link'[c].inbox), n)
  BY DEF DaemonNames, Shortens, NamedIn, Names
<1>3. ~NamedIn(Box(link'[c].outbox), n)
  <2> SUFFICES ASSUME NEW m \in Box(link'[c].outbox), m.type \in NamingTypes, m.session = n
               PROVE  FALSE
    BY DEF NamedIn
  <2>1. CASE m \in Box(link[c].outbox)
    BY <2>1 DEF Names, NamedIn
  <2>2. CASE handler[c].pc = "reply" /\ m = handler[c].reply
    BY <2>2 DEF NamesInv, RepliesOwn, Names
  <2> QED BY <2>1, <2>2 DEF DaemonNames, Shortens
<1>4. handler'[c].owned # n
  BY <1>1 DEF OwnedStep, Names
<1>5. handler'[c].pc = "regRoute" /\ handler'[c].target = n
  BY <1>2, <1>3, <1>4 DEF Names
<1>6. Unread(c) /\ handler[c].pc = "reading" /\ n = issued + 1
  BY <1>5 DEF DaemonNames, Names
<1> QED BY <1>5, <1>6, UnreadNamesNone

(* Only one handler moves and only one connection's channels do. *)
LEMMA OneNames ==
    ASSUME NamesInv, NEW c \in Conns, OnlyHandler(c), OnlyLink(c), DaemonNames(c)
    PROVE  \A d \in Conns : DaemonNames(d)
<1> SUFFICES ASSUME NEW d \in Conns \ {c} PROVE DaemonNames(d)
  OBVIOUS
<1>1. handler'[d] = handler[d] /\ link'[d] = link[d]
  BY DEF OnlyHandler, OnlyLink
<1> QED BY <1>1 DEF DaemonNames, Shortens, NamesInv

(* A handler moves on without an answer. *)
LEMMA MovedNames ==
    ASSUME NamesInv, NEW c \in Conns, OnlyHandler(c), UNCHANGED link,
           handler'[c].pc \notin {"regRoute", "reply"}
    PROVE  \A d \in Conns : DaemonNames(d)
<1>1. OnlyLink(c) /\ DaemonNames(c)
  BY DEF OnlyLink, DaemonNames, Shortens, RepliesOwn
<1> QED BY <1>1, OneNames

(* A handler goes to a label at which it neither registers nor answers. *)
LEMMA GotoNames ==
    ASSUME IInv, NamesInv, NEW c \in Conns, UNCHANGED link, NEW label, Goto(c, label),
           label \notin {"regRoute", "reply"}
    PROVE  \A d \in Conns : DaemonNames(d)
<1>1. OnlyHandler(c) /\ handler'[c].pc = label
  BY GotoEffect DEF IInv, Typed, SystemTypeOK, TypeOK
<1> QED BY <1>1, MovedNames

(* An answer that names no session, or the handler's own. *)
LEMMA AnswerNames ==
    ASSUME IInv, NamesInv, NEW c \in Conns, OnlyLink(c), Shortens(c), NEW m, GotoReply(c, m),
           m.type \notin NamingTypes \/ m.session = handler[c].owned
    PROVE  \A d \in Conns : DaemonNames(d)
<1>1. /\ OnlyHandler(c) /\ KeepsJob(c) /\ handler'[c].pc = "reply" /\ handler'[c].reply = m
  BY ReplyEffect DEF IInv, Typed, SystemTypeOK, TypeOK
<1>2. DaemonNames(c)
  BY <1>1 DEF DaemonNames, RepliesOwn, KeepsJob
<1> QED BY <1>1, <1>2, OneNames

(* A message is read and becomes the job, or is ignored, or refused. *)
LEMMA ReadNames ==
    ASSUME IInv, SessionInv, KeptInv, NamesInv, NEW c \in Conns,
           \/ ReadRegister(c) \/ ReadUnregister(c) \/ ReadAcknowledged(c) \/ ReadList(c)
           \/ ReadStop(c) \/ ReadKill(c)
    PROVE  \A d \in Conns : DaemonNames(d)
<1> DEFINE m == Head(link[c].inbox)
<1>0. link \in [Conns -> Link] /\ handler \in [Conns -> Handler]
  BY DEF IInv, Typed, SystemTypeOK, TypeOK
<1>1. PICK types : /\ Receive(c, types)
                   /\ ReadRegister(c) => types = {"register"}
  <2>1. CASE ReadRegister(c)
    BY <2>1 DEF ReadRegister
  <2>2. CASE ~ReadRegister(c)
    BY <2>2 DEF ReadUnregister, ReadAcknowledged, ReadList, ReadStop, ReadKill
  <2> QED BY <2>1, <2>2
<1>2. /\ OnlyLink(c) /\ handler[c].pc = "reading" /\ m \in Box(link[c].inbox) /\ m.type \in types
      /\ Box(link'[c].inbox) \subseteq Box(link[c].inbox) /\ link'[c].outbox = link[c].outbox
  BY <1>0, <1>1, ReceiveEffect
<1>3. Shortens(c)
  BY <1>2 DEF Shortens
<1>4. /\ Plain("error").type \notin NamingTypes /\ Plain("routeList").type \notin NamingTypes
  BY PlainFacts DEF NamingTypes
<1>5. ASSUME NEW label, NEW n, Begin(c, label, n), label \notin {"regRoute", "reply"}
      PROVE  \A d \in Conns : DaemonNames(d)
  <2>1. OnlyHandler(c) /\ handler'[c].pc = label
    BY <1>0, <1>5, BeginEffect
  <2>2. DaemonNames(c)
    BY <1>3, <1>5, <2>1 DEF DaemonNames, RepliesOwn
  <2> QED BY <1>2, <2>1, <2>2, OneNames
<1>6. CASE Refuse(c)
  BY <1>2, <1>3, <1>4, <1>6, RefuseIsReply, AnswerNames
<1>7. CASE UNCHANGED handler
  <2>1. OnlyHandler(c) /\ DaemonNames(c)
    BY <1>2, <1>3, <1>7 DEF OnlyHandler, DaemonNames, RepliesOwn
  <2> QED BY <1>2, <2>1, OneNames
<1>8. CASE ReadRegister(c) /\ ~Refuse(c)
  <2>1. Begin(c, "regRoute", issued + 1)
    BY <1>8 DEF ReadRegister
  <2>2. OnlyHandler(c) /\ handler'[c].pc = "regRoute" /\ handler'[c].target = issued + 1
    BY <1>0, <2>1, BeginEffect
  <2>3. Unread(c)
    BY <1>1, <1>2, <1>8 DEF Unread, RequestTypes
  <2>4. DaemonNames(c)
    BY <1>2, <1>3, <2>2, <2>3 DEF DaemonNames, RepliesOwn
  <2> QED BY <1>2, <2>2, <2>4, OneNames
<1>9. CASE ReadUnregister(c) \/ ReadAcknowledged(c)
  <2>1. Refuse(c) \/ UNCHANGED handler \/ Begin(c, "rmRoutes", m.session)
    BY <1>9 DEF ReadUnregister, ReadAcknowledged
  <2> QED BY <1>5, <1>6, <1>7, <2>1
<1>10. CASE ReadList(c)
  BY <1>2, <1>3, <1>4, <1>10, AnswerNames DEF ReadList
<1>11. CASE ReadStop(c)
  <2>1. Refuse(c) \/ \E n : Begin(c, "stopAck", n)
    BY <1>11 DEF ReadStop
  <2> QED BY <1>5, <1>6, <2>1
<1>12. CASE ReadKill(c)
  BY <1>5, <1>6, <1>12 DEF ReadKill
<1> QED BY <1>6, <1>8, <1>9, <1>10, <1>11, <1>12

(* A registration, once it has its number. *)
LEMMA RegisterNames ==
    ASSUME IInv, SessionInv, NamesInv, NEW c \in Conns,
           RegisterRoute(c) \/ RegisterOwner(c) \/ RegisterActive(c)
    PROVE  \A d \in Conns : DaemonNames(d)
<1>0. /\ handler \in [Conns -> Handler] /\ UNCHANGED link /\ OnlyLink(c) /\ Shortens(c)
      /\ Fits(handler[c])
  BY DEF IInv, Typed, SystemTypeOK, TypeOK, RegisterRoute, RegisterOwner, RegisterActive,
         OnlyLink, Shortens, SessionInv
<1>1. CASE RegisterRoute(c)
  <2>1. \/ GotoReply(c, Plain("error"))
        \/ \E slug, n : handler' = [handler EXCEPT ![c].pc = "regOwner", ![c].slug = slug,
                                                   ![c].owned = n]
    BY <1>1 DEF RegisterRoute
  <2>2. CASE GotoReply(c, Plain("error"))
    BY <1>0, <2>2, PlainFacts, AnswerNames DEF NamingTypes
  <2>3. ASSUME NEW slug, NEW n,
               handler' = [handler EXCEPT ![c].pc = "regOwner", ![c].slug = slug, ![c].owned = n]
        PROVE  \A d \in Conns : DaemonNames(d)
    <3>1. OnlyHandler(c) /\ handler'[c].pc = "regOwner"
      BY <1>0, <2>3 DEF OnlyHandler, Handler
    <3> QED BY <1>0, <3>1, MovedNames
  <2> QED BY <2>1, <2>2, <2>3
<1>2. CASE RegisterOwner(c)
  BY <1>0, <1>2, GotoNames DEF RegisterOwner
<1>3. CASE RegisterActive(c)
  <2>1. GotoReply(c, Msg("registered", handler[c].target)) /\ handler[c].owned = handler[c].target
    BY <1>0, <1>3 DEF RegisterActive, At, Fits
  <2>2. Msg("registered", handler[c].target).session = handler[c].owned
    BY <2>1 DEF Msg
  <2> QED BY <1>0, <2>1, <2>2, AnswerNames
<1> QED BY <1>1, <1>2, <1>3

(* The end of remove_session: Unregistered names the session of the handler that sends it. *)
LEMMA AfterRemovalNames ==
    ASSUME IInv, SessionInv, NamesInv, NEW c \in Conns, UNCHANGED link,
           handler[c].pc \in {"rmCheck", "rmIdle"},
           handler' = [handler EXCEPT ![c] = AfterRemoval(handler[c])]
    PROVE  \A d \in Conns : DaemonNames(d)
<1> DEFINE h == handler[c]
<1>0. /\ handler \in [Conns -> Handler] /\ OnlyLink(c) /\ Shortens(c) /\ Fits(h)
  BY DEF IInv, Typed, SystemTypeOK, TypeOK, OnlyLink, Shortens, SessionInv
<1>1. CASE h.job.type = "unregister"
  <2>1. GotoReply(c, Msg("unregistered", h.target)) /\ h.target = h.owned
    BY <1>0, <1>1 DEF AfterRemoval, GotoReply, Fits, Cleared
  <2>2. Msg("unregistered", h.target).session = h.owned
    BY <2>1 DEF Msg
  <2> QED BY <1>0, <2>1, <2>2, AnswerNames
<1>2. CASE h.job.type = "stop"
  <2>1. GotoReply(c, Msg("stopped", h.target))
    BY <1>2 DEF AfterRemoval, GotoReply
  <2>2. Msg("stopped", h.target).type \notin NamingTypes
    BY DEF Msg, NamingTypes
  <2> QED BY <1>0, <2>1, <2>2, AnswerNames
<1>3. CASE h.job.type \notin {"unregister", "stop"}
  <2>1. AfterRemoval(h) \in {Rest("reading", NoSession), Rest("done", NoSession)}
    BY <1>3 DEF AfterRemoval
  <2>2. OnlyHandler(c) /\ handler'[c].pc \in {"reading", "done"}
    BY <1>0, <2>1 DEF Rest, NoHandler, OnlyHandler
  <2> QED BY <2>2, MovedNames
<1> QED BY <1>1, <1>2, <1>3

(* remove_session. *)
LEMMA RemoveNames ==
    ASSUME IInv, SessionInv, NamesInv, NEW c \in Conns,
           \/ ReadDisconnect(c) \/ RemoveRoutes(c) \/ RemoveOwner(c) \/ RemoveAck(c)
           \/ CheckEmpty(c) \/ MarkIdle(c)
    PROVE  \A d \in Conns : DaemonNames(d)
<1>0. handler \in [Conns -> Handler] /\ UNCHANGED link
  BY DEF IInv, Typed, SystemTypeOK, TypeOK, ReadDisconnect, RemoveRoutes, RemoveOwner, RemoveAck,
         CheckEmpty, MarkIdle
<1>1. CASE ReadDisconnect(c)
  <2>1. OnlyHandler(c) /\ handler'[c].pc \in {"done", "rmRoutes"}
    BY <1>0, <1>1 DEF ReadDisconnect, Rest, NoHandler, OnlyHandler, Handler
  <2> QED BY <1>0, <2>1, MovedNames
<1>2. CASE RemoveRoutes(c) \/ RemoveOwner(c)
  BY <1>0, <1>2, GotoNames DEF RemoveRoutes, RemoveOwner
<1>3. CASE RemoveAck(c)
  <2> SUFFICES ASSUME NEW d \in Conns PROVE DaemonNames(d)
    OBVIOUS
  <2> DEFINE n == handler[c].target
  <2>1. handler'[d] = IF d = c THEN [handler[d] EXCEPT !.pc = "rmCheck"]
                      ELSE IF d = acks[n] /\ handler[d].pc = "stopWait"
                      THEN Replying(handler[d], Msg("stopped", handler[d].target))
                      ELSE handler[d]
    BY <1>3 DEF RemoveAck
  <2>2. handler[d] \in Handler /\ Shortens(d) /\ RepliesOwn(handler[d])
    BY <1>0 DEF Shortens, NamesInv
  <2>3. CASE handler'[d] = handler[d]
    BY <2>2, <2>3 DEF DaemonNames
  <2>4. CASE handler'[d] = [handler[d] EXCEPT !.pc = "rmCheck"]
    BY <2>2, <2>4 DEF DaemonNames, RepliesOwn, Handler
  <2>5. CASE handler'[d] = Replying(handler[d], Msg("stopped", handler[d].target))
    <3>1. handler'[d].pc = "reply" /\ handler'[d].reply.type = "stopped"
      BY <2>2, <2>5 DEF Replying, Msg, Handler
    <3> QED BY <2>2, <3>1 DEF DaemonNames, RepliesOwn, NamingTypes
  <2> QED BY <2>1, <2>3, <2>4, <2>5
<1>4. CASE CheckEmpty(c) \/ MarkIdle(c)
  <2>1. /\ handler[c].pc \in {"rmCheck", "rmIdle"}
        /\ \/ Goto(c, "rmIdle")
           \/ handler' = [handler EXCEPT ![c] = AfterRemoval(handler[c])]
    BY <1>4 DEF CheckEmpty, MarkIdle, At, Goto
  <2> QED BY <1>0, <2>1, GotoNames, AfterRemovalNames
<1> QED BY <1>1, <1>2, <1>3, <1>4

(* A message that names no session is sent, or dropped. *)
LEMMA SentNames ==
    ASSUME IInv, NEW e \in Conns, NEW type \in PlainTypes, link' = Sent(e, Plain(type)),
           NEW d \in Conns
    PROVE  OnlyLink(e) /\ Shortens(d)
<1>1. Plain(type) \in ServerMessage /\ link \in [Conns -> Link]
  BY ServerMessageKinds DEF IInv, Typed, SystemTypeOK, TypeOK
<1>2. /\ OnlyLink(e) /\ link'[e].inbox = link[e].inbox
      /\ Box(link'[e].outbox) \subseteq Box(link[e].outbox) \cup {Plain(type)}
  BY <1>1, SentEffect
<1>3. Plain(type).type \notin NamingTypes
  BY PlainFacts DEF PlainTypes, NamingTypes
<1>4. CASE d = e
  BY <1>2, <1>3, <1>4 DEF Shortens
<1>5. CASE d # e
  BY <1>2, <1>5 DEF Shortens, OnlyLink
<1> QED BY <1>2, <1>4, <1>5

(* stop_route and kill_daemon. *)
LEMMA StopNames ==
    ASSUME IInv, NamesInv, NEW c \in Conns,
           \/ Accept(c) \/ ReadError(c)
           \/ StopInsertsAck(c) \/ StopLooksUp(c) \/ StopArms(c) \/ StopTimesOut(c)
           \/ KillClears(c) \/ KillSnapshots(c)
    PROVE  \A d \in Conns : DaemonNames(d)
<1>0. handler \in [Conns -> Handler] /\ UNCHANGED link
  BY DEF IInv, Typed, SystemTypeOK, TypeOK, Accept, ReadError, StopInsertsAck, StopLooksUp,
         StopArms, StopTimesOut, KillClears, KillSnapshots
<1>1. CASE Accept(c) \/ StopInsertsAck(c) \/ StopArms(c) \/ StopTimesOut(c) \/ KillClears(c)
  BY <1>0, <1>1, GotoNames DEF Accept, StopInsertsAck, StopArms, StopTimesOut, KillClears
<1>2. CASE ReadError(c)
  <2>1. OnlyHandler(c) /\ handler'[c].pc = "failed"
    BY <1>0, <1>2 DEF ReadError, Rest, NoHandler, OnlyHandler
  <2> QED BY <1>0, <2>1, MovedNames
<1>3. CASE StopLooksUp(c) \/ KillSnapshots(c)
  <2>1. PICK label \in {"stopSend", "killSend"} :
            \E queue : handler' = [handler EXCEPT ![c].pc = label, ![c].queue = queue]
    BY <1>3 DEF StopLooksUp, KillSnapshots
  <2>2. PICK queue : handler' = [handler EXCEPT ![c].pc = label, ![c].queue = queue]
    BY <2>1
  <2>3. OnlyHandler(c) /\ handler'[c].pc = label
    BY <1>0, <2>2, QueueEffect
  <2> QED BY <1>0, <2>3, MovedNames
<1> QED BY <1>1, <1>2, <1>3

(* Terminate names no session on the connection it goes to. *)
LEMMA TerminateNames ==
    ASSUME IInv, NamesInv, NEW c \in Conns, SendTerminate(c)
    PROVE  \A d \in Conns : DaemonNames(d)
<1> DEFINE queue == handler[c].queue
<1>0. /\ handler \in [Conns -> Handler] /\ queue \in Seq(Conns)
      /\ handler[c].pc \in {"stopSend", "killSend"}
  BY DEF IInv, Typed, SystemTypeOK, TypeOK, Handler, SendTerminate, At
<1>1. CASE queue = <<>> /\ handler[c].pc = "stopSend"
  <2>1. Goto(c, "stopArm") /\ UNCHANGED link
    BY <1>1 DEF SendTerminate, Goto
  <2> QED BY <2>1, GotoNames
<1>2. CASE queue = <<>> /\ handler[c].pc = "killSend"
  <2>1. GotoReply(c, Plain("killAccepted")) /\ UNCHANGED link
    BY <1>2 DEF SendTerminate, GotoReply
  <2>2. OnlyLink(c) /\ Shortens(c)
    BY <2>1 DEF OnlyLink, Shortens
  <2>3. Plain("killAccepted").type \notin NamingTypes
    BY PlainFacts DEF NamingTypes
  <2> QED BY <2>1, <2>2, <2>3, AnswerNames
<1>3. CASE queue # <<>>
  <2> DEFINE e == Head(queue)
  <2>1. PICK type \in PlainTypes : link' = Sent(e, Plain(type))
    BY <1>3 DEF SendTerminate, PlainTypes
  <2>2. handler' = [handler EXCEPT ![c].queue = Tail(queue)]
    BY <1>3 DEF SendTerminate
  <2>3. e \in Conns
    BY <1>0, <1>3
  <2> HIDE DEF e
  <2> SUFFICES ASSUME NEW d \in Conns PROVE DaemonNames(d)
    OBVIOUS
  <2>4. Shortens(d)
    BY <2>1, <2>3, SentNames
  <2>5. /\ handler'[d].pc = handler[d].pc /\ handler'[d].owned = handler[d].owned
        /\ handler'[d].reply = handler[d].reply /\ handler'[d].target = handler[d].target
    BY <1>0, <2>2 DEF Handler
  <2> QED BY <2>4, <2>5 DEF DaemonNames, RepliesOwn, NamesInv
<1> QED BY <1>0, <1>1, <1>2, <1>3

(* send_response: what is sent was the handler's reply. *)
LEMMA ReplyNames ==
    ASSUME IInv, NamesInv, NEW c \in Conns, SendReply(c)
    PROVE  \A d \in Conns : DaemonNames(d)
<1> DEFINE h == handler[c]
<1>0. /\ handler \in [Conns -> Handler] /\ link \in [Conns -> Link] /\ h \in Handler
      /\ h.pc = "reply" /\ h.reply \in ServerMessage
  BY DEF IInv, Typed, SystemTypeOK, TypeOK, SendReply, At, Handler
<1>1. CASE ~link[c].writer
  <2>1. OnlyHandler(c) /\ handler'[c].pc = "failed" /\ UNCHANGED link
    BY <1>0, <1>1 DEF SendReply, Rest, NoHandler, OnlyHandler
  <2> QED BY <2>1, MovedNames
<1>2. CASE link[c].writer
  <2>1. PICK n : handler' = [handler EXCEPT ![c] = Rest("reading", n)] /\ link' = Sent(c, h.reply)
    BY <1>0, <1>2 DEF SendReply
  <2>2. OnlyHandler(c) /\ handler'[c].pc = "reading"
    BY <1>0, <2>1 DEF Rest, NoHandler, OnlyHandler
  <2>3. /\ OnlyLink(c) /\ link'[c].inbox = link[c].inbox
        /\ Box(link'[c].outbox) \subseteq Box(link[c].outbox) \cup {h.reply}
    BY <1>0, <2>1, SentEffect
  <2>4. DaemonNames(c)
    BY <1>0, <2>2, <2>3 DEF DaemonNames, Shortens, RepliesOwn
  <2> QED BY <2>2, <2>3, <2>4, OneNames
<1> QED BY <1>1, <1>2

(* The other tasks name no session. *)
LEMMA TaskNames ==
    ASSUME IInv, NamesInv,
           \/ \E c \in Conns : StatsTick(c) \/ WriterFails(c)
           \/ IdleElapses \/ IdleStep \/ KillDelayEnds \/ AcceptEnds
           \/ CloudflaredExits \/ Cancelled
           \/ MainFindsExit \/ FatalSnapshots \/ SendFatal \/ FatalClears \/ MainLeavesLoop
           \/ MainStopsCloudflared
    PROVE  \A d \in Conns : DaemonNames(d)
<1> SUFFICES ASSUME NEW d \in Conns PROVE DaemonNames(d)
  OBVIOUS
<1>0. /\ link \in [Conns -> Link] /\ main.queue \in Seq(Conns) /\ handler \in [Conns -> Handler]
      /\ RepliesOwn(handler[d])
  BY DEF IInv, Typed, SystemTypeOK, TypeOK, NamesInv
<1>1. ASSUME UNCHANGED handler, Shortens(d) PROVE DaemonNames(d)
  BY <1>0, <1>1 DEF DaemonNames
<1>2. UNCHANGED link => Shortens(d)
  BY DEF Shortens
<1>3. ASSUME NEW c \in Conns, StatsTick(c) PROVE DaemonNames(d)
  <2>1. UNCHANGED handler /\ (UNCHANGED link \/ link' = Sent(c, Plain("stats")))
    BY <1>3 DEF StatsTick
  <2> QED BY <1>1, <1>2, <2>1, SentNames DEF PlainTypes
<1>4. ASSUME NEW c \in Conns, WriterFails(c) PROVE DaemonNames(d)
  <2>1. UNCHANGED handler /\ link' = [link EXCEPT ![c].writer = FALSE, ![c].outbox = <<>>]
    BY <1>4 DEF WriterFails
  <2>2. link'[d].inbox = link[d].inbox /\ link'[d].outbox \in {link[d].outbox, <<>>}
    BY <1>0, <2>1 DEF Link
  <2>3. Box(link'[d].outbox) \subseteq Box(link[d].outbox)
    BY <2>2 DEF Box
  <2>4. Shortens(d)
    BY <2>2, <2>3 DEF Shortens
  <2> QED BY <1>1, <2>1, <2>4
<1>5. CASE SendFatal
  <2>1. CASE main.queue = <<>>
    BY <1>1, <1>2, <1>5, <2>1 DEF SendFatal
  <2>2. CASE main.queue # <<>>
    <3>1. UNCHANGED handler /\ link' = Sent(Head(main.queue), Plain("fatal"))
      BY <1>5, <2>2 DEF SendFatal
    <3>2. Head(main.queue) \in Conns
      BY <1>0, <2>2
    <3> QED BY <1>1, <3>1, <3>2, SentNames DEF PlainTypes
  <2> QED BY <2>1, <2>2
<1>6. CASE AcceptEnds
  <2>1. /\ UNCHANGED link
        /\ handler'[d] = handler[d] \/ handler'[d].pc = "gone"
    BY <1>6 DEF AcceptEnds, Rest, NoHandler
  <2> QED BY <1>0, <1>2, <2>1 DEF DaemonNames, RepliesOwn
<1>7. CASE \/ IdleElapses \/ IdleStep \/ KillDelayEnds \/ CloudflaredExits \/ Cancelled
           \/ MainFindsExit \/ FatalSnapshots \/ FatalClears \/ MainLeavesLoop
           \/ MainStopsCloudflared
  <2>1. UNCHANGED <<handler, link>>
    BY <1>7
       DEF IdleElapses, IdleStep, IdleExpires, IdleShutsDown, IdleCancelled, KillDelayEnds,
           CloudflaredExits, Cancelled, MainFindsExit, FatalSnapshots, FatalClears, MainLeavesLoop,
           MainStopsCloudflared
  <2> QED BY <1>1, <1>2, <2>1
<1> QED BY <1>3, <1>4, <1>5, <1>6, <1>7

(* Clients: a process names the session it was told, and a fresh request names none. *)
LEMMA ClientNames ==
    ASSUME IInv, KeptInv, NamesInv, NEW c \in Conns,
           Connect(c) \/ ClientReads(c) \/ ClientOccurrence(c), NEW d \in Conns
    PROVE  NamesStep(d)
<1>0. /\ handler \in [Conns -> Handler] /\ link \in [Conns -> Link]
      /\ client \in [Conns -> ClientState] /\ RepliesOwn(handler[d])
  BY DEF IInv, Typed, SystemTypeOK, TypeOK, NamesInv
<1>1. CASE ClientReads(c) \/ ClientOccurrence(c)
  <2>1. ClientEffect(c) /\ UNCHANGED handler
    BY <1>1, ClientEffects DEF ClientReads, ClientOccurrence
  <2>2. CASE d # c
    BY <1>0, <2>1, <2>2 DEF ClientEffect, OnlyLink, NamesStep, Names
  <2>3. CASE d = c
    <3> SUFFICES ASSUME NEW n \in Sessions, Names(c, n)' PROVE Names(c, n)
      BY <1>0, <2>1, <2>3 DEF NamesStep
    <3>1. CASE client'[c].session = n
      BY <2>1, <3>1 DEF ClientEffect, Names, NamedIn, NamingTypes
    <3>2. CASE handler'[c].owned = n \/ (handler'[c].pc = "regRoute" /\ handler'[c].target = n)
      BY <2>1, <3>2 DEF Names
    <3>3. CASE NamedIn(Box(link'[c].inbox), n)
      BY <2>1, <3>3 DEF ClientEffect, Names, NamedIn
    <3>4. CASE NamedIn(Box(link'[c].outbox), n)
      BY <2>1, <3>4 DEF ClientEffect, Names, NamedIn
    <3> QED BY <3>1, <3>2, <3>3, <3>4 DEF Names
  <2> QED BY <2>2, <2>3
<1>2. CASE Connect(c)
  <2>1. PICK m \in Requests[c] :
            /\ client' = [client EXCEPT ![c].request = m.type, ![c].state = "requested"]
            /\ link' = [link EXCEPT ![c].peer = "connected", ![c].inbox = <<m>>]
    BY <1>2 DEF Connect
  <2>2. Goto(c, "backlog")
    BY <1>2 DEF Connect, Goto
  <2>3. OnlyHandler(c) /\ KeepsJob(c) /\ handler'[c].pc = "backlog"
    BY <1>0, <2>2, GotoEffect
  <2>4. m.type \notin NamingTypes
    <3>1. m \in Request
      BY RequestsAssumption
    <3> QED BY <3>1 DEF Request, RegisterMessage, StopMessage, PlainMessage, NamingTypes
  <2>5. /\ link'[d].outbox = link[d].outbox /\ client'[d].session = client[d].session
        /\ d # c => link'[d].inbox = link[d].inbox
        /\ d = c => link'[d].inbox = <<m>>
    BY <1>0, <2>1 DEF Link, ClientState
  <2>6. CASE d # c
    <3>1. handler'[d] = handler[d]
      BY <2>3, <2>6 DEF OnlyHandler
    <3> QED BY <1>0, <2>5, <2>6, <3>1 DEF NamesStep, Names
  <2>7. CASE d = c
    <3>1. Box(link'[c].inbox) = {m}
      BY <2>5, <2>7 DEF Box
    <3>2. RepliesOwn(handler'[c])
      BY <2>3 DEF RepliesOwn
    <3> QED BY <2>3, <2>4, <2>5, <2>7, <3>1, <3>2 DEF NamesStep, Names, NamedIn, KeepsJob
  <2> QED BY <2>6, <2>7
<1> QED BY <1>1, <1>2

(* The end of the process leaves what the clients know and what is in the channels. *)
LEMMA ProcessEndsNames ==
    ASSUME IInv, NamesInv, ProcessEnds, UNCHANGED client
    PROVE  NamesInv'
<1>1. /\ \A d \in Conns : handler'[d].pc = "gone" /\ handler'[d].owned = NoSession
      /\ UNCHANGED <<link, client, issued>>
  BY DEF ProcessEnds, Rest, NoHandler
<1>2. ASSUME NEW c \in Conns, NEW n \in Sessions, Names(c, n)' PROVE Names(c, n)
  BY <1>1, <1>2, SessionFacts DEF Names
<1>3. \A c \in Conns : RepliesOwn(handler'[c])
  BY <1>1 DEF RepliesOwn
<1>4. \A c, d \in Conns, n \in Sessions : Names(c, n)' /\ Names(d, n)' => c = d
  BY <1>2 DEF NamesInv
<1>5. \A c \in Conns, n, k \in Sessions : Names(c, n)' /\ Names(c, k)' => n = k
  BY <1>2 DEF NamesInv
<1>6. \A c \in Conns, n \in Sessions : Names(c, n)' => n <= issued'
  BY <1>1, <1>2 DEF NamesInv
<1> QED BY <1>3, <1>4, <1>5, <1>6 DEF NamesInv

(* Nothing names a session at first. *)
LEMMA NamesInvInit == Init => NamesInv
<1> SUFFICES ASSUME Init PROVE NamesInv
  OBVIOUS
<1>1. ASSUME NEW c \in Conns
      PROVE  /\ handler[c].pc = "absent" /\ handler[c].owned = NoSession
             /\ Box(link[c].inbox) = {} /\ Box(link[c].outbox) = {}
             /\ client[c].session = NoSession
  BY DEF Init, DaemonInit, NoHandler, NoLink, Box
<1>2. NoSession \notin Sessions
  BY DEF Sessions, NoSession
<1>3. ASSUME NEW c \in Conns, NEW n \in Sessions PROVE ~Names(c, n)
  BY <1>1, <1>2 DEF Names, NamedIn
<1> QED BY <1>1, <1>3 DEF NamesInv, RepliesOwn

(* The invariant is inductive, given the others. *)
LEMMA NamesInvNext == IInv /\ SessionInv /\ KeptInv /\ NamesInv /\ [Next]_vars => NamesInv'
<1> SUFFICES ASSUME IInv, SessionInv, KeptInv, NamesInv, [Next]_vars PROVE NamesInv'
  OBVIOUS
<1>1. IInv'
  BY IInvNext
<1>2. CASE ProcessEnds /\ UNCHANGED client
  BY <1>2, ProcessEndsNames
<1>3. CASE SessionStep /\ ~(ProcessEnds /\ UNCHANGED client)
  <2>1. \A d \in Conns : OwnedStep(d)
    BY <1>3 DEF SessionStep, Moves
  <2>2. CASE DaemonNext /\ UNCHANGED client
    <3>1. CASE \E c \in Conns : HandlerStep(c) \/ ReadError(c)
      <4>1. PICK c \in Conns : HandlerStep(c) \/ ReadError(c)
        BY <3>1
      <4>2. \A d \in Conns : DaemonNames(d)
        BY <4>1, ReadNames, RegisterNames, RemoveNames, StopNames, TerminateNames, ReplyNames
           DEF HandlerStep
      <4> QED BY <1>1, <1>3, <2>1, <2>2, <4>2, DaemonNamesStep, NamesStepKeeps
    <3>2. CASE \/ \E c \in Conns : StatsTick(c) \/ WriterFails(c)
               \/ IdleElapses \/ IdleStep \/ KillDelayEnds \/ AcceptEnds
               \/ CloudflaredExits \/ Cancelled
               \/ MainFindsExit \/ FatalSnapshots \/ SendFatal \/ FatalClears \/ MainLeavesLoop
               \/ MainStopsCloudflared
      <4>1. \A d \in Conns : DaemonNames(d)
        BY <3>2, TaskNames
      <4> QED BY <1>1, <1>3, <2>1, <2>2, <4>1, DaemonNamesStep, NamesStepKeeps
    <3>3. CASE MainExits \/ DaemonCrashes
      BY <1>3, <2>2, <3>3 DEF MainExits, DaemonCrashes
    <3> QED BY <2>2, <3>1, <3>2, <3>3 DEF DaemonNext, Occurrence, MainStep
  <2>3. CASE \E c \in Conns : Connect(c) \/ ClientReads(c) \/ ClientOccurrence(c)
    BY <1>1, <1>3, <2>3, ClientNames, NamesStepKeeps
  <2>4. CASE UNCHANGED vars
    <3>1. \A d \in Conns : NamesStep(d)
      BY <2>4 DEF NamesStep, Names, NamesInv, vars, daemonVars
    <3> QED BY <1>1, <1>3, <3>1, NamesStepKeeps
  <2> QED BY <2>2, <2>3, <2>4 DEF Next
<1> QED BY <1>2, <1>3, KeptSteps

(* The invariant holds in every behaviour. *)
LEMMA NamesInvariant == Safety => []NamesInv
<1>1. NamesInv /\ IInv /\ SessionInv /\ KeptInv /\ [Next]_vars => NamesInv'
  BY NamesInvNext
<1> QED BY <1>1, NamesInvInit, KeptInvariant, SessionInvariant, IInvInvariant, PTL DEF Safety

(* SessionsOf collects the sessions a connection names. *)
LEMMA SessionsOfIs ==
    ASSUME IInv, NamesInv, NEW c \in Conns, NEW n \in SessionsOf(c)
    PROVE  n \in Sessions /\ Names(c, n)
<1>1. /\ handler[c] \in Handler /\ link[c] \in Link /\ client[c] \in ClientState
      /\ RepliesOwn(handler[c])
  BY DEF IInv, Typed, SystemTypeOK, TypeOK, NamesInv
<1>2. n # NoSession
  BY DEF SessionsOf
<1>3. \/ n \in {client[c].session, handler[c].owned}
      \/ handler[c].pc = "regRoute" /\ n = handler[c].target
      \/ handler[c].pc = "reply" /\ n \in Naming({handler[c].reply})
      \/ n \in Naming({link[c].inbox[i] : i \in DOMAIN link[c].inbox})
      \/ n \in Naming({link[c].outbox[i] : i \in DOMAIN link[c].outbox})
  BY DEF SessionsOf
<1>4. Names(c, n)
  <2>1. CASE handler[c].pc = "reply" /\ n \in Naming({handler[c].reply})
    BY <1>1, <2>1 DEF Naming, RepliesOwn, Names
  <2>2. CASE n \in Naming({link[c].inbox[i] : i \in DOMAIN link[c].inbox})
    BY <2>2 DEF Naming, Names, NamedIn, Box
  <2>3. CASE n \in Naming({link[c].outbox[i] : i \in DOMAIN link[c].outbox})
    BY <2>3 DEF Naming, Names, NamedIn, Box
  <2> QED BY <1>3, <2>1, <2>2, <2>3 DEF Names
<1>5. n \in Sessions
  <2>1. CASE \/ client[c].session = n \/ handler[c].owned = n
             \/ handler[c].pc = "regRoute" /\ handler[c].target = n
    BY <1>1, <1>2, <2>1 DEF Handler, ClientState
  <2>2. CASE NamedIn(Box(link[c].inbox), n)
    <3>1. PICK m \in Box(link[c].inbox) : m.type \in NamingTypes /\ m.session = n
      BY <2>2 DEF NamedIn
    <3>2. m \in ClientMessage
      BY <1>1, <3>1 DEF Box, Link
    <3> QED BY <3>1, <3>2
            DEF ClientMessage, RegisterMessage, SessionMessage, StopMessage, PlainMessage,
                NamingTypes
  <2>3. CASE NamedIn(Box(link[c].outbox), n)
    <3>1. PICK m \in Box(link[c].outbox) : m.type \in NamingTypes /\ m.session = n
      BY <2>3 DEF NamedIn
    <3>2. m \in ServerMessage
      BY <1>1, <3>1 DEF Box, Link
    <3> QED BY <3>1, <3>2 DEF ServerMessage, AnswerTypes, PlainTypes, NamingTypes
  <2> QED BY <1>4, <2>1, <2>2, <2>3 DEF Names
<1> QED BY <1>4, <1>5

(* In every behaviour a session belongs to one connection for good: whatever its handler, its      *)
(* process and the messages under way name is one session, which next_session has given out, and   *)
(* no other connection names it (mod.rs:288, 324; main.rs:293-301).                                *)
THEOREM SessionsStayPrivate == Safety => []SessionsArePrivate
<1>1. IInv /\ NamesInv => SessionsArePrivate
  <2> SUFFICES ASSUME IInv, NamesInv, NEW c \in Conns, NEW n \in SessionsOf(c)
               PROVE  /\ n \in 1..issued
                      /\ \A d \in Conns : n \in SessionsOf(d) => d = c
                      /\ SessionsOf(c) = {n}
    BY DEF SessionsArePrivate
  <2>1. n \in Sessions /\ Names(c, n) /\ n <= issued
    BY SessionsOfIs DEF NamesInv
  <2>2. n \in 1..issued
    BY <2>1, SessionFacts DEF Sessions
  <2>3. \A d \in Conns : n \in SessionsOf(d) => d = c
    BY <2>1, SessionsOfIs DEF NamesInv
  <2>4. \A k \in SessionsOf(c) : k = n
    BY <2>1, SessionsOfIs DEF NamesInv
  <2> QED BY <2>2, <2>3, <2>4
<1> QED BY <1>1, NamesInvariant, IInvInvariant, PTL

------------------------------------------------------------------------------
(* Owners and their forwards, where nobody uses `stop`. *)

NoStops == \A c \in Conns : Requests[c] \cap StopMessage = {}

(* The process shows a forward, or will when it reads. *)
Told(c) ==
    \/ client[c].state = "forwarding"
    \/ client[c].state = "requested" /\ \E m \in Box(link[c].outbox) : m.type = "registered"

NobodyStops ==
    \A c \in Conns : handler[c].job.type # "stop" /\ \A m \in Box(link[c].inbox) : m.type # "stop"

WaitingAreConnected ==
    \A c \in Conns : client[c].state \in {"requested", "forwarding"} => link[c].peer = "connected"

ToldAreAtRest ==
    Running => \A c \in Conns : Told(c) =>
        handler[c].pc \in {"reading", "failed"} /\ link[c].inbox = <<>>

Promised(c) == Told(c) \/ Unanswered(c)

PromisesAreKept ==
    Running /\ ~shuttingDown => \A c \in Conns : Promised(c) => handler[c].owned \in RouteSessions

ForwardInv == NobodyStops /\ WaitingAreConnected /\ ToldAreAtRest /\ PromisesAreKept

(* What a step can do to a connection. *)
Stands(d) ==
    /\ handler'[d].job.type # "stop" /\ \A m \in Box(link'[d].inbox) : m.type # "stop"
    /\ client'[d].state \in {"requested", "forwarding"} => link'[d].peer = "connected"
    /\ Running =>
          /\ Told(d)' => handler'[d].pc \in {"reading", "failed"} /\ link'[d].inbox = <<>>
          /\ Promised(d)' =>
                \/ Promised(d) /\ handler'[d].owned = handler[d].owned
                \/ handler[d].pc = "regRoute" /\ handler'[d].owned \in RouteSessions'

(* Routes go in a shutdown, or because their owner leaves. *)
RoutesStand ==
    ~shuttingDown' => \A n \in RouteSessions :
        \/ n \in RouteSessions'
        \/ \E d \in Conns : handler[d].pc = "rmRoutes" /\ handler[d].target = n

(* Steps like these keep the invariant. *)
LEMMA StandingKeeps ==
    ASSUME IInv, SessionInv, ForwardInv, \A d \in Conns : Stands(d),
           Running' => Running /\ RoutesStand, shuttingDown => shuttingDown'
    PROVE  ForwardInv'
<1>1. NobodyStops' /\ WaitingAreConnected'
  BY DEF Stands, NobodyStops, WaitingAreConnected
<1>2. ToldAreAtRest'
  BY DEF Stands, ToldAreAtRest
<1>3. ASSUME NEW c \in Conns, Promised(c)', ~shuttingDown', Running'
      PROVE  handler'[c].owned \in RouteSessions'
  <2>1. CASE handler[c].pc = "regRoute" /\ handler'[c].owned \in RouteSessions'
    BY <2>1
  <2>2. CASE Promised(c) /\ handler'[c].owned = handler[c].owned
    <3> DEFINE n == handler[c].owned
    <3>1. n \in RouteSessions /\ n # NoSession
      BY <1>3, <2>2, SessionFacts DEF ForwardInv, PromisesAreKept
    <3>2. ASSUME NEW d \in Conns, handler[d].pc = "rmRoutes", handler[d].target = n PROVE FALSE
      <4>1. handler[d].owned = n
        BY <3>2 DEF SessionInv, Fits, ForwardInv, NobodyStops
      <4>2. d = c
        BY <3>1, <4>1 DEF SessionInv, OwnedAreDistinct
      <4> QED BY <1>3, <2>2, <3>2, <4>2 DEF Promised, Unanswered, ForwardInv, ToldAreAtRest
    <3> QED BY <1>3, <2>2, <3>1, <3>2 DEF RoutesStand
  <2> QED BY <1>3, <2>1, <2>2 DEF Stands
<1>4. PromisesAreKept'
  BY <1>3 DEF PromisesAreKept
<1> QED BY <1>1, <1>2, <1>4 DEF ForwardInv

(* Nothing happens to a connection, or a message other than Registered is sent to it. *)
LEMMA SameStands ==
    ASSUME ForwardInv, NEW d \in Conns, KeepsJob(d),
           handler'[d].pc = handler[d].pc, handler'[d].reply = handler[d].reply,
           link'[d].inbox = link[d].inbox, link'[d].peer = link[d].peer,
           client'[d] = client[d],
           \A m \in Box(link'[d].outbox) : m.type = "registered" => m \in Box(link[d].outbox)
    PROVE  Stands(d)
<1>1. (Told(d)' => Told(d)) /\ (Unanswered(d)' <=> Unanswered(d))
  BY DEF Told, Unanswered
<1> QED BY <1>1 DEF Stands, ForwardInv, NobodyStops, WaitingAreConnected, ToldAreAtRest, Promised,
                    KeepsJob

(* A handler that reads, or works on a job, has told its process of no session yet. *)
LEMMA OwnStands ==
    ASSUME ForwardInv, Running, NEW c \in Conns, UNCHANGED client,
           link'[c].outbox = link[c].outbox, link'[c].peer = link[c].peer,
           Box(link'[c].inbox) \subseteq Box(link[c].inbox),
           handler[c].pc \notin {"reading", "failed"} \/ link[c].inbox # <<>> \/ link[c].peer = "closed",
           handler'[c].job.type # "stop",
           Unanswered(c)' =>
              \/ Unanswered(c) /\ handler'[c].owned = handler[c].owned
              \/ handler[c].pc = "regRoute" /\ handler'[c].owned \in RouteSessions'
    PROVE  Stands(c)
<1>1. ~Told(c) /\ ~Told(c)'
  BY DEF Told, ForwardInv, ToldAreAtRest, WaitingAreConnected
<1> QED BY <1>1 DEF Stands, ForwardInv, NobodyStops, WaitingAreConnected, Promised

(* Only one connection has something to do with the step. *)
LEMMA OneStands ==
    ASSUME ForwardInv, NEW c \in Conns, OnlyHandler(c), OnlyLink(c),
           \A d \in Conns \ {c} : client'[d] = client[d], Stands(c)
    PROVE  \A d \in Conns : Stands(d)
<1>1. ASSUME NEW d \in Conns \ {c} PROVE Stands(d)
  BY SameStands DEF OnlyHandler, OnlyLink, KeepsJob
<1> QED BY <1>1

(* A handler goes on with its job, having sent nothing. *)
LEMMA GotoStands ==
    ASSUME ForwardInv, Running, NEW c \in Conns, UNCHANGED <<client, link>>,
           OnlyHandler(c), handler'[c].job.type # "stop",
           handler[c].pc \notin {"reading", "failed"},
           Unanswered(c)' => Unanswered(c) /\ handler'[c].owned = handler[c].owned
    PROVE  \A d \in Conns : Stands(d)
<1>1. Stands(c)
  BY OwnStands
<1> QED BY <1>1, OneStands DEF OnlyLink

(* A handler reads a message, which is no Stop. *)
LEMMA ReadStands ==
    ASSUME IInv, ForwardInv, NEW c \in Conns, UNCHANGED client, NEW types, Receive(c, types),
           \/ Refuse(c) \/ UNCHANGED handler \/ GotoReply(c, Plain("routeList"))
           \/ \E n : \E label \in {"regRoute", "rmRoutes", "stopAck", "killClear"} :
                 Begin(c, label, n)
    PROVE  \A d \in Conns : Stands(d)
<1>1. handler \in [Conns -> Handler] /\ link \in [Conns -> Link]
  BY DEF IInv, Typed, SystemTypeOK, TypeOK
<1>2. /\ OnlyLink(c) /\ handler[c].pc = "reading" /\ Running /\ link[c].inbox # <<>>
      /\ Head(link[c].inbox) \in Box(link[c].inbox)
      /\ Box(link'[c].inbox) \subseteq Box(link[c].inbox)
      /\ link'[c].outbox = link[c].outbox /\ link'[c].peer = link[c].peer
  BY <1>1, ReceiveEffect
<1>3. handler[c].job.type # "stop" /\ Head(link[c].inbox).type # "stop"
  BY <1>2 DEF ForwardInv, NobodyStops
<1>4. OnlyHandler(c) /\ handler'[c].job.type # "stop" /\ ~Unanswered(c)'
  <2>1. ASSUME NEW m, GotoReply(c, m), m.type # "registered"
        PROVE  OnlyHandler(c) /\ handler'[c].job.type # "stop" /\ ~Unanswered(c)'
    BY <1>1, <1>3, <2>1, ReplyEffect DEF Unanswered, KeepsJob
  <2>2. CASE Refuse(c) \/ GotoReply(c, Plain("routeList"))
    BY <2>1, <2>2, RefuseIsReply, PlainFacts
  <2>3. CASE UNCHANGED handler
    BY <1>2, <1>3, <2>3 DEF OnlyHandler, Unanswered
  <2>4. ASSUME NEW label \in {"regRoute", "rmRoutes", "stopAck", "killClear"}, NEW n,
               Begin(c, label, n)
        PROVE  OnlyHandler(c) /\ handler'[c].job.type # "stop" /\ ~Unanswered(c)'
    BY <1>1, <1>3, <2>4, BeginEffect DEF Unanswered
  <2> QED BY <2>2, <2>3, <2>4
<1>5. Stands(c)
  BY <1>2, <1>4, OwnStands
<1> QED BY <1>2, <1>4, <1>5, OneStands

------------------------------------------------------------------------------
(* Every step but the end of the process is one of these. *)

(* Registration. *)
LEMMA RegisterStands ==
    ASSUME IInv, KeptInv, ForwardInv, UNCHANGED client, NEW c \in Conns,
           \/ Accept(c) \/ ReadRegister(c) \/ RegisterRoute(c) \/ RegisterOwner(c)
           \/ RegisterActive(c)
    PROVE  \A d \in Conns : Stands(d)
<1>0. /\ handler \in [Conns -> Handler] /\ registry \in Registry
      /\ handler[c].job.type # "stop"
  BY DEF IInv, Typed, SystemTypeOK, TypeOK, ForwardInv, NobodyStops
<1>1. CASE Accept(c)
  <2>1. Goto(c, "reading") /\ handler[c].pc = "backlog" /\ Running /\ UNCHANGED link
    BY <1>1 DEF Accept, At
  <2>2. OnlyHandler(c) /\ KeepsJob(c) /\ handler'[c].pc = "reading"
    BY <1>0, <2>1, GotoEffect
  <2> QED BY <1>0, <2>1, <2>2, GotoStands DEF KeepsJob, Unanswered
<1>2. CASE ReadRegister(c)
  BY <1>2, ReadStands DEF ReadRegister
<1>3. CASE RegisterRoute(c)
  <2>1. handler[c].pc = "regRoute" /\ Running /\ UNCHANGED link
    BY <1>3 DEF RegisterRoute, At
  <2>2. CASE GotoReply(c, Plain("error"))
    <3>1. OnlyHandler(c) /\ KeepsJob(c) /\ handler'[c].pc = "reply"
          /\ handler'[c].reply = Plain("error")
      BY <1>0, <2>2, ReplyEffect
    <3> QED BY <1>0, <2>1, <3>1, PlainFacts, GotoStands DEF KeepsJob, Unanswered
  <2>3. ASSUME NEW m \in RegisterMessage, NEW slug \in SlugChoices(registry, m.port, m.slug),
               registry' = AddRoute(registry, [slug |-> slug, port |-> m.port,
                                               session |-> handler[c].target]),
               handler' = [handler EXCEPT ![c].pc = "regOwner", ![c].slug = slug,
                                          ![c].owned = handler[c].target]
        PROVE  \A d \in Conns : Stands(d)
    <3> DEFINE route == [slug |-> slug, port |-> m.port, session |-> handler[c].target]
    <3>1. /\ OnlyHandler(c) /\ handler'[c].pc = "regOwner"
          /\ handler'[c].owned = handler[c].target /\ handler'[c].job = handler[c].job
      BY <1>0, <2>3 DEF OnlyHandler, Handler
    <3>2. route \in Route /\ registry.bySlug[slug] = NoRoute
      <4>1. slug \in Slugs /\ registry.bySlug[slug] = NoRoute
        BY <2>3, GeneratedAssumption DEF SlugChoices, RegisterMessage
      <4>2. handler[c].target \in Sessions /\ m.port \in Ports
        BY <2>1, <2>3 DEF IInv, Typed, TargetsAreSessions, SessionLabels, RegisterMessage
      <4> QED BY <4>1, <4>2 DEF Route
    <3>3. handler[c].target \in RouteSessions'
      <4>1. Routes(registry') = Routes(registry) \cup {route}
        BY <1>0, <2>3, <3>2, RoutesAfterAdd
      <4>2. RouteSessions' = {r.session : r \in Routes(registry')}
        BY DEF RouteSessions, Routes
      <4> QED BY <4>1, <4>2
    <3>4. Stands(c)
      BY <1>0, <2>1, <3>1, <3>3, OwnStands
    <3> QED BY <2>1, <3>1, <3>4, OneStands DEF OnlyLink
  <2> QED BY <1>3, <2>2, <2>3 DEF RegisterRoute
<1>4. CASE RegisterOwner(c)
  <2>1. Goto(c, "regActive") /\ handler[c].pc = "regOwner" /\ Running /\ UNCHANGED link
    BY <1>4 DEF RegisterOwner, At
  <2>2. OnlyHandler(c) /\ KeepsJob(c)
    BY <1>0, <2>1, GotoEffect
  <2> QED BY <1>0, <2>1, <2>2, GotoStands DEF KeepsJob, Unanswered
<1>5. CASE RegisterActive(c)
  <2>1. /\ GotoReply(c, Msg("registered", handler[c].target))
        /\ handler[c].pc = "regActive" /\ Running /\ UNCHANGED link
    BY <1>5 DEF RegisterActive, At
  <2>2. OnlyHandler(c) /\ KeepsJob(c)
    BY <1>0, <2>1, ReplyEffect
  <2> QED BY <1>0, <2>1, <2>2, GotoStands DEF KeepsJob, Unanswered
<1> QED BY <1>1, <1>2, <1>3, <1>4, <1>5

(* An owner leaves, or is gone. *)
LEMMA LeaveStands ==
    ASSUME IInv, SessionInv, ForwardInv, UNCHANGED client, NEW c \in Conns,
           \/ ReadUnregister(c) \/ ReadAcknowledged(c) \/ ReadDisconnect(c) \/ ReadError(c)
           \/ RemoveRoutes(c) \/ RemoveOwner(c) \/ RemoveAck(c) \/ CheckEmpty(c) \/ MarkIdle(c)
    PROVE  \A d \in Conns : Stands(d)
<1>0. /\ handler \in [Conns -> Handler] /\ handler[c] \in Handler
      /\ \A d \in Conns : handler[d].job.type # "stop" /\ handler[d].pc \notin StopLabels
  BY DEF IInv, Typed, SystemTypeOK, TypeOK, ForwardInv, NobodyStops, SessionInv, Fits
<1>1. CASE ReadUnregister(c) \/ ReadAcknowledged(c)
  BY <1>1, ReadStands DEF ReadUnregister, ReadAcknowledged
<1>2. CASE ReadDisconnect(c)
  <2>1. /\ handler[c].pc = "reading" /\ Running /\ link[c].peer = "closed" /\ UNCHANGED link
    BY <1>2 DEF ReadDisconnect, At
  <2>2. PICK h : /\ handler' = [handler EXCEPT ![c] = h]
                 /\ h = Rest("done", NoSession)
                    \/ h = [handler[c] EXCEPT !.pc = "rmRoutes", !.job = Disconnect,
                                              !.target = handler[c].owned]
    BY <1>2 DEF ReadDisconnect
  <2>3. h.job.type # "stop" /\ h.pc \in {"done", "rmRoutes"}
    <3>1. CASE h = Rest("done", NoSession)
      BY <3>1 DEF Rest, NoHandler, NoJob
    <3>2. CASE h = [handler[c] EXCEPT !.pc = "rmRoutes", !.job = Disconnect,
                                      !.target = handler[c].owned]
      <4>1. h.pc = "rmRoutes" /\ h.job = Disconnect
        BY <1>0, <3>2 DEF Handler
      <4> QED BY <4>1 DEF Disconnect
    <3> QED BY <2>2, <3>1, <3>2
  <2>4. OnlyHandler(c) /\ handler'[c] = h
    BY <1>0, <2>2 DEF OnlyHandler
  <2>5. Stands(c)
    BY <2>1, <2>3, <2>4, OwnStands DEF Unanswered
  <2> QED BY <2>1, <2>4, <2>5, OneStands DEF OnlyLink
<1>3. CASE ReadError(c)
  <2>1. /\ handler[c].pc = "reading" /\ UNCHANGED link
        /\ handler' = [handler EXCEPT ![c] = Rest("failed", handler[c].owned)]
    BY <1>3 DEF ReadError, At
  <2>2. /\ OnlyHandler(c) /\ handler'[c].pc = "failed" /\ handler'[c].owned = handler[c].owned
        /\ handler'[c].job = NoJob
    BY <1>0, <2>1 DEF Rest, NoHandler, OnlyHandler
  <2>3. (Told(c)' <=> Told(c)) /\ ~Unanswered(c)'
    BY <2>1, <2>2 DEF Told, Unanswered
  <2>4. Stands(c)
    BY <2>1, <2>2, <2>3
       DEF Stands, ForwardInv, NobodyStops, WaitingAreConnected, ToldAreAtRest, Promised, NoJob
  <2> QED BY <2>1, <2>2, <2>4, OneStands DEF OnlyLink
<1>4. CASE RemoveRoutes(c) \/ RemoveOwner(c)
  <2>1. PICK label \in {"rmOwner", "rmAck"} :
            /\ Goto(c, label) /\ handler[c].pc \in {"rmRoutes", "rmOwner"} /\ Running
            /\ UNCHANGED link
    BY <1>4 DEF RemoveRoutes, RemoveOwner, At
  <2>2. OnlyHandler(c) /\ KeepsJob(c) /\ handler'[c].pc = label
    BY <1>0, <2>1, GotoEffect
  <2> QED BY <1>0, <2>1, <2>2, GotoStands DEF KeepsJob, Unanswered
<1>5. CASE RemoveAck(c)
  <2>1. handler[c].pc = "rmAck" /\ Running /\ UNCHANGED link
    BY <1>5 DEF RemoveAck, At
  <2>2. ASSUME NEW d \in Conns \ {c} PROVE handler'[d] = handler[d]
    BY <1>0, <1>5 DEF RemoveAck, StopLabels
  <2>3. handler'[c] = [handler[c] EXCEPT !.pc = "rmCheck"]
    BY <1>5 DEF RemoveAck
  <2>4. OnlyHandler(c) /\ handler'[c].pc = "rmCheck" /\ handler'[c].job = handler[c].job
    BY <1>0, <2>2, <2>3 DEF OnlyHandler, Handler
  <2> QED BY <1>0, <2>1, <2>4, GotoStands DEF Unanswered
<1>6. CASE CheckEmpty(c) \/ MarkIdle(c)
  <2>1. handler[c].pc \in {"rmCheck", "rmIdle"} /\ Running /\ UNCHANGED link
    BY <1>6 DEF CheckEmpty, MarkIdle, At
  <2>2. PICK h : /\ handler' = [handler EXCEPT ![c] = h]
                 /\ h = [handler[c] EXCEPT !.pc = "rmIdle"] \/ h = AfterRemoval(handler[c])
    BY <1>6 DEF CheckEmpty, MarkIdle
  <2>3. /\ h.job.type # "stop" /\ h.pc \notin {"regOwner", "regActive"}
        /\ h.pc = "reply" => h.reply.type # "registered"
    <3>1. CASE h = [handler[c] EXCEPT !.pc = "rmIdle"]
      BY <1>0, <3>1 DEF Handler
    <3>2. CASE h = AfterRemoval(handler[c])
      <4>1. \/ h = Replying(handler[c], Msg("unregistered", handler[c].target))
            \/ h = Replying(handler[c], Msg("stopped", handler[c].target))
            \/ h = Rest("reading", NoSession) \/ h = Rest("done", NoSession)
        BY <3>2 DEF AfterRemoval
      <4>2. ASSUME NEW m, m.type # "registered", h = Replying(handler[c], m)
            PROVE  h.job = handler[c].job /\ h.pc = "reply" /\ h.reply.type # "registered"
        BY <1>0, <4>2 DEF Replying, Handler
      <4>3. ASSUME NEW label \in {"reading", "done"}, h = Rest(label, NoSession)
            PROVE  h.job.type # "stop" /\ h.pc \in {"reading", "done"}
        BY <4>3 DEF Rest, NoHandler, NoJob
      <4>4. \A type : Msg(type, handler[c].target).type = type
        BY DEF Msg
      <4> QED BY <1>0, <4>1, <4>2, <4>3, <4>4
    <3> QED BY <2>2, <3>1, <3>2
  <2>4. OnlyHandler(c) /\ handler'[c] = h
    BY <1>0, <2>2 DEF OnlyHandler
  <2> QED BY <2>1, <2>3, <2>4, GotoStands DEF Unanswered
<1> QED BY <1>1, <1>2, <1>3, <1>4, <1>5, <1>6

(* A message other than Registered is sent to somebody. *)
LEMMA SendStands ==
    ASSUME IInv, ForwardInv, UNCHANGED client, NEW e \in Conns, NEW m \in ServerMessage,
           m.type # "registered", link' = Sent(e, m), NEW d \in Conns, KeepsJob(d),
           handler'[d].pc = handler[d].pc, handler'[d].reply = handler[d].reply
    PROVE  Stands(d)
<1>1. /\ OnlyLink(e) /\ link'[e].inbox = link[e].inbox /\ link'[e].peer = link[e].peer
      /\ Box(link'[e].outbox) \subseteq Box(link[e].outbox) \cup {m}
  BY SentEffect DEF IInv, Typed, SystemTypeOK, TypeOK
<1>2. CASE d = e
  BY <1>1, <1>2, SameStands
<1>3. CASE d # e
  BY <1>1, <1>3, SameStands DEF OnlyLink
<1> QED BY <1>2, <1>3

(* List, Stop and Kill: nobody is in a `stop`. *)
LEMMA RequestStands ==
    ASSUME IInv, SessionInv, ForwardInv, UNCHANGED client, NEW c \in Conns,
           \/ ReadList(c) \/ ReadStop(c) \/ StopInsertsAck(c) \/ StopLooksUp(c)
           \/ SendTerminate(c) \/ StopArms(c) \/ StopTimesOut(c)
           \/ ReadKill(c) \/ KillClears(c) \/ KillSnapshots(c)
    PROVE  \A d \in Conns : Stands(d)
<1>0. /\ handler \in [Conns -> Handler] /\ handler[c] \in Handler
      /\ handler[c].job.type # "stop" /\ handler[c].pc \notin StopLabels
  BY DEF IInv, Typed, SystemTypeOK, TypeOK, ForwardInv, NobodyStops, SessionInv, Fits
<1>1. CASE ReadList(c) \/ ReadStop(c) \/ ReadKill(c)
  BY <1>1, ReadStands DEF ReadList, ReadStop, ReadKill
<1>2. CASE StopInsertsAck(c) \/ StopLooksUp(c) \/ StopArms(c) \/ StopTimesOut(c)
  BY <1>0, <1>2 DEF StopInsertsAck, StopLooksUp, StopArms, StopTimesOut, At, StopLabels
<1>3. CASE KillClears(c)
  <2>1. Goto(c, "killSnapshot") /\ handler[c].pc = "killClear" /\ Running /\ UNCHANGED link
    BY <1>3 DEF KillClears, At
  <2>2. OnlyHandler(c) /\ KeepsJob(c) /\ handler'[c].pc = "killSnapshot"
    BY <1>0, <2>1, GotoEffect
  <2> QED BY <1>0, <2>1, <2>2, GotoStands DEF KeepsJob, Unanswered
<1>4. CASE KillSnapshots(c)
  <2>1. PICK queue : handler' = [handler EXCEPT ![c].pc = "killSend", ![c].queue = queue]
    BY <1>4 DEF KillSnapshots
  <2>2. handler[c].pc = "killSnapshot" /\ Running /\ UNCHANGED link
    BY <1>4 DEF KillSnapshots, At
  <2>3. OnlyHandler(c) /\ KeepsJob(c) /\ handler'[c].pc = "killSend"
    BY <1>0, <2>1 DEF OnlyHandler, KeepsJob, Handler
  <2> QED BY <1>0, <2>2, <2>3, GotoStands DEF KeepsJob, Unanswered
<1>5. CASE SendTerminate(c)
  <2> DEFINE queue == handler[c].queue
  <2>1. handler[c].pc = "killSend" /\ Running /\ queue \in Seq(Conns)
    BY <1>0, <1>5 DEF SendTerminate, At, StopLabels, Handler
  <2>2. CASE queue = <<>>
    <3>1. GotoReply(c, Plain("killAccepted")) /\ UNCHANGED link
      BY <1>5, <2>1, <2>2 DEF SendTerminate, GotoReply
    <3>2. /\ OnlyHandler(c) /\ KeepsJob(c)
          /\ handler'[c].pc = "reply" /\ handler'[c].reply = Plain("killAccepted")
      BY <1>0, <3>1, ReplyEffect
    <3> QED BY <1>0, <2>1, <3>1, <3>2, PlainFacts, GotoStands DEF KeepsJob, Unanswered
  <2>3. CASE queue # <<>>
    <3>1. link' = Sent(Head(queue), Plain("daemonKill")) /\ Head(queue) \in Conns
      BY <1>5, <2>1, <2>3 DEF SendTerminate
    <3>2. handler' = [handler EXCEPT ![c].queue = Tail(queue)]
      BY <1>5, <2>3 DEF SendTerminate
    <3>3. ASSUME NEW d \in Conns
          PROVE  /\ KeepsJob(d) /\ handler'[d].pc = handler[d].pc
                 /\ handler'[d].reply = handler[d].reply
      BY <1>0, <3>2 DEF KeepsJob, Handler
    <3>4. Plain("daemonKill") \in ServerMessage
      BY ServerMessageKinds DEF PlainTypes
    <3> QED BY <3>1, <3>3, <3>4, PlainFacts, SendStands
  <2> QED BY <2>2, <2>3
<1> QED BY <1>1, <1>2, <1>3, <1>4, <1>5

(* An answer is sent: from here on the process may show a forward. *)
LEMMA AnswerStands ==
    ASSUME IInv, KeptInv, ForwardInv, UNCHANGED client, NEW c \in Conns, SendReply(c)
    PROVE  \A d \in Conns : Stands(d)
<1> DEFINE h == handler[c]
<1>0. /\ handler \in [Conns -> Handler] /\ link \in [Conns -> Link] /\ h \in Handler
      /\ h.pc = "reply" /\ Running /\ h.reply \in ServerMessage
      /\ ConnectionOK(c) /\ ~Unread(c)
  BY BusyFacts DEF IInv, Typed, SystemTypeOK, TypeOK, KeptInv, SendReply, At, Handler, Busy
<1>1. CASE ~link[c].writer
  <2>1. handler' = [handler EXCEPT ![c] = Rest("failed", h.owned)] /\ UNCHANGED link
    BY <1>1 DEF SendReply
  <2>2. OnlyHandler(c) /\ handler'[c].pc = "failed" /\ handler'[c].job = NoJob
    BY <1>0, <2>1 DEF Rest, NoHandler, OnlyHandler
  <2> QED BY <1>0, <2>1, <2>2, GotoStands DEF Unanswered, NoJob
<1>2. CASE link[c].writer
  <2> DEFINE n == IF h.reply.type = "unregistered" THEN NoSession ELSE h.owned
  <2>1. handler' = [handler EXCEPT ![c] = Rest("reading", n)] /\ link' = Sent(c, h.reply)
    BY <1>2 DEF SendReply
  <2>2. h.reply.type = "registered" => n = h.owned
    OBVIOUS
  <2> HIDE DEF n
  <2>3. /\ OnlyHandler(c) /\ handler'[c].pc = "reading" /\ handler'[c].owned = n
        /\ handler'[c].job = NoJob
    BY <1>0, <2>1 DEF Rest, NoHandler, OnlyHandler
  <2>4. /\ OnlyLink(c) /\ link'[c].inbox = link[c].inbox /\ link'[c].peer = link[c].peer
        /\ Box(link'[c].outbox) \subseteq Box(link[c].outbox) \cup {h.reply}
    BY <1>0, <2>1, SentEffect
  <2>5. ~Told(c) /\ ~Unanswered(c)'
    BY <1>0, <2>3 DEF ForwardInv, ToldAreAtRest, Unanswered
  <2>6. Told(c)' => h.reply.type = "registered" /\ Unanswered(c)
    BY <1>0, <2>4, <2>5 DEF Told, Unanswered
  <2>7. Unanswered(c) => link[c].inbox = <<>>
    <3>1. link[c].inbox \in Seq(ClientMessage)
      BY <1>0 DEF Link
    <3>2. ASSUME Unanswered(c), NEW m \in Box(link[c].inbox) PROVE FALSE
      <4>1. m \in ClientMessage
        BY <3>1 DEF Box
      <4>2. m.type \in RequestTypes \cup SessionTypes
        BY <4>1 DEF ClientMessage, RegisterMessage, SessionMessage, StopMessage, PlainMessage,
                    RequestTypes, SessionTypes
      <4>3. m.type \notin SessionTypes
        BY <1>0, <3>2 DEF ConnectionOK, BeforeAnswer, Untold
      <4> QED BY <1>0, <3>2, <4>2, <4>3 DEF Unread
    <3> QED BY <3>1, <3>2, BoxFacts
  <2>8. Stands(c)
    BY <2>2, <2>3, <2>4, <2>5, <2>6, <2>7
       DEF Stands, ForwardInv, NobodyStops, WaitingAreConnected, Promised, NoJob
  <2> QED BY <2>3, <2>4, <2>8, OneStands
<1> QED BY <1>1, <1>2

(* Statistics, the writers and the other tasks. *)
LEMMA TaskStands ==
    ASSUME IInv, SessionInv, ForwardInv, UNCHANGED client,
           \/ \E c \in Conns : StatsTick(c) \/ WriterFails(c)
           \/ IdleElapses \/ IdleStep \/ KillDelayEnds \/ AcceptEnds
           \/ CloudflaredExits \/ Cancelled
           \/ MainFindsExit \/ FatalSnapshots \/ SendFatal \/ FatalClears \/ MainLeavesLoop
           \/ MainStopsCloudflared
    PROVE  \A d \in Conns : Stands(d)
<1>0. /\ handler \in [Conns -> Handler] /\ link \in [Conns -> Link] /\ main.queue \in Seq(Conns)
  BY DEF IInv, Typed, SystemTypeOK, TypeOK
<1>1. CASE UNCHANGED <<handler, link>>
  BY <1>1, SameStands DEF KeepsJob
<1>2. ASSUME NEW e \in Conns, NEW type \in {"stats", "fatal"}, link' = Sent(e, Plain(type)),
             UNCHANGED handler
      PROVE  \A d \in Conns : Stands(d)
  BY <1>2, SendStands, PlainFacts, ServerMessageKinds DEF KeepsJob, PlainTypes
<1>3. ASSUME NEW c \in Conns, StatsTick(c) PROVE \A d \in Conns : Stands(d)
  BY <1>1, <1>2, <1>3 DEF StatsTick
<1>4. ASSUME NEW c \in Conns, WriterFails(c) PROVE \A d \in Conns : Stands(d)
  <2>1. UNCHANGED handler /\ link' = [link EXCEPT ![c].writer = FALSE, ![c].outbox = <<>>]
    BY <1>4 DEF WriterFails
  <2>2. ASSUME NEW d \in Conns
        PROVE  /\ link'[d].inbox = link[d].inbox /\ link'[d].peer = link[d].peer
               /\ Box(link'[d].outbox) \subseteq Box(link[d].outbox)
    BY <1>0, <2>1, BoxFacts DEF Link, Box
  <2> QED BY <2>1, <2>2, SameStands DEF KeepsJob
<1>5. CASE AcceptEnds
  <2>1. UNCHANGED link /\ Running
    BY <1>5 DEF AcceptEnds
  <2>2. ASSUME NEW d \in Conns PROVE Stands(d)
    <3>1. CASE handler'[d] = handler[d]
      BY <2>1, <3>1, SameStands DEF KeepsJob
    <3>2. CASE handler[d].pc = "backlog" /\ handler'[d] = Rest("gone", NoSession)
      <4>1. handler'[d].pc = "gone" /\ handler'[d].job = NoJob
        BY <3>2 DEF Rest, NoHandler
      <4> QED BY <2>1, <3>2, <4>1, OwnStands DEF Unanswered, NoJob
    <3> QED BY <1>5, <3>1, <3>2 DEF AcceptEnds
  <2> QED BY <2>2
<1>6. CASE SendFatal
  <2>1. CASE main.queue = <<>>
    BY <1>1, <1>6, <2>1 DEF SendFatal
  <2>2. CASE main.queue # <<>>
    BY <1>0, <1>2, <1>6, <2>2 DEF SendFatal
  <2> QED BY <2>1, <2>2
<1> QED BY <1>1, <1>3, <1>4, <1>5, <1>6
        DEF IdleElapses, IdleStep, IdleExpires, IdleShutsDown, IdleCancelled, KillDelayEnds,
            CloudflaredExits, Cancelled, MainFindsExit, FatalSnapshots, FatalClears,
            MainLeavesLoop, MainStopsCloudflared

(* What a process does to its forward: it can show one that it was told of, and anything else it   *)
(* does with its connection ends that.                                                             *)
LEMMA ClientForwards ==
    ASSUME IInv, NEW c \in Conns, ClientReads(c) \/ ClientOccurrence(c)
    PROVE  \/ client'[c].state \notin {"requested", "forwarding"}
           \/ /\ link'[c].inbox = link[c].inbox /\ link'[c].peer = link[c].peer
              /\ client[c].state \in {"requested", "forwarding"}
              /\ Told(c)' => Told(c)
<1> DEFINE box == link[c].outbox
<1>1. /\ link \in [Conns -> Link] /\ box \in Seq(ServerMessage)
      /\ client \in [Conns -> ClientState]
  BY DEF IInv, Typed, SystemTypeOK, TypeOK, Link
<1>2. box # <<>> => Head(box) \in Box(box) /\ Box(Tail(box)) \subseteq Box(box)
  BY <1>1, BoxFacts
<1>3. ASSUME NEW state \in {"unregistering", "succeeded", "failed"}, Become(c, state)
      PROVE  client'[c].state \notin {"requested", "forwarding"}
  BY <1>1, <1>3 DEF Become, ClientState
<1>4. ASSUME NEW unread, Unregister(c, unread)
      PROVE  client'[c].state \notin {"requested", "forwarding"}
  BY <1>3, <1>4 DEF Unregister, Exit
<1>5. CASE OwnerIsRegistered(c)
  <2>1. /\ Is(c, "requested") /\ box # <<>> /\ Head(box).type = "registered"
        /\ link' = [link EXCEPT ![c].outbox = Tail(@)]
    BY <1>5 DEF OwnerIsRegistered, Incoming, Read
  <2>2. Told(c)
    BY <1>2, <2>1 DEF Told, Is
  <2>3. link'[c].inbox = link[c].inbox /\ link'[c].peer = link[c].peer
    BY <1>1, <2>1 DEF Link
  <2> QED BY <2>1, <2>2, <2>3 DEF Is
<1>6. CASE OwnerSkips(c)
  <2>1. /\ Is(c, "forwarding") \/ Is(c, "unregistering")
        /\ link' = [link EXCEPT ![c].outbox = Tail(@)] /\ UNCHANGED client
    BY <1>6 DEF OwnerSkips, Read
  <2>2. link'[c].inbox = link[c].inbox /\ link'[c].peer = link[c].peer
    BY <1>1, <2>1 DEF Link
  <2> QED BY <2>1, <2>2 DEF Is, Told
<1> QED BY <1>3, <1>4, <1>5, <1>6
        DEF ClientReads, ClientOccurrence, OwnerIsNotRegistered, OwnerIsStopped, OwnerIsKilled,
            OwnerFails, OwnerLeaves, RequestIsAnswered, ConnectionLost, OwnerInterrupted,
            ClientCrashes, ReadAndExit, Exit

(* A process connects, reads, is interrupted or killed. *)
LEMMA ClientStands ==
    ASSUME NoStops, IInv, KeptInv, ForwardInv, NEW c \in Conns,
           Connect(c) \/ ClientReads(c) \/ ClientOccurrence(c)
    PROVE  \A d \in Conns : Stands(d)
<1>0. /\ handler \in [Conns -> Handler] /\ link \in [Conns -> Link]
      /\ client \in [Conns -> ClientState] /\ ConnectionOK(c)
  BY DEF IInv, Typed, SystemTypeOK, TypeOK, KeptInv
<1>1. CASE Connect(c)
  <2>1. PICK m \in Requests[c] :
            /\ client' = [client EXCEPT ![c].request = m.type, ![c].state = "requested"]
            /\ link' = [link EXCEPT ![c].peer = "connected", ![c].inbox = <<m>>]
    BY <1>1 DEF Connect
  <2>2. client[c].state = "new" /\ Goto(c, "backlog")
    BY <1>1 DEF Connect, Is, Goto
  <2>3. m.type # "stop"
    <3>1. m \in Request /\ m \notin StopMessage
      BY RequestsAssumption DEF NoStops
    <3> QED BY <3>1 DEF Request, RegisterMessage, PlainMessage
  <2>4. OnlyHandler(c) /\ KeepsJob(c) /\ handler'[c].pc = "backlog"
    BY <1>0, <2>2, GotoEffect
  <2>5. /\ OnlyLink(c) /\ Box(link'[c].inbox) = {m} /\ link'[c].outbox = <<>>
        /\ link'[c].peer = "connected"
    BY <1>0, <2>1, <2>2 DEF OnlyLink, Link, Box, ConnectionOK, Fresh, Silent
  <2>6. /\ \A d \in Conns \ {c} : client'[d] = client[d]
        /\ client'[c].state = "requested"
    BY <1>0, <2>1 DEF ClientState
  <2>7. ~Told(c)' /\ ~Unanswered(c)'
    BY <2>4, <2>5, <2>6 DEF Told, Unanswered, Box
  <2>8. Stands(c)
    BY <2>3, <2>4, <2>5, <2>7 DEF Stands, ForwardInv, NobodyStops, Promised, KeepsJob
  <2> QED BY <2>4, <2>5, <2>6, <2>8, OneStands
<1>2. CASE ClientReads(c) \/ ClientOccurrence(c)
  <2>1. UNCHANGED handler /\ ClientEffect(c)
    BY <1>2, ClientEffects DEF ClientReads, ClientOccurrence
  <2>2. \A m \in Box(link'[c].inbox) : m.type # "stop"
    BY <2>1 DEF ClientEffect, ForwardInv, NobodyStops, SessionTypes
  <2>3. \/ client'[c].state \notin {"requested", "forwarding"}
        \/ /\ link'[c].inbox = link[c].inbox /\ link'[c].peer = link[c].peer
           /\ client[c].state \in {"requested", "forwarding"}
           /\ Told(c)' => Told(c)
    BY <1>2, ClientForwards
  <2>4. (Told(c)' => client'[c].state \in {"requested", "forwarding"})
        /\ (Unanswered(c)' <=> Unanswered(c))
    BY <2>1 DEF Told, Unanswered
  <2>5. Stands(c)
    BY <2>1, <2>2, <2>3, <2>4
       DEF Stands, ForwardInv, NobodyStops, WaitingAreConnected, ToldAreAtRest, Promised
  <2> QED BY <2>1, <2>5, OneStands DEF ClientEffect, OnlyHandler
<1> QED BY <1>1, <1>2

------------------------------------------------------------------------------
(* What becomes of the routes, and the theorem. *)

(* Only a removal or a clear takes a route away, and clears come with a shutdown. *)
LEMMA RoutesStandFast ==
    ASSUME IInv, KeptInv, [Next]_vars
    PROVE  ProcessEnds \/ RoutesStand
<1>1. ASSUME UNCHANGED registry PROVE RoutesStand
  BY <1>1 DEF RoutesStand, RouteSessions
<1>2. ASSUME NEW c \in Conns, ReadRegister(c) PROVE RoutesStand
  BY <1>1, <1>2 DEF ReadRegister
<1>3. ASSUME NEW c \in Conns, RegisterRoute(c) PROVE RoutesStand
  <2>1. ASSUME NEW route \in Route, registry.bySlug[route.slug] = NoRoute,
               registry' = AddRoute(registry, route)
        PROVE  RoutesStand
    <3>1. Routes(registry') = Routes(registry) \cup {route}
      BY <2>1, RoutesAfterAdd DEF IInv, Typed, SystemTypeOK, TypeOK
    <3>2. RouteSessions' = {r.session : r \in Routes(registry')}
      BY DEF RouteSessions, Routes
    <3> QED BY <3>1, <3>2, RouteSessionsOfRoutes DEF RoutesStand
  <2> QED BY <1>1, <1>3, <2>1, RegisterRouteEffect DEF IInv
<1>4. ASSUME NEW c \in Conns, RemoveRoutes(c) PROVE RoutesStand
  <2>1. /\ handler[c].pc = "rmRoutes" /\ handler[c].target \in Sessions
        /\ registry' = RemoveSession(registry, handler[c].target) /\ registry \in Registry
    BY <1>4 DEF RemoveRoutes, At, IInv, Typed, SystemTypeOK, TypeOK, TargetsAreSessions,
                SessionLabels
  <2>2. Routes(registry') = {r \in Routes(registry) : r.session # handler[c].target}
    BY <2>1, RoutesAfterRemove DEF IInv, RegistryConsistent
  <2>3. RouteSessions' = {r.session : r \in Routes(registry')}
    BY DEF RouteSessions, Routes
  <2> QED BY <2>1, <2>2, <2>3, RouteSessionsOfRoutes DEF RoutesStand
<1>5. ASSUME (\E c \in Conns : KillClears(c)) \/ FatalClears PROVE RoutesStand
  BY <1>5 DEF KillClears, FatalClears, At, MainAt, KeptInv, ShutdownIsKnown, KillLabels, RoutesStand
<1> QED BY <1>1, <1>2, <1>3, <1>4, <1>5, StepKinds DEF Quiet

(* Only a running daemon takes steps. *)
LEMMA DaemonRuns == DaemonNext => Running
<1> SUFFICES ASSUME DaemonNext PROVE Running
  OBVIOUS
<1>1. ASSUME NEW c \in Conns, HandlerStep(c) \/ StatsTick(c) \/ WriterFails(c) \/ ReadError(c)
      PROVE  Running
  <2>1. \A types : Receive(c, types) => Running
    BY DEF Receive, At
  <2>2. CASE \/ Accept(c) \/ ReadRegister(c) \/ RegisterRoute(c) \/ RegisterOwner(c)
             \/ RegisterActive(c) \/ ReadUnregister(c) \/ ReadAcknowledged(c) \/ ReadDisconnect(c)
    BY <2>1, <2>2
       DEF Accept, ReadRegister, RegisterRoute, RegisterOwner, RegisterActive, ReadUnregister,
           ReadAcknowledged, ReadDisconnect, At
  <2>3. CASE \/ RemoveRoutes(c) \/ RemoveOwner(c) \/ RemoveAck(c) \/ CheckEmpty(c)
             \/ MarkIdle(c) \/ ReadList(c) \/ ReadStop(c) \/ StopInsertsAck(c)
    BY <2>1, <2>3
       DEF RemoveRoutes, RemoveOwner, RemoveAck, CheckEmpty, MarkIdle, ReadList, ReadStop,
           StopInsertsAck, At
  <2>4. CASE \/ StopLooksUp(c) \/ SendTerminate(c) \/ StopArms(c) \/ StopTimesOut(c)
             \/ ReadKill(c) \/ KillClears(c) \/ KillSnapshots(c) \/ SendReply(c)
    BY <2>1, <2>4
       DEF StopLooksUp, SendTerminate, StopArms, StopTimesOut, ReadKill, KillClears,
           KillSnapshots, SendReply, At
  <2>5. CASE StatsTick(c) \/ WriterFails(c) \/ ReadError(c)
    BY <2>5 DEF StatsTick, WriterFails, ReadError, At
  <2> QED BY <1>1, <2>2, <2>3, <2>4, <2>5 DEF HandlerStep
<1>2. CASE \/ IdleElapses \/ IdleStep \/ KillDelayEnds \/ AcceptEnds \/ MainStep
           \/ CloudflaredExits \/ Cancelled \/ DaemonCrashes
  BY <1>2 DEF IdleElapses, IdleStep, IdleExpires, IdleShutsDown, IdleCancelled, KillDelayEnds,
              AcceptEnds, MainStep, MainFindsExit, FatalSnapshots, SendFatal, FatalClears,
              MainLeavesLoop, MainStopsCloudflared, MainExits, CloudflaredExits, Cancelled,
              DaemonCrashes, MainAt, Running
<1> QED BY <1>1, <1>2 DEF DaemonNext, Occurrence

(* Every step stands, or ends the process. *)
LEMMA EveryStepStands ==
    ASSUME NoStops, IInv, SessionInv, KeptInv, ForwardInv, [Next]_vars
    PROVE  \/ ProcessEnds /\ UNCHANGED client
           \/ (Running' => Running) /\ \A d \in Conns : Stands(d)
<1>1. CASE DaemonNext /\ UNCHANGED client
  <2>1. Running
    BY <1>1, DaemonRuns
  <2>2. CASE \E c \in Conns : HandlerStep(c) \/ ReadError(c)
    BY <1>1, <2>1, <2>2, RegisterStands, LeaveStands, RequestStands, AnswerStands DEF HandlerStep
  <2>3. CASE \/ \E c \in Conns : StatsTick(c) \/ WriterFails(c)
             \/ IdleElapses \/ IdleStep \/ KillDelayEnds \/ AcceptEnds
             \/ CloudflaredExits \/ Cancelled
             \/ MainFindsExit \/ FatalSnapshots \/ SendFatal \/ FatalClears \/ MainLeavesLoop
             \/ MainStopsCloudflared
    BY <1>1, <2>1, <2>3, TaskStands
  <2>4. CASE MainExits \/ DaemonCrashes
    BY <1>1, <2>4 DEF MainExits, DaemonCrashes
  <2> QED BY <1>1, <2>1, <2>2, <2>3, <2>4 DEF DaemonNext, Occurrence, MainStep
<1>2. CASE \E c \in Conns : Connect(c) \/ ClientReads(c) \/ ClientOccurrence(c)
  <2>1. UNCHANGED main
    BY <1>2 DEF Connect, ClientReads, ClientOccurrence, taskVars
  <2> QED BY <1>2, <2>1, ClientStands DEF Running
<1>3. CASE UNCHANGED vars
  <2>1. UNCHANGED <<handler, link, client, main>>
    BY <1>3 DEF vars, daemonVars, taskVars
  <2> QED BY <2>1, SameStands DEF KeepsJob, Running
<1> QED BY <1>1, <1>2, <1>3 DEF Next

(* The invariant is inductive, given those of the refinement, the sessions and the keepers. *)
LEMMA ForwardInvNext ==
    NoStops /\ IInv /\ SessionInv /\ KeptInv /\ ForwardInv /\ [Next]_vars => ForwardInv'
<1> SUFFICES ASSUME NoStops, IInv, SessionInv, KeptInv, ForwardInv, [Next]_vars
             PROVE  ForwardInv'
  OBVIOUS
<1>1. CASE ProcessEnds /\ UNCHANGED client
  <2>1. /\ \A d \in Conns : handler'[d].job = NoJob
        /\ UNCHANGED <<link, client>> /\ ~Running'
    BY <1>1 DEF ProcessEnds, Rest, NoHandler, Running
  <2>2. NobodyStops' /\ WaitingAreConnected'
    BY <2>1 DEF ForwardInv, NobodyStops, WaitingAreConnected, NoJob
  <2> QED BY <2>1, <2>2 DEF ForwardInv, ToldAreAtRest, PromisesAreKept
<1>2. CASE ~(ProcessEnds /\ UNCHANGED client)
  <2>1. (Running' => Running) /\ \A d \in Conns : Stands(d)
    BY <1>2, EveryStepStands
  <2>2. shuttingDown => shuttingDown'
    BY <1>2, KeptSteps DEF KeptStep, MainKeeps
  <2>3. Running' => RoutesStand
    <3>1. ProcessEnds \/ RoutesStand
      BY RoutesStandFast
    <3>2. ProcessEnds => ~Running'
      BY DEF ProcessEnds, Running
    <3> QED BY <3>1, <3>2
  <2> QED BY <2>1, <2>2, <2>3, StandingKeeps
<1> QED BY <1>1, <1>2

(* A fresh daemon has told nobody of a session. *)
LEMMA ForwardInvInit == Init => ForwardInv
<1> SUFFICES ASSUME Init PROVE ForwardInv
  OBVIOUS
<1>1. ASSUME NEW d \in Conns
      PROVE  /\ handler[d].pc = "absent" /\ handler[d].job = NoJob
             /\ link[d].inbox = <<>> /\ client[d].state = "new"
  BY DEF Init, DaemonInit, NoHandler, NoLink
<1>2. \A d \in Conns : ~Told(d) /\ ~Unanswered(d)
  BY <1>1 DEF Told, Unanswered
<1> QED BY <1>1, <1>2 DEF ForwardInv, NobodyStops, WaitingAreConnected, ToldAreAtRest,
                          PromisesAreKept, Promised, NoJob, Box

(* Where nobody uses `stop`, whatever else happens (clients that crash, are interrupted or are     *)
(* told to go, writers that fail, unreadable frames), an owner that shows a running forward has    *)
(* its route until the daemon shuts down (main.rs:230-284, mod.rs:253-370).  A `stop` that times   *)
(* out before the owner has read Terminate takes the route first: that is what the alternatives    *)
(* of the property are for, and StopRace.cfg shows that they do not cover everything.              *)
THEOREM ForwardsHaveRoutes ==
    ASSUME \A c \in Conns : Requests[c] \cap StopMessage = {}
    PROVE  Safety => []ForwardsAreReal
<1>1. NoStops
  BY DEF NoStops
<1>2. ForwardInv /\ IInv /\ SessionInv /\ KeptInv /\ [Next]_vars => ForwardInv'
  BY <1>1, ForwardInvNext
<1>3. ForwardInv /\ IInv /\ KeptInv => ForwardsAreReal
  <2> SUFFICES ASSUME ForwardInv, IInv, KeptInv, NEW c \in Conns,
                      Is(c, "forwarding"), Running, ~shuttingDown
               PROVE  HasRoute(client[c].session)
    BY DEF ForwardsAreReal
  <2>1. handler[c].owned \in RouteSessions
    BY DEF ForwardInv, PromisesAreKept, Promised, Told, Is
  <2>2. handler[c].owned # NoSession /\ client[c].session # NoSession
    BY <2>1, SessionFacts DEF IInv, Typed, OwnersKnowSessions, Is
  <2>3. handler[c].owned = client[c].session
    BY <2>2 DEF KeptInv, ConnectionOK, NamesOwn
  <2> QED BY <2>1, <2>3, HasRouteIs
<1> QED BY <1>2, <1>3, ForwardInvInit, KeptInvariant, SessionInvariant, IInvInvariant, PTL DEF Safety
=============================================================================
