---------------------------- MODULE FwSystemProofs ----------------------------
(***************************************************************************)
(* Theorems about FwSystem for every number of connections, ports, slugs   *)
(* and sessions, every channel capacity and every set of occurrences.      *)
(***************************************************************************)
EXTENDS FwSystem, RegistryProofs, FiniteSetTheorems

------------------------------------------------------------------------------
(* The inductive invariant. *)

(* The labels at which a handler works on a session. *)
SessionLabels ==
    {"regRoute", "regOwner", "regActive", "stopAck", "stopLookup", "stopSend", "stopArm",
     "stopWait", "rmRoutes", "rmOwner", "rmAck", "rmCheck", "rmIdle"}

TargetsAreSessions ==
    \A c \in Conns : handler[c].pc \in SessionLabels => handler[c].target \in Sessions

(* An owner that forwards was told its session. *)
OwnersKnowSessions ==
    \A c \in Conns : client[c].state = "forwarding" => client[c].session \in Sessions

Typed == SystemTypeOK /\ TargetsAreSessions /\ OwnersKnowSessions

------------------------------------------------------------------------------
(* Messages and channels. *)

(* A message of some kind carries what that kind carries (protocol.rs, ClientMessage). *)
LEMMA ClientMessageKinds ==
    ASSUME NEW m \in ClientMessage
    PROVE  /\ m.type = "register" => m \in RegisterMessage
           /\ m.type \in {"unregister", "terminateAcknowledged"} => m.session \in Sessions
           /\ m.type = "stop" => m.selector \in Selectors
BY DEF ClientMessage, RegisterMessage, SessionMessage, StopMessage, PlainMessage

(* ... and so does an answer (protocol.rs, ServerMessage). *)
LEMMA ServerMessageKinds ==
    /\ \A type \in AnswerTypes, n \in Sessions : Msg(type, n) \in ServerMessage
    /\ \A type \in PlainTypes : Plain(type) \in ServerMessage
    /\ \A m \in ServerMessage : m.type \in AnswerTypes => m.session \in Sessions
BY DEF ServerMessage, AnswerTypes, PlainTypes, Msg, Plain

(* A send keeps the channels well typed. *)
LEMMA SentType ==
    ASSUME link \in [Conns -> Link], NEW c \in Conns, NEW m \in ServerMessage
    PROVE  Sent(c, m) \in [Conns -> Link]
<1>1. link[c] \in Link /\ Append(link[c].outbox, m) \in Seq(ServerMessage)
  BY DEF Link
<1>2. [link[c] EXCEPT !.outbox = Append(@, m)] \in Link
  BY <1>1 DEF Link
<1> QED BY <1>1, <1>2 DEF Sent

(* What read_frame returns is a message of the expected kind. *)
LEMMA ReceiveType ==
    ASSUME link \in [Conns -> Link], NEW c \in Conns, NEW types, Receive(c, types)
    PROVE  /\ Head(link[c].inbox) \in ClientMessage
           /\ Head(link[c].inbox).type \in types
           /\ link' \in [Conns -> Link]
<1>1. link[c] \in Link /\ link[c].inbox \in Seq(ClientMessage) /\ link[c].inbox # <<>>
  BY DEF Receive, Link
<1>2. Head(link[c].inbox) \in ClientMessage /\ Tail(link[c].inbox) \in Seq(ClientMessage)
  BY <1>1
<1>3. [link[c] EXCEPT !.inbox = Tail(@)] \in Link
  BY <1>1, <1>2 DEF Link
<1> QED BY <1>2, <1>3 DEF Receive

(* A snapshot of the owners is a sequence of connections, in whatever order the map is iterated. *)
LEMMA OwnerQueueType ==
    ASSUME owners \in [Sessions -> Conns \cup {NoConn}], NEW queue \in OwnerQueues
    PROVE  queue \in Seq(Conns)
<1>1. IsFiniteSet(Owning)
  <2>1. Sessions \in SUBSET Int /\ IsFiniteSet(Sessions)
    BY FS_Interval, MaxSessionAssumption DEF Sessions
  <2> QED BY <2>1, FS_Subset DEF Owning
<1>2. Cardinality(Owning) \in Nat
  BY <1>1, FS_CardinalityType
<1>3. PICK order \in [1..Cardinality(Owning) -> Owning] :
          queue = [i \in 1..Cardinality(Owning) |-> owners[order[i]]]
  BY DEF OwnerQueues
<1>4. \A n \in Owning : owners[n] \in Conns
  BY DEF Owning
<1>5. queue \in [1..Cardinality(Owning) -> Conns]
  BY <1>3, <1>4
<1> QED BY <1>2, <1>5

------------------------------------------------------------------------------
(* Type correctness. *)

(* A handler between two requests. *)
LEMMA RestType ==
    ASSUME NEW label \in HandlerLabels, NEW n \in Sessions \cup {NoSession}
    PROVE  /\ Rest(label, n) \in Handler
           /\ Rest(label, n).pc = label
           /\ Rest(label, n).target = NoSession
<1>1. Plain("none") \in ServerMessage
  BY ServerMessageKinds DEF PlainTypes
<1>2. NoHandler \in Handler /\ NoHandler.target = NoSession
  BY <1>1 DEF NoHandler, Handler, HandlerLabels
<1> QED BY <1>2 DEF Rest, Handler

(* A handler that sends its answer. *)
LEMMA ReplyingType ==
    ASSUME NEW h \in Handler, NEW m \in ServerMessage
    PROVE  Replying(h, m) \in Handler /\ Replying(h, m).pc = "reply"
BY DEF Replying, Handler, HandlerLabels

(* A handler that has removed a session. *)
LEMMA AfterRemovalType ==
    ASSUME NEW h \in Handler, h.target \in Sessions
    PROVE  AfterRemoval(h) \in Handler /\ AfterRemoval(h).pc \notin SessionLabels
<1>1. /\ Msg("unregistered", h.target) \in ServerMessage
      /\ Msg("stopped", h.target) \in ServerMessage
  BY ServerMessageKinds DEF AnswerTypes
<1>2. /\ Rest("reading", NoSession) \in Handler /\ Rest("reading", NoSession).pc = "reading"
      /\ Rest("done", NoSession) \in Handler /\ Rest("done", NoSession).pc = "done"
  BY RestType DEF HandlerLabels
<1> QED BY <1>1, <1>2, ReplyingType DEF AfterRemoval, SessionLabels

(* One handler moves: the handlers stay well typed, and know their targets. *)
HandlersOK == handler \in [Conns -> Handler] /\ TargetsAreSessions

(* Giving one handler a well-formed value keeps the handlers well-formed. *)
LEMMA UpdateOK ==
    ASSUME HandlersOK, NEW c \in Conns, NEW h \in Handler,
           h.pc \in SessionLabels => h.target \in Sessions,
           handler' = [handler EXCEPT ![c] = h]
    PROVE  HandlersOK'
BY DEF HandlersOK, TargetsAreSessions

(* So does moving one to a label that has its session, *)
LEMMA GotoOK ==
    ASSUME HandlersOK, NEW c \in Conns, NEW label \in HandlerLabels,
           label \in SessionLabels => handler[c].target \in Sessions,
           Goto(c, label)
    PROVE  HandlersOK'
<1>1. [handler[c] EXCEPT !.pc = label] \in Handler
  BY DEF HandlersOK, Handler
<1> QED BY <1>1, UpdateOK DEF Goto, HandlersOK, Handler

(* so does an answer, *)
LEMMA GotoReplyOK ==
    ASSUME HandlersOK, NEW c \in Conns, NEW m \in ServerMessage, GotoReply(c, m)
    PROVE  HandlersOK'
<1>1. Replying(handler[c], m) \in Handler /\ Replying(handler[c], m).pc = "reply"
  BY ReplyingType DEF HandlersOK
<1> QED BY <1>1, UpdateOK DEF GotoReply, SessionLabels

(* so does a refusal, *)
LEMMA RefuseOK ==
    ASSUME HandlersOK, NEW c \in Conns, Refuse(c)
    PROVE  HandlersOK'
BY GotoReplyOK, ServerMessageKinds DEF Refuse, GotoReply, PlainTypes

(* and so does taking a request off the channel. *)
LEMMA BeginOK ==
    ASSUME HandlersOK, NEW c \in Conns, NEW label \in HandlerLabels,
           NEW n \in Sessions \cup {NoSession}, label \in SessionLabels => n \in Sessions,
           Head(link[c].inbox) \in ClientMessage, Begin(c, label, n)
    PROVE  HandlersOK'
<1> DEFINE h == [handler[c] EXCEPT !.pc = label, !.target = n, !.job = Head(link[c].inbox)]
<1>1. h \in Handler /\ h.pc = label /\ h.target = n
  BY DEF HandlersOK, Handler
<1>2. handler' = [handler EXCEPT ![c] = h]
  BY DEF Begin, HandlersOK, Handler
<1> QED BY <1>1, <1>2, UpdateOK

------------------------------------------------------------------------------
(* One lemma per group of actions. *)

(* Accepting a connection and every step of a registration. *)
LEMMA RegisterTyped ==
    ASSUME Typed, NEW c \in Conns, UNCHANGED client,
           \/ Accept(c) \/ ReadRegister(c) \/ RegisterRoute(c) \/ RegisterOwner(c)
           \/ RegisterActive(c)
    PROVE  Typed'
<1> USE DEF Typed, SystemTypeOK, TypeOK, OwnersKnowSessions, HandlersOK
<1>1. CASE Accept(c)
  <2>1. HandlersOK'
    BY <1>1, GotoOK DEF Accept, HandlerLabels, SessionLabels
  <2> QED BY <1>1, <2>1 DEF Accept, sharedVars, taskVars
<1>2. CASE ReadRegister(c)
  <2>1. Head(link[c].inbox) \in ClientMessage /\ link' \in [Conns -> Link]
    BY <1>2, ReceiveType DEF ReadRegister
  <2>2. HandlersOK' /\ issued' \in 0..MaxSession
    <3>1. CASE Refuse(c) /\ UNCHANGED issued
      BY <3>1, RefuseOK
    <3>2. CASE issued < MaxSession /\ issued' = issued + 1 /\ Begin(c, "regRoute", issued + 1)
      <4>1. issued + 1 \in Sessions
        BY <3>2, MaxSessionAssumption DEF Sessions
      <4>2. HandlersOK'
        BY <3>2, <4>1, <2>1, BeginOK DEF HandlerLabels
      <4> QED BY <4>1, <4>2, <3>2 DEF Sessions
    <3> QED BY <3>1, <3>2, <1>2 DEF ReadRegister
  <2> QED BY <1>2, <2>1, <2>2 DEF ReadRegister, taskVars
<1>3. CASE RegisterRoute(c)
  <2>1. PICK m \in RegisterMessage :
            \/ UNCHANGED registry /\ GotoReply(c, Plain("error"))
            \/ \E slug \in SlugChoices(registry, m.port, m.slug) :
                  /\ registry' = AddRoute(registry, [slug |-> slug, port |-> m.port,
                                                     session |-> handler[c].target])
                  /\ handler' = [handler EXCEPT ![c].pc = "regOwner", ![c].slug = slug,
                                                ![c].owned = handler[c].target]
    BY <1>3 DEF RegisterRoute
  <2>2. HandlersOK' /\ registry' \in Registry
    <3>1. CASE UNCHANGED registry /\ GotoReply(c, Plain("error"))
      BY <3>1, GotoReplyOK, ServerMessageKinds DEF PlainTypes
    <3>2. ASSUME NEW slug \in SlugChoices(registry, m.port, m.slug),
                 registry' = AddRoute(registry, [slug |-> slug, port |-> m.port,
                                                 session |-> handler[c].target]),
                 handler' = [handler EXCEPT ![c].pc = "regOwner", ![c].slug = slug,
                                            ![c].owned = handler[c].target]
          PROVE  HandlersOK' /\ registry' \in Registry
      <4>1. m.port \in Ports /\ m.slug \in Slugs \cup {NoSlug} /\ slug \in Slugs
        BY SlugChoicesAreFree DEF RegisterMessage
      <4>2. handler[c].target \in Sessions
        BY <1>3 DEF RegisterRoute, At, TargetsAreSessions, SessionLabels
      <4>3. registry' \in Registry
        BY <3>2, <4>1, <4>2, AddRouteType DEF Route
      <4> DEFINE h == [handler[c] EXCEPT !.pc = "regOwner", !.slug = slug,
                                         !.owned = handler[c].target]
      <4>4. h \in Handler /\ h.target \in Sessions
        <5>1. handler[c] \in Handler
          OBVIOUS
        <5>2. \A k \in Handler : [k EXCEPT !.pc = "regOwner", !.slug = slug,
                                          !.owned = handler[c].target] \in Handler
          BY <4>1, <4>2 DEF Handler, HandlerLabels
        <5> QED BY <5>1, <5>2, <4>2 DEF Handler
      <4>5. handler' = [handler EXCEPT ![c] = h]
        BY <3>2 DEF Handler
      <4> QED BY <4>3, <4>4, <4>5, UpdateOK
    <3> QED BY <2>1, <3>1, <3>2
  <2>3. UNCHANGED <<owners, acks, issued, shuttingDown, idle, shutdown, stats, taskVars, link>>
    BY <1>3 DEF RegisterRoute
  <2> QED BY <2>2, <2>3 DEF taskVars
<1>4. CASE RegisterOwner(c)
  <2>1. handler[c].target \in Sessions
    BY <1>4 DEF RegisterOwner, At, TargetsAreSessions, SessionLabels
  <2>2. HandlersOK'
    BY <1>4, <2>1, GotoOK DEF RegisterOwner, HandlerLabels
  <2>3. owners' \in [Sessions -> Conns \cup {NoConn}]
    BY <1>4, <2>1 DEF RegisterOwner
  <2> QED BY <1>4, <2>2, <2>3 DEF RegisterOwner, taskVars
<1>5. CASE RegisterActive(c)
  <2>1. handler[c].target \in Sessions
    BY <1>5 DEF RegisterActive, At, TargetsAreSessions, SessionLabels
  <2>2. HandlersOK'
    BY <1>5, <2>1, GotoReplyOK, ServerMessageKinds DEF RegisterActive, AnswerTypes
  <2> QED BY <1>5, <2>2 DEF RegisterActive, taskVars
<1> QED BY <1>1, <1>2, <1>3, <1>4, <1>5

(* Reading an owner's last messages and every step of remove_session. *)
LEMMA RemoveTyped ==
    ASSUME Typed, NEW c \in Conns, UNCHANGED client,
           \/ ReadUnregister(c) \/ ReadAcknowledged(c) \/ ReadDisconnect(c) \/ ReadError(c)
           \/ RemoveRoutes(c) \/ RemoveOwner(c) \/ RemoveAck(c) \/ CheckEmpty(c) \/ MarkIdle(c)
    PROVE  Typed'
<1> USE DEF Typed, SystemTypeOK, TypeOK, OwnersKnowSessions, HandlersOK
<1>1. CASE ReadUnregister(c)
  <2>1. /\ Head(link[c].inbox) \in ClientMessage
        /\ Head(link[c].inbox).session \in Sessions
        /\ link' \in [Conns -> Link]
    BY <1>1, ReceiveType, ClientMessageKinds DEF ReadUnregister
  <2>2. HandlersOK'
    BY <1>1, <2>1, BeginOK, RefuseOK DEF ReadUnregister, HandlerLabels
  <2> QED BY <1>1, <2>1, <2>2 DEF ReadUnregister, sharedVars, taskVars
<1>2. CASE ReadAcknowledged(c)
  <2>1. /\ Head(link[c].inbox) \in ClientMessage
        /\ Head(link[c].inbox).session \in Sessions
        /\ link' \in [Conns -> Link]
    BY <1>2, ReceiveType, ClientMessageKinds DEF ReadAcknowledged
  <2>2. HandlersOK'
    <3>1. CASE UNCHANGED handler
      BY <3>1 DEF TargetsAreSessions
    <3>2. CASE Begin(c, "rmRoutes", Head(link[c].inbox).session)
      BY <3>2, <2>1, BeginOK DEF HandlerLabels
    <3> QED BY <3>1, <3>2, <1>2 DEF ReadAcknowledged
  <2> QED BY <1>2, <2>1, <2>2 DEF ReadAcknowledged, sharedVars, taskVars
<1>3. CASE ReadDisconnect(c)
  <2>1. handler[c] \in Handler
    OBVIOUS
  <2>2. HandlersOK'
    <3>1. CASE handler[c].owned = NoSession
      <4>1. handler' = [handler EXCEPT ![c] = Rest("done", NoSession)]
        BY <1>3, <3>1 DEF ReadDisconnect
      <4>2. /\ Rest("done", NoSession) \in Handler
            /\ Rest("done", NoSession).pc \notin SessionLabels
        BY RestType DEF HandlerLabels, SessionLabels
      <4> QED BY <4>1, <4>2, UpdateOK
    <3>2. CASE handler[c].owned # NoSession
      <4> DEFINE h == [handler[c] EXCEPT !.pc = "rmRoutes", !.job = Disconnect,
                                         !.target = handler[c].owned]
      <4>1. h \in Handler /\ h.target \in Sessions
        BY <2>1, <3>2 DEF Handler, HandlerLabels
      <4>2. handler' = [handler EXCEPT ![c] = h]
        BY <1>3, <3>2 DEF ReadDisconnect
      <4> QED BY <4>1, <4>2, UpdateOK
    <3> QED BY <3>1, <3>2
  <2> QED BY <1>3, <2>2 DEF ReadDisconnect, sharedVars, taskVars
<1>4. CASE ReadError(c)
  <2>1. handler[c].owned \in Sessions \cup {NoSession}
    BY DEF Handler
  <2>2. /\ Rest("failed", handler[c].owned) \in Handler
        /\ Rest("failed", handler[c].owned).pc \notin SessionLabels
    BY <2>1, RestType DEF HandlerLabels, SessionLabels
  <2>3. handler' = [handler EXCEPT ![c] = Rest("failed", handler[c].owned)]
    BY <1>4 DEF ReadError
  <2>4. HandlersOK'
    BY <2>2, <2>3, UpdateOK
  <2> QED BY <1>4, <2>4 DEF ReadError, sharedVars, taskVars
<1>5. CASE RemoveRoutes(c)
  <2>1. handler[c].target \in Sessions
    BY <1>5 DEF RemoveRoutes, At, TargetsAreSessions, SessionLabels
  <2>2. HandlersOK'
    BY <1>5, <2>1, GotoOK DEF RemoveRoutes, HandlerLabels
  <2>3. registry' \in Registry
    BY <1>5, <2>1, RemoveSessionType DEF RemoveRoutes
  <2> QED BY <1>5, <2>2, <2>3 DEF RemoveRoutes, taskVars
<1>6. CASE RemoveOwner(c)
  <2>1. handler[c].target \in Sessions
    BY <1>6 DEF RemoveOwner, At, TargetsAreSessions, SessionLabels
  <2>2. HandlersOK'
    BY <1>6, <2>1, GotoOK DEF RemoveOwner, HandlerLabels
  <2>3. owners' \in [Sessions -> Conns \cup {NoConn}]
    BY <1>6, <2>1 DEF RemoveOwner
  <2> QED BY <1>6, <2>2, <2>3 DEF RemoveOwner, taskVars
<1>7. CASE RemoveAck(c)
  <2>1. handler[c].target \in Sessions
    BY <1>7 DEF RemoveAck, At, TargetsAreSessions, SessionLabels
  <2> DEFINE h(d) == IF d = c THEN [handler[d] EXCEPT !.pc = "rmCheck"]
                     ELSE IF d = acks[handler[c].target] /\ handler[d].pc = "stopWait"
                     THEN Replying(handler[d], Msg("stopped", handler[d].target))
                     ELSE handler[d]
  <2>2. ASSUME NEW d \in Conns
        PROVE  h(d) \in Handler /\ (h(d).pc \in SessionLabels => h(d).target \in Sessions)
    <3>1. CASE d = c
      <4>1. h(d) = [handler[d] EXCEPT !.pc = "rmCheck"]
        BY <3>1
      <4>2. \A k \in Handler : /\ [k EXCEPT !.pc = "rmCheck"] \in Handler
                               /\ [k EXCEPT !.pc = "rmCheck"].target = k.target
        BY DEF Handler, HandlerLabels
      <4>3. handler[d] \in Handler
        OBVIOUS
      <4> HIDE DEF h
      <4> QED BY <4>1, <4>2, <4>3, <3>1, <2>1
    <3>2. CASE d # c /\ d = acks[handler[c].target] /\ handler[d].pc = "stopWait"
      <4>1. handler[d].target \in Sessions
        BY <3>2 DEF TargetsAreSessions, SessionLabels
      <4>2. Msg("stopped", handler[d].target) \in ServerMessage
        BY <4>1, ServerMessageKinds DEF AnswerTypes
      <4>3. h(d) = Replying(handler[d], Msg("stopped", handler[d].target))
        BY <3>2
      <4>4. handler[d] \in Handler
        OBVIOUS
      <4>5. /\ Replying(handler[d], Msg("stopped", handler[d].target)) \in Handler
            /\ Replying(handler[d], Msg("stopped", handler[d].target)).pc = "reply"
        BY <4>2, <4>4, ReplyingType
      <4> HIDE DEF h
      <4> QED BY <4>3, <4>5 DEF SessionLabels
    <3>3. CASE d # c /\ ~(d = acks[handler[c].target] /\ handler[d].pc = "stopWait")
      BY <3>3 DEF TargetsAreSessions
    <3> QED BY <3>1, <3>2, <3>3
  <2>3. handler' = [d \in Conns |-> h(d)] /\ acks' = [acks EXCEPT ![handler[c].target] = NoConn]
    BY <1>7 DEF RemoveAck
  <2> HIDE DEF h
  <2>4. HandlersOK'
    BY <2>2, <2>3 DEF TargetsAreSessions
  <2>5. acks' \in [Sessions -> Conns \cup {NoConn}]
    BY <2>1, <2>3
  <2> QED BY <1>7, <2>4, <2>5 DEF RemoveAck, taskVars
<1>8. CASE CheckEmpty(c)
  <2>1. handler[c] \in Handler /\ handler[c].target \in Sessions
    BY <1>8 DEF CheckEmpty, At, TargetsAreSessions, SessionLabels
  <2>2. HandlersOK'
    <3>1. CASE IsEmpty(registry)
      <4>1. Goto(c, "rmIdle")
        BY <1>8, <3>1 DEF CheckEmpty, Goto
      <4> QED BY <4>1, <2>1, GotoOK DEF HandlerLabels
    <3>2. CASE ~IsEmpty(registry)
      <4>1. handler' = [handler EXCEPT ![c] = AfterRemoval(handler[c])]
        BY <1>8, <3>2 DEF CheckEmpty
      <4> QED BY <4>1, <2>1, AfterRemovalType, UpdateOK
    <3> QED BY <3>1, <3>2
  <2> QED BY <1>8, <2>2 DEF CheckEmpty, sharedVars, taskVars
<1>9. CASE MarkIdle(c)
  <2>1. handler[c] \in Handler /\ handler[c].target \in Sessions
    BY <1>9 DEF MarkIdle, At, TargetsAreSessions, SessionLabels
  <2>2. HandlersOK'
    BY <1>9, <2>1, AfterRemovalType, UpdateOK DEF MarkIdle
  <2> QED BY <1>9, <2>2 DEF MarkIdle, taskVars
<1> QED BY <1>1, <1>2, <1>3, <1>4, <1>5, <1>6, <1>7, <1>8, <1>9

(* `list`, and every step of `stop` but the send. *)
LEMMA StopTyped ==
    ASSUME Typed, NEW c \in Conns, UNCHANGED client,
           \/ ReadList(c) \/ ReadStop(c) \/ StopInsertsAck(c) \/ StopLooksUp(c)
           \/ StopArms(c) \/ StopTimesOut(c)
    PROVE  Typed'
<1> USE DEF Typed, SystemTypeOK, TypeOK, OwnersKnowSessions, HandlersOK
<1>1. CASE ReadList(c)
  <2>1. HandlersOK'
    BY <1>1, GotoReplyOK, ServerMessageKinds DEF ReadList, PlainTypes
  <2> QED BY <1>1, <2>1, ReceiveType DEF ReadList, sharedVars, taskVars
<1>2. CASE ReadStop(c)
  <2>1. /\ Head(link[c].inbox) \in ClientMessage
        /\ Head(link[c].inbox).selector \in Selectors
        /\ link' \in [Conns -> Link]
    BY <1>2, ReceiveType, ClientMessageKinds DEF ReadStop
  <2> DEFINE route == Resolve(registry, Head(link[c].inbox).selector)
  <2>2. route # NoRoute => route.session \in Sessions
    BY <2>1, ResolveType DEF Route
  <2>3. Refuse(c) \/ (route # NoRoute /\ Begin(c, "stopAck", route.session))
    BY <1>2 DEF ReadStop
  <2> HIDE DEF route
  <2>4. HandlersOK'
    BY <2>1, <2>2, <2>3, BeginOK, RefuseOK DEF HandlerLabels
  <2> QED BY <1>2, <2>1, <2>4 DEF ReadStop, sharedVars, taskVars
<1>3. CASE StopInsertsAck(c)
  <2>1. handler[c].target \in Sessions
    BY <1>3 DEF StopInsertsAck, At, TargetsAreSessions, SessionLabels
  <2>2. HandlersOK'
    BY <1>3, <2>1, GotoOK DEF StopInsertsAck, HandlerLabels
  <2>3. acks' \in [Sessions -> Conns \cup {NoConn}]
    BY <1>3, <2>1 DEF StopInsertsAck
  <2> QED BY <1>3, <2>2, <2>3 DEF StopInsertsAck, taskVars
<1>4. CASE StopLooksUp(c)
  <2>1. handler[c] \in Handler /\ handler[c].target \in Sessions
    BY <1>4 DEF StopLooksUp, At, TargetsAreSessions, SessionLabels
  <2> DEFINE owner == owners[handler[c].target]
             queue == IF owner = NoConn THEN <<>> ELSE <<owner>>
             h == [handler[c] EXCEPT !.pc = "stopSend", !.queue = queue]
  <2>2. queue \in Seq(Conns)
    BY <2>1
  <2>3. handler' = [handler EXCEPT ![c] = h]
    BY <1>4 DEF StopLooksUp
  <2> HIDE DEF queue
  <2>4. h \in Handler /\ h.target \in Sessions
    BY <2>1, <2>2 DEF Handler, HandlerLabels
  <2>5. HandlersOK'
    BY <2>3, <2>4, UpdateOK
  <2> QED BY <1>4, <2>5 DEF StopLooksUp, sharedVars, taskVars
<1>5. CASE StopArms(c)
  <2>1. HandlersOK'
    BY <1>5, GotoOK DEF StopArms, At, TargetsAreSessions, HandlerLabels, SessionLabels
  <2> QED BY <1>5, <2>1 DEF StopArms, sharedVars, taskVars
<1>6. CASE StopTimesOut(c)
  <2>1. HandlersOK'
    BY <1>6, GotoOK DEF StopTimesOut, At, TargetsAreSessions, HandlerLabels, SessionLabels
  <2> QED BY <1>6, <2>1 DEF StopTimesOut, sharedVars, taskVars
<1> QED BY <1>1, <1>2, <1>3, <1>4, <1>5, <1>6

(* The send of Terminate, and `kill`. *)
LEMMA KillTyped ==
    ASSUME Typed, NEW c \in Conns, UNCHANGED client,
           SendTerminate(c) \/ ReadKill(c) \/ KillClears(c) \/ KillSnapshots(c)
    PROVE  Typed'
<1> USE DEF Typed, SystemTypeOK, TypeOK, OwnersKnowSessions, HandlersOK
<1>1. CASE SendTerminate(c)
  <2> DEFINE stopping == handler[c].pc = "stopSend"
             queue == handler[c].queue
  <2>1. handler[c] \in Handler /\ queue \in Seq(Conns)
    BY DEF Handler
  <2>2. CASE queue = <<>> /\ stopping
    <3>1. Goto(c, "stopArm") /\ handler[c].target \in Sessions
      BY <1>1, <2>2 DEF SendTerminate, Goto, TargetsAreSessions, SessionLabels
    <3>2. HandlersOK'
      BY <3>1, GotoOK DEF HandlerLabels
    <3> QED BY <1>1, <2>2, <3>2 DEF SendTerminate, sharedVars, taskVars
  <2>3. CASE queue = <<>> /\ ~stopping
    <3>1. GotoReply(c, Plain("killAccepted"))
      BY <1>1, <2>3 DEF SendTerminate, GotoReply
    <3>2. HandlersOK'
      BY <3>1, GotoReplyOK, ServerMessageKinds DEF PlainTypes
    <3> QED BY <1>1, <2>3, <3>2 DEF SendTerminate, sharedVars, taskVars
  <2>4. CASE queue # <<>>
    <3>1. Head(queue) \in Conns /\ Tail(queue) \in Seq(Conns)
      BY <2>1, <2>4
    <3> DEFINE h == [handler[c] EXCEPT !.queue = Tail(queue)]
    <3>2. h \in Handler /\ h.pc = handler[c].pc /\ h.target = handler[c].target
      BY <2>1, <3>1 DEF Handler
    <3>3. handler' = [handler EXCEPT ![c] = h]
      BY <1>1, <2>4 DEF SendTerminate
    <3>4. HandlersOK'
      BY <3>2, <3>3, UpdateOK DEF TargetsAreSessions
    <3>5. link' \in [Conns -> Link]
      BY <1>1, <2>4, <3>1, SentType, ServerMessageKinds DEF SendTerminate, PlainTypes
    <3> QED BY <1>1, <3>4, <3>5 DEF SendTerminate, sharedVars, taskVars
  <2> QED BY <2>2, <2>3, <2>4
<1>2. CASE ReadKill(c)
  <2>1. Head(link[c].inbox) \in ClientMessage /\ link' \in [Conns -> Link]
    BY <1>2, ReceiveType DEF ReadKill
  <2>2. HandlersOK'
    BY <1>2, <2>1, BeginOK, RefuseOK DEF ReadKill, HandlerLabels, SessionLabels
  <2> QED BY <1>2, <2>1, <2>2 DEF ReadKill, taskVars
<1>3. CASE KillClears(c)
  <2>1. HandlersOK'
    BY <1>3, GotoOK DEF KillClears, HandlerLabels, SessionLabels
  <2> QED BY <1>3, <2>1, EmptyRegistryConsistent DEF KillClears, taskVars
<1>4. CASE KillSnapshots(c)
  <2>1. PICK queue \in OwnerQueues :
            handler' = [handler EXCEPT ![c].pc = "killSend", ![c].queue = queue]
    BY <1>4 DEF KillSnapshots
  <2>2. queue \in Seq(Conns) /\ handler[c] \in Handler
    BY OwnerQueueType
  <2> DEFINE h == [handler[c] EXCEPT !.pc = "killSend", !.queue = queue]
  <2>3. h \in Handler /\ h.pc \notin SessionLabels
    BY <2>2 DEF Handler, HandlerLabels, SessionLabels
  <2>4. handler' = [handler EXCEPT ![c] = h]
    BY <2>1
  <2>5. HandlersOK'
    BY <2>3, <2>4, UpdateOK
  <2>6. UNCHANGED <<sharedVars, stats, taskVars, link>>
    BY <1>4 DEF KillSnapshots
  <2> QED BY <2>5, <2>6 DEF sharedVars, taskVars
<1> QED BY <1>1, <1>2, <1>3, <1>4

(* What is put into a channel, and a writer that fails. *)
LEMMA ReplyTyped ==
    ASSUME Typed, NEW c \in Conns, UNCHANGED client,
           SendReply(c) \/ StatsTick(c) \/ WriterFails(c)
    PROVE  Typed'
<1> USE DEF Typed, SystemTypeOK, TypeOK, OwnersKnowSessions, HandlersOK
<1>1. CASE SendReply(c)
  <2> DEFINE h == handler[c]
  <2>1. /\ h.owned \in Sessions \cup {NoSession} /\ h.reply \in ServerMessage
        /\ h.slug \in Slugs \cup {NoSlug}
    BY DEF Handler
  <2>2. CASE ~link[c].writer
    <3>1. handler' = [handler EXCEPT ![c] = Rest("failed", h.owned)]
      BY <1>1, <2>2 DEF SendReply
    <3>2. /\ Rest("failed", h.owned) \in Handler
          /\ Rest("failed", h.owned).pc \notin SessionLabels
      BY <2>1, RestType DEF HandlerLabels, SessionLabels
    <3>3. HandlersOK'
      BY <3>1, <3>2, UpdateOK
    <3> QED BY <1>1, <2>2, <3>3 DEF SendReply, sharedVars
  <2>3. CASE link[c].writer
    <3> DEFINE owned == IF h.reply.type = "unregistered" THEN NoSession ELSE h.owned
    <3>1. handler' = [handler EXCEPT ![c] = Rest("reading", owned)]
      BY <1>1, <2>3 DEF SendReply
    <3>2. /\ Rest("reading", owned) \in Handler
          /\ Rest("reading", owned).pc \notin SessionLabels
      BY <2>1, RestType DEF HandlerLabels, SessionLabels
    <3>3. HandlersOK'
      BY <3>1, <3>2, UpdateOK
    <3>4. link' \in [Conns -> Link]
      BY <1>1, <2>1, <2>3, SentType DEF SendReply
    <3>5. /\ stats' \in [Conns -> Slugs \cup {NoSlug}]
          /\ killTimer' \in BOOLEAN
      BY <1>1, <2>1, <2>3 DEF SendReply
    <3> QED BY <1>1, <3>3, <3>4, <3>5 DEF SendReply, sharedVars
  <2> QED BY <2>2, <2>3
<1>2. CASE StatsTick(c)
  <2>1. link' \in [Conns -> Link] /\ stats' \in [Conns -> Slugs \cup {NoSlug}]
    <3>1. Sent(c, Plain("stats")) \in [Conns -> Link]
      BY SentType, ServerMessageKinds DEF PlainTypes
    <3> QED BY <1>2, <3>1 DEF StatsTick
  <2> QED BY <1>2, <2>1 DEF StatsTick, sharedVars, taskVars, TargetsAreSessions
<1>3. CASE WriterFails(c)
  <2>1. link' \in [Conns -> Link]
    BY <1>3 DEF WriterFails, Link
  <2> QED BY <1>3, <2>1 DEF WriterFails, sharedVars, taskVars, TargetsAreSessions
<1> QED BY <1>1, <1>2, <1>3

(* A step that leaves the maps, the channels and the clients alone. *)
LEMMA FlagsTyped ==
    ASSUME Typed, HandlersOK',
           UNCHANGED <<registry, owners, acks, issued, stats, main, link, client>>,
           shuttingDown' \in BOOLEAN, idle' \in {"none", "counting", "elapsed"},
           shutdown' \in BOOLEAN, killTimer' \in BOOLEAN,
           idleTask' \in {"ticking", "expired", "ended"}, accepting' \in BOOLEAN,
           cloudflared' \in {"up", "exited", "stopped"}
    PROVE  Typed'
<1>1. TypeOK /\ client \in [Conns -> ClientState] /\ OwnersKnowSessions
  BY DEF Typed, SystemTypeOK
<1>2. TypeOK'
  BY <1>1 DEF TypeOK, HandlersOK
<1>3. client' \in [Conns -> ClientState] /\ OwnersKnowSessions'
  BY <1>1 DEF OwnersKnowSessions
<1> QED BY <1>2, <1>3 DEF Typed, SystemTypeOK, HandlersOK

(* The idle monitor, the kill's delay, the accept loop, cloudflared's exit and the token. *)
LEMMA TasksTyped ==
    ASSUME Typed, UNCHANGED client,
           \/ IdleElapses \/ IdleStep \/ KillDelayEnds \/ AcceptEnds
           \/ CloudflaredExits \/ Cancelled
    PROVE  Typed'
<1>1. /\ handler \in [Conns -> Handler] /\ HandlersOK
      /\ shuttingDown \in BOOLEAN /\ idle \in {"none", "counting", "elapsed"}
      /\ shutdown \in BOOLEAN /\ killTimer \in BOOLEAN
      /\ idleTask \in {"ticking", "expired", "ended"} /\ accepting \in BOOLEAN
      /\ cloudflared \in {"up", "exited", "stopped"}
  BY DEF Typed, SystemTypeOK, TypeOK, HandlersOK
<1>2. UNCHANGED handler => HandlersOK'
  BY <1>1 DEF HandlersOK, TargetsAreSessions
<1>3. CASE AcceptEnds
  <2>1. /\ Rest("gone", NoSession) \in Handler
        /\ Rest("gone", NoSession).pc \notin SessionLabels
    BY RestType DEF HandlerLabels, SessionLabels
  <2>2. handler' = [c \in Conns |-> IF handler[c].pc = "backlog" THEN Rest("gone", NoSession)
                                    ELSE handler[c]]
    BY <1>3 DEF AcceptEnds
  <2>3. HandlersOK'
    BY <1>1, <2>1, <2>2 DEF HandlersOK, TargetsAreSessions
  <2> QED BY <1>1, <1>3, <2>3, FlagsTyped DEF AcceptEnds, sharedVars
<1>4. CASE IdleElapses
  BY <1>1, <1>2, <1>4, FlagsTyped DEF IdleElapses, taskVars
<1>5. CASE IdleStep
  BY <1>1, <1>2, <1>5, FlagsTyped
     DEF IdleStep, IdleExpires, IdleShutsDown, IdleCancelled, sharedVars
<1>6. CASE KillDelayEnds
  BY <1>1, <1>2, <1>6, FlagsTyped DEF KillDelayEnds
<1>7. CASE CloudflaredExits
  BY <1>1, <1>2, <1>7, FlagsTyped DEF CloudflaredExits, sharedVars
<1>8. CASE Cancelled
  BY <1>1, <1>2, <1>8, FlagsTyped DEF Cancelled, taskVars
<1> QED BY <1>3, <1>4, <1>5, <1>6, <1>7, <1>8

(* The process ends: everything its memory held has its initial type again. *)
LEMMA ProcessEndsTyped ==
    ASSUME Typed, UNCHANGED client, ProcessEnds
    PROVE  Typed'
<1>1. /\ Rest("gone", NoSession) \in Handler
      /\ Rest("gone", NoSession).pc \notin SessionLabels
  BY RestType DEF HandlerLabels, SessionLabels
<1>2. handler' \in [Conns -> Handler] /\ TargetsAreSessions'
  BY <1>1 DEF ProcessEnds, TargetsAreSessions
<1>3. /\ owners' \in [Sessions -> Conns \cup {NoConn}]
      /\ acks' \in [Sessions -> Conns \cup {NoConn}]
      /\ stats' \in [Conns -> Slugs \cup {NoSlug}]
      /\ registry' \in Registry
  BY EmptyRegistryConsistent DEF ProcessEnds
<1>4. main' \in [pc : {"polling", "fatalSnapshot", "fatalSend", "fatalClear", "fatalCancel",
                     "stopping", "draining", "exited"},
               queue : Seq(Conns)]
  BY DEF ProcessEnds
<1>5. /\ killTimer' = FALSE /\ idleTask' = "ended" /\ accepting' = FALSE
      /\ UNCHANGED <<issued, shuttingDown, idle, shutdown, cloudflared, link>>
  BY DEF ProcessEnds
<1> QED BY <1>2, <1>3, <1>4, <1>5 DEF Typed, SystemTypeOK, TypeOK, OwnersKnowSessions

(* The main loop, and the end of the process. *)
LEMMA MainTyped ==
    ASSUME Typed, UNCHANGED client, MainStep \/ DaemonCrashes
    PROVE  Typed'
<1> USE DEF Typed, SystemTypeOK, TypeOK, OwnersKnowSessions
<1>1. CASE MainFindsExit
  BY <1>1 DEF MainFindsExit, MainGoto, TargetsAreSessions
<1>2. CASE FatalSnapshots
  BY <1>2, OwnerQueueType DEF FatalSnapshots, sharedVars, TargetsAreSessions
<1>3. CASE SendFatal
  <2>1. CASE main.queue = <<>>
    BY <1>3, <2>1 DEF SendFatal, MainGoto, sharedVars, TargetsAreSessions
  <2>2. CASE main.queue # <<>>
    <3>1. Head(main.queue) \in Conns /\ Tail(main.queue) \in Seq(Conns)
      BY <2>2
    <3>2. link' \in [Conns -> Link]
      BY <1>3, <2>2, <3>1, SentType, ServerMessageKinds DEF SendFatal, PlainTypes
    <3> QED BY <1>3, <2>2, <3>1, <3>2 DEF SendFatal, sharedVars, TargetsAreSessions
  <2> QED BY <2>1, <2>2
<1>4. CASE FatalClears
  BY <1>4, EmptyRegistryConsistent DEF FatalClears, MainGoto, TargetsAreSessions
<1>5. CASE MainLeavesLoop
  BY <1>5 DEF MainLeavesLoop, MainGoto, TargetsAreSessions
<1>6. CASE MainStopsCloudflared
  BY <1>6 DEF MainStopsCloudflared, MainGoto, sharedVars, TargetsAreSessions
<1>7. CASE MainExits \/ DaemonCrashes
  BY <1>7, ProcessEndsTyped DEF MainExits, DaemonCrashes
<1> QED BY <1>1, <1>2, <1>3, <1>4, <1>5, <1>6, <1>7 DEF MainStep

------------------------------------------------------------------------------
(* The clients. *)

(* A request is a message of a client. *)
LEMMA RequestType ==
    ASSUME NEW m \in Request
    PROVE  m \in ClientMessage /\ m.type \in {"register", "stop", "list", "kill"}
BY DEF Request, ClientMessage, RegisterMessage, StopMessage, PlainMessage

(* A client that exits closes its end only. *)
LEMMA ExitType ==
    ASSUME link \in [Conns -> Link], NEW c \in Conns, NEW state,
           NEW unread \in Seq(ServerMessage), Exit(c, state, unread)
    PROVE  link' \in [Conns -> Link]
<1>1. PICK left \in {unread, <<>>} :
          link' = [link EXCEPT ![c].peer = "closed", ![c].outbox = left]
  BY DEF Exit
<1>2. left \in Seq(ServerMessage) /\ link[c] \in Link
  <2>1. <<>> \in Seq(ServerMessage)
    OBVIOUS
  <2> QED BY <1>1, <2>1
<1>3. [link[c] EXCEPT !.peer = "closed", !.outbox = left] \in Link
  BY <1>2 DEF Link
<1> QED BY <1>1, <1>3

(* An owner that has been told its session asks for its removal, or finds the channel closed. *)
LEMMA UnregisterType ==
    ASSUME link \in [Conns -> Link], NEW c \in Conns, client[c].session \in Sessions,
           NEW unread \in Seq(ServerMessage), Unregister(c, unread)
    PROVE  /\ link' \in [Conns -> Link]
           /\ Become(c, "failed") \/ Become(c, "unregistering")
<1>1. CASE ServerEndClosed(c)
  BY <1>1, ExitType DEF Unregister, Exit
<1>2. CASE ~ServerEndClosed(c)
  <2> DEFINE m == [type |-> "unregister", session |-> client[c].session]
  <2>1. m \in ClientMessage
    BY DEF ClientMessage, SessionMessage
  <2> HIDE DEF m
  <2>2. link[c] \in Link /\ Append(link[c].inbox, m) \in Seq(ClientMessage)
    BY <2>1 DEF Link
  <2>3. [link[c] EXCEPT !.outbox = unread, !.inbox = Append(@, m)] \in Link
    BY <2>2 DEF Link
  <2>4. /\ link' = [link EXCEPT ![c].outbox = unread, ![c].inbox = Append(@, m)]
        /\ Become(c, "unregistering")
    BY <1>2 DEF Unregister, m
  <2>5. link' = [link EXCEPT ![c] = [link[c] EXCEPT !.outbox = unread, !.inbox = Append(@, m)]]
    BY <2>2, <2>4 DEF Link
  <2> QED BY <2>3, <2>4, <2>5
<1> QED BY <1>1, <1>2

(* A client connects and writes its request. *)
LEMMA ConnectTyped ==
    ASSUME Typed, NEW c \in Conns, Connect(c)
    PROVE  Typed'
<1> USE DEF Typed, SystemTypeOK, TypeOK, OwnersKnowSessions, HandlersOK
<1>1. PICK m \in Requests[c] :
          /\ client' = [client EXCEPT ![c].request = m.type, ![c].state = "requested"]
          /\ link' = [link EXCEPT ![c].peer = "connected", ![c].inbox = <<m>>]
  BY DEF Connect
<1>2. m \in ClientMessage /\ m.type \in {"register", "stop", "list", "kill"}
  BY RequestsAssumption, RequestType
<1>3. client' \in [Conns -> ClientState] /\ OwnersKnowSessions'
  <2> DEFINE k == [client[c] EXCEPT !.request = m.type, !.state = "requested"]
  <2>1. k \in ClientState /\ k.state = "requested"
    BY <1>2 DEF ClientState
  <2>2. client' = [client EXCEPT ![c] = k]
    BY <1>1
  <2> QED BY <2>1, <2>2
<1>4. link' \in [Conns -> Link]
  <2>1. link[c] \in Link /\ <<m>> \in Seq(ClientMessage)
    BY <1>2
  <2>2. [link[c] EXCEPT !.peer = "connected", !.inbox = <<m>>] \in Link
    BY <2>1 DEF Link
  <2> QED BY <1>1, <2>2
<1>5. HandlersOK'
  BY GotoOK DEF Connect, Goto, HandlerLabels, SessionLabels
<1> QED BY <1>3, <1>4, <1>5 DEF Connect, sharedVars, taskVars

(* A client moves to another state, and is told of a session only with Registered. *)
LEMMA BecomeType ==
    ASSUME client \in [Conns -> ClientState], OwnersKnowSessions, NEW c \in Conns,
           NEW state \in {"unregistering", "succeeded", "failed"}, Become(c, state)
    PROVE  client' \in [Conns -> ClientState] /\ OwnersKnowSessions'
BY DEF Become, ClientState, OwnersKnowSessions

(* A client reads, is interrupted, suspended or killed. *)
LEMMA ClientTyped ==
    ASSUME Typed, NEW c \in Conns, ClientReads(c) \/ ClientOccurrence(c)
    PROVE  Typed'
<1> DEFINE Told == client' \in [Conns -> ClientState] /\ OwnersKnowSessions'
<1>1. /\ link \in [Conns -> Link] /\ link[c] \in Link
      /\ link[c].outbox \in Seq(ServerMessage)
      /\ client \in [Conns -> ClientState] /\ OwnersKnowSessions
  BY DEF Typed, SystemTypeOK, TypeOK, Link
<1>2. link[c].outbox # <<>> => /\ Head(link[c].outbox) \in ServerMessage
                               /\ Tail(link[c].outbox) \in Seq(ServerMessage)
  BY <1>1
<1>3. link[c].outbox # <<>> /\ Read(c) => link' \in [Conns -> Link]
  <2>1. link[c].outbox # <<>> => [link[c] EXCEPT !.outbox = Tail(@)] \in Link
    BY <1>1, <1>2 DEF Link
  <2> QED BY <2>1, <1>1 DEF Read
<1>4. \A state \in {"succeeded", "failed"} :
          link[c].outbox # <<>> /\ ReadAndExit(c, state) => link' \in [Conns -> Link] /\ Told
  BY <1>1, <1>2, ExitType, BecomeType DEF ReadAndExit, Exit
<1>5. link' \in [Conns -> Link] /\ Told
  <2>1. CASE OwnerIsRegistered(c)
    <3>1. /\ Head(link[c].outbox) \in ServerMessage
          /\ Head(link[c].outbox).session \in Sessions
      BY <2>1, <1>2, ServerMessageKinds DEF OwnerIsRegistered, Incoming, AnswerTypes
    <3>2. Told
      <4> DEFINE k == [client[c] EXCEPT !.state = "forwarding",
                                        !.session = Head(link[c].outbox).session]
      <4>1. k \in ClientState /\ k.session \in Sessions
        BY <3>1, <1>1 DEF ClientState
      <4>2. client' = [client EXCEPT ![c] = k]
        BY <2>1, <1>1 DEF OwnerIsRegistered
      <4> HIDE DEF k
      <4> QED BY <4>1, <4>2, <1>1 DEF OwnersKnowSessions
    <3> QED BY <2>1, <3>2, <1>3 DEF OwnerIsRegistered, Incoming
  <2>2. CASE OwnerIsNotRegistered(c)
    BY <2>2, <1>4 DEF OwnerIsNotRegistered
  <2>3. CASE OwnerSkips(c) /\ UNCHANGED client
    BY <2>3, <1>1, <1>3 DEF OwnerSkips, Incoming, OwnersKnowSessions
  <2>4. CASE OwnerIsStopped(c)
    BY <2>4, <1>1, <1>2, UnregisterType, BecomeType
       DEF OwnerIsStopped, Incoming, Is, OwnersKnowSessions
  <2>5. CASE OwnerIsKilled(c)
    <3> DEFINE m == [type |-> "terminateAcknowledged", session |-> client[c].session]
    <3>1. m \in ClientMessage
      BY <2>5, <1>1 DEF OwnerIsKilled, Is, OwnersKnowSessions, ClientMessage, SessionMessage
    <3> HIDE DEF m
    <3>2. /\ Append(link[c].inbox, m) \in Seq(ClientMessage)
          /\ Tail(link[c].outbox) \in Seq(ServerMessage)
      BY <2>5, <1>1, <1>2, <3>1 DEF OwnerIsKilled, Incoming, Link
    <3> DEFINE inbox == IF ServerEndClosed(c) THEN link[c].inbox ELSE Append(link[c].inbox, m)
               l == [link[c] EXCEPT !.peer = "closed", !.outbox = Tail(link[c].outbox),
                                    !.inbox = inbox]
    <3>3. inbox \in Seq(ClientMessage)
      BY <3>2, <1>1 DEF Link
    <3>4. link' = [link EXCEPT ![c] = l]
      BY <2>5, <1>1 DEF OwnerIsKilled, m
    <3> HIDE DEF inbox
    <3>5. l \in Link
      BY <1>1, <3>2, <3>3 DEF Link
    <3>6. Told
      BY <2>5, <1>1, BecomeType DEF OwnerIsKilled
    <3> QED BY <3>4, <3>5, <3>6, <1>1
  <2>6. CASE OwnerFails(c)
    BY <2>6, <1>4 DEF OwnerFails, Incoming
  <2>7. CASE OwnerLeaves(c)
    BY <2>7, <1>4 DEF OwnerLeaves, Incoming
  <2>8. CASE RequestIsAnswered(c)
    BY <2>8, <1>4 DEF RequestIsAnswered
  <2>9. CASE ConnectionLost(c)
    <3>1. <<>> \in Seq(ServerMessage)
      OBVIOUS
    <3> QED BY <2>9, <3>1, <1>1, ExitType, BecomeType DEF ConnectionLost, Exit
  <2>10. CASE OwnerInterrupted(c)
    BY <2>10, <1>1, UnregisterType, BecomeType DEF OwnerInterrupted, Is, OwnersKnowSessions
  <2>11. CASE ClientCrashes(c)
    BY <2>11, <1>1, ExitType, BecomeType DEF ClientCrashes, Exit
  <2> QED BY <2>1, <2>2, <2>3, <2>4, <2>5, <2>6, <2>7, <2>8, <2>9, <2>10, <2>11
          DEF ClientReads, ClientOccurrence, OwnerSkips
<1>6. UNCHANGED <<sharedVars, handler, stats, taskVars>>
  BY DEF ClientReads, ClientOccurrence
<1> QED BY <1>5, <1>6
        DEF Typed, SystemTypeOK, TypeOK, TargetsAreSessions, sharedVars, taskVars

------------------------------------------------------------------------------
(* The invariant. *)

(* The initial states are typed. *)
LEMMA TypedInit == Init => Typed
<1> SUFFICES ASSUME Init PROVE Typed
  OBVIOUS
<1>1. Plain("none") \in ServerMessage
  BY ServerMessageKinds DEF PlainTypes
<1>2. NoHandler \in Handler /\ NoHandler.pc = "absent" /\ NoLink \in Link
  BY <1>1 DEF NoHandler, Handler, HandlerLabels, NoLink, Link
<1>3. handler \in [Conns -> Handler] /\ TargetsAreSessions
  BY <1>2 DEF Init, DaemonInit, TargetsAreSessions, SessionLabels
<1>4. link \in [Conns -> Link]
  BY <1>2 DEF Init, DaemonInit
<1>5. client \in [Conns -> ClientState] /\ OwnersKnowSessions
  BY DEF Init, ClientState, OwnersKnowSessions
<1>6. main \in [pc : {"polling", "fatalSnapshot", "fatalSend", "fatalClear", "fatalCancel",
                     "stopping", "draining", "exited"},
               queue : Seq(Conns)]
  BY DEF Init, DaemonInit
<1>7. registry \in Registry
  BY EmptyRegistryConsistent DEF Init, DaemonInit
<1>8. /\ owners \in [Sessions -> Conns \cup {NoConn}]
      /\ acks \in [Sessions -> Conns \cup {NoConn}]
      /\ stats \in [Conns -> Slugs \cup {NoSlug}]
  BY DEF Init, DaemonInit
<1>9. issued \in 0..MaxSession
  BY MaxSessionAssumption DEF Init, DaemonInit
<1>10. /\ shuttingDown = FALSE /\ shutdown = FALSE /\ idle = "counting" /\ killTimer = FALSE
       /\ idleTask = "ticking" /\ accepting = TRUE /\ cloudflared = "up"
  BY DEF Init, DaemonInit
<1> QED BY <1>3, <1>4, <1>5, <1>6, <1>7, <1>8, <1>9, <1>10 DEF Typed, SystemTypeOK, TypeOK

(* The invariant is inductive. *)
LEMMA TypedNext == Typed /\ [Next]_vars => Typed'
<1> SUFFICES ASSUME Typed, [Next]_vars PROVE Typed'
  OBVIOUS
<1>1. CASE DaemonNext /\ UNCHANGED client
  <2>1. ASSUME NEW c \in Conns, HandlerStep(c) \/ StatsTick(c) \/ WriterFails(c) \/ ReadError(c)
        PROVE  Typed'
    BY <1>1, <2>1, RegisterTyped, RemoveTyped, StopTyped, KillTyped, ReplyTyped DEF HandlerStep
  <2>2. CASE \/ IdleElapses \/ IdleStep \/ KillDelayEnds \/ AcceptEnds
             \/ CloudflaredExits \/ Cancelled
    BY <1>1, <2>2, TasksTyped
  <2>3. CASE MainStep \/ DaemonCrashes
    BY <1>1, <2>3, MainTyped
  <2> QED BY <1>1, <2>1, <2>2, <2>3 DEF DaemonNext, Occurrence
<1>2. CASE \E c \in Conns : Connect(c) \/ ClientReads(c) \/ ClientOccurrence(c)
  BY <1>2, ConnectTyped, ClientTyped
<1>3. CASE UNCHANGED vars
  BY <1>3 DEF vars, daemonVars, sharedVars, taskVars, Typed, SystemTypeOK, TypeOK,
              TargetsAreSessions, OwnersKnowSessions
<1> QED BY <1>1, <1>2, <1>3 DEF Next

(* The invariant holds in every behaviour. *)
LEMMA TypedInvariant == Safety => []Typed
BY TypedInit, TypedNext, PTL DEF Safety

(* Every shared map, handler, channel and client keeps its type in every behaviour of the daemon:  *)
(* no handler is ever at work on a session that was not issued, and no snapshot of the owners or   *)
(* stop of a route yields anything but the channel of a connection (mod.rs:396-398, 435-441).      *)
THEOREM TypeCorrectness == Safety => []SystemTypeOK
BY TypedInvariant, PTL DEF Typed
==============================================================================
