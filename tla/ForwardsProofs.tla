---------------------------- MODULE ForwardsProofs ----------------------------
(***************************************************************************)
(* The three indexes of the registry always agree, and the daemon with its *)
(* clients implements Forwards.tla, for every number of connections,       *)
(* ports, slugs and sessions.                                              *)
(***************************************************************************)
EXTENDS FwSystemProofs

------------------------------------------------------------------------------
(* Few steps touch the routes or the registrations under way; all others are quiet. *)

RouteSessions == {registry.bySlug[s].session : s \in {t \in Slugs : registry.bySlug[t] # NoRoute}}

(* The sessions a handler can come to work on without issuing one. *)
Origins(c) == {NoSession, handler[c].target, handler[c].owned} \cup RouteSessions

(* The labels of a connection that nobody has opened, or nobody will serve. *)
Absent == {"absent", "gone"}

QuietAt(c) ==
    /\ handler[c].pc \in Absent /\ client'[c].state = "new" => handler'[c].pc \in Absent
    /\ handler'[c].pc = "regRoute" <=> handler[c].pc = "regRoute"
    /\ handler[c].pc = "regRoute" => handler'[c].target = handler[c].target
    /\ handler'[c].target \in Origins(c)
    /\ handler'[c].owned \in {NoSession, handler[c].owned}

(* A process that has not connected yet has no handler. *)
NewAreAbsent == \A c \in Conns : client[c].state = "new" => handler[c].pc \in Absent

Quiet == UNCHANGED <<registry, issued>> /\ \A c \in Conns : QuietAt(c)

(* A step that leaves registry and handlers alone is quiet. *)
LEMMA QuietSame ==
    ASSUME UNCHANGED <<registry, issued, handler>>
    PROVE  Quiet
BY DEF Quiet, QuietAt, Origins

(* A handler that moves without a session of another's is quiet, *)
LEMMA QuietUpdate ==
    ASSUME handler \in [Conns -> Handler], NEW c \in Conns, NEW h,
           handler' = [handler EXCEPT ![c] = h],
           handler[c].pc \notin Absent \cup {"regRoute"}, h.pc # "regRoute",
           h.target \in Origins(c), h.owned \in {NoSession, handler[c].owned},
           UNCHANGED <<registry, issued>>
    PROVE  Quiet
<1>1. QuietAt(c)
  BY DEF QuietAt
<1>2. ASSUME NEW d \in Conns, d # c PROVE QuietAt(d)
  <2>1. handler'[d] = handler[d]
    BY <1>2
  <2> QED BY <2>1 DEF QuietAt, Origins
<1> QED BY <1>1, <1>2 DEF Quiet

(* so it is when it goes to another label, *)
LEMMA QuietGoto ==
    ASSUME handler \in [Conns -> Handler], NEW c \in Conns, NEW label,
           Goto(c, label), handler[c].pc \notin Absent \cup {"regRoute"}, label # "regRoute",
           UNCHANGED <<registry, issued>>
    PROVE  Quiet
<1> DEFINE h == [handler[c] EXCEPT !.pc = label]
<1>1. h.pc = label /\ h.target = handler[c].target /\ h.owned = handler[c].owned
  BY DEF Handler
<1>2. handler' = [handler EXCEPT ![c] = h]
  BY DEF Goto
<1> HIDE DEF h
<1> QED BY <1>1, <1>2, QuietUpdate DEF Origins

(* when it answers, *)
LEMMA QuietReply ==
    ASSUME handler \in [Conns -> Handler], NEW c \in Conns, NEW m,
           GotoReply(c, m), handler[c].pc \notin Absent \cup {"regRoute"}, UNCHANGED <<registry, issued>>
    PROVE  Quiet
<1> DEFINE h == Replying(handler[c], m)
<1>1. h.pc = "reply" /\ h.target = handler[c].target /\ h.owned = handler[c].owned
  BY DEF Handler, Replying
<1>2. handler' = [handler EXCEPT ![c] = h]
  BY DEF GotoReply
<1> HIDE DEF h
<1> QED BY <1>1, <1>2, QuietUpdate DEF Origins

(* when it waits for the next request, *)
LEMMA QuietRest ==
    ASSUME handler \in [Conns -> Handler], NEW c \in Conns, NEW label,
           NEW n \in {NoSession, handler[c].owned},
           handler' = [handler EXCEPT ![c] = Rest(label, n)],
           handler[c].pc \notin Absent \cup {"regRoute"}, label # "regRoute", UNCHANGED <<registry, issued>>
    PROVE  Quiet
<1>1. Rest(label, n).pc = label /\ Rest(label, n).target = NoSession /\ Rest(label, n).owned = n
  BY DEF Rest, NoHandler
<1> QED BY <1>1, QuietUpdate DEF Origins

(* when it begins one on a session it may name, *)
LEMMA QuietBegin ==
    ASSUME handler \in [Conns -> Handler], NEW c \in Conns, NEW label, NEW n \in Origins(c),
           Begin(c, label, n), handler[c].pc \notin Absent \cup {"regRoute"}, label # "regRoute",
           UNCHANGED <<registry, issued>>
    PROVE  Quiet
<1> DEFINE h == [handler[c] EXCEPT !.pc = label, !.target = n, !.job = Head(link[c].inbox)]
<1>1. h.pc = label /\ h.target = n /\ h.owned = handler[c].owned
  BY DEF Handler
<1>2. handler' = [handler EXCEPT ![c] = h]
  BY DEF Begin
<1> HIDE DEF h
<1> QED BY <1>1, <1>2, QuietUpdate

(* and when it has removed a session. *)
LEMMA QuietAfterRemoval ==
    ASSUME handler \in [Conns -> Handler], NEW c \in Conns,
           handler' = [handler EXCEPT ![c] = AfterRemoval(handler[c])],
           handler[c].pc \notin Absent \cup {"regRoute"}, UNCHANGED <<registry, issued>>
    PROVE  Quiet
<1> DEFINE h == handler[c]
<1>1. \/ \E m : GotoReply(c, m)
      \/ handler' = [handler EXCEPT ![c] = Rest("reading", NoSession)]
      \/ handler' = [handler EXCEPT ![c] = Rest("done", NoSession)]
  <2>1. \/ AfterRemoval(h) = Replying(h, Msg("unregistered", h.target))
        \/ AfterRemoval(h) = Replying(h, Msg("stopped", h.target))
        \/ AfterRemoval(h) = Rest("reading", NoSession)
        \/ AfterRemoval(h) = Rest("done", NoSession)
    BY DEF AfterRemoval
  <2> QED BY <2>1 DEF GotoReply
<1> QED BY <1>1, QuietReply, QuietRest

(* The steps of a handler that are quiet. *)
LEMMA QuietHandler ==
    ASSUME Typed, NEW c \in Conns,
           \/ Accept(c) \/ RegisterOwner(c) \/ RegisterActive(c)
           \/ ReadUnregister(c) \/ ReadAcknowledged(c) \/ ReadDisconnect(c) \/ ReadError(c)
           \/ RemoveOwner(c) \/ RemoveAck(c) \/ CheckEmpty(c) \/ MarkIdle(c)
           \/ ReadList(c) \/ ReadStop(c) \/ StopInsertsAck(c) \/ StopLooksUp(c)
           \/ SendTerminate(c) \/ StopArms(c) \/ StopTimesOut(c)
           \/ ReadKill(c) \/ KillSnapshots(c) \/ SendReply(c) \/ StatsTick(c) \/ WriterFails(c)
    PROVE  Quiet
<1>0. handler \in [Conns -> Handler] /\ handler[c] \in Handler
  BY DEF Typed, SystemTypeOK, TypeOK
<1> USE <1>0 DEF sharedVars, At, Absent
<1>1. CASE Accept(c) \/ RegisterOwner(c) \/ RemoveOwner(c) \/ StopInsertsAck(c)
           \/ StopArms(c) \/ StopTimesOut(c)
  BY <1>1, QuietGoto
     DEF Accept, RegisterOwner, RemoveOwner, StopInsertsAck, StopArms, StopTimesOut
<1>2. CASE RegisterActive(c) \/ ReadList(c)
  BY <1>2, QuietReply DEF RegisterActive, ReadList, Receive
<1>3. CASE ReadUnregister(c)
  BY <1>3, QuietReply, QuietBegin DEF ReadUnregister, Receive, Refuse, GotoReply, Origins
<1>4. CASE ReadAcknowledged(c)
  BY <1>4, QuietSame, QuietBegin DEF ReadAcknowledged, Receive, Origins
<1>5. CASE ReadDisconnect(c)
  <2>1. CASE handler[c].owned = NoSession
    <3>1. handler' = [handler EXCEPT ![c] = Rest("done", NoSession)]
      BY <1>5, <2>1 DEF ReadDisconnect
    <3> QED BY <3>1, <1>5, QuietRest DEF ReadDisconnect
  <2>2. CASE handler[c].owned # NoSession
    <3> DEFINE h == [handler[c] EXCEPT !.pc = "rmRoutes", !.job = Disconnect,
                                       !.target = handler[c].owned]
    <3>1. h.pc = "rmRoutes" /\ h.target = handler[c].owned /\ h.owned = handler[c].owned
      BY DEF Handler
    <3>2. handler' = [handler EXCEPT ![c] = h]
      BY <1>5, <2>2 DEF ReadDisconnect
    <3> HIDE DEF h
    <3> QED BY <1>5, <3>1, <3>2, QuietUpdate DEF ReadDisconnect, Origins
  <2> QED BY <2>1, <2>2
<1>6. CASE ReadError(c)
  <2>1. handler' = [handler EXCEPT ![c] = Rest("failed", handler[c].owned)]
    BY <1>6 DEF ReadError
  <2> QED BY <2>1, <1>6, QuietRest DEF ReadError
<1>7. CASE RemoveAck(c)
  <2> DEFINE h(d) == IF d = c THEN [handler[d] EXCEPT !.pc = "rmCheck"]
                     ELSE IF d = acks[handler[c].target] /\ handler[d].pc = "stopWait"
                     THEN Replying(handler[d], Msg("stopped", handler[d].target))
                     ELSE handler[d]
  <2>1. ASSUME NEW d \in Conns
        PROVE  /\ h(d).pc = "regRoute" <=> handler[d].pc = "regRoute"
               /\ handler[d].pc \in Absent => h(d).pc \in Absent
               /\ h(d).target = handler[d].target
               /\ h(d).owned = handler[d].owned
    <3>1. handler[d] \in Handler /\ handler[c].pc = "rmAck"
      BY <1>7 DEF RemoveAck
    <3>2. \A k \in Handler :
              /\ [k EXCEPT !.pc = "rmCheck"].pc = "rmCheck"
              /\ [k EXCEPT !.pc = "rmCheck"].target = k.target
              /\ [k EXCEPT !.pc = "rmCheck"].owned = k.owned
      BY DEF Handler
    <3>3. \A k \in Handler : \A m :
              /\ Replying(k, m).pc = "reply"
              /\ Replying(k, m).target = k.target
              /\ Replying(k, m).owned = k.owned
      BY DEF Handler, Replying
    <3> QED BY <3>1, <3>2, <3>3
  <2>2. /\ handler' = [d \in Conns |-> h(d)]
        /\ UNCHANGED <<registry, issued>>
    BY <1>7 DEF RemoveAck
  <2> HIDE DEF h
  <2> QED BY <2>1, <2>2 DEF Quiet, QuietAt, Origins
<1>8. CASE CheckEmpty(c)
  <2>1. CASE IsEmpty(registry)
    <3>1. Goto(c, "rmIdle")
      BY <1>8, <2>1 DEF CheckEmpty, Goto
    <3> QED BY <1>8, <3>1, QuietGoto DEF CheckEmpty
  <2>2. CASE ~IsEmpty(registry)
    <3>1. handler' = [handler EXCEPT ![c] = AfterRemoval(handler[c])]
      BY <1>8, <2>2 DEF CheckEmpty
    <3> QED BY <1>8, <3>1, QuietAfterRemoval DEF CheckEmpty
  <2> QED BY <2>1, <2>2
<1>9. CASE MarkIdle(c)
  BY <1>9, QuietAfterRemoval DEF MarkIdle
<1>10. CASE ReadStop(c)
  <2> DEFINE route == Resolve(registry, Head(link[c].inbox).selector)
  <2>1. link \in [Conns -> Link] /\ registry \in Registry
    BY DEF Typed, SystemTypeOK, TypeOK
  <2>2. /\ Head(link[c].inbox) \in ClientMessage
        /\ Head(link[c].inbox).selector \in Selectors
    BY SMTT(60), <1>10, <2>1, ReceiveType, ClientMessageKinds DEF ReadStop
  <2>3. route # NoRoute => \E s \in Slugs : registry.bySlug[s] = route
    BY <2>1, <2>2, SelectorAssumption DEF Resolve, RouteForPort, Registry, Selectors
  <2>4. Refuse(c) \/ (route # NoRoute /\ Begin(c, "stopAck", route.session))
    BY <1>10 DEF ReadStop
  <2> HIDE DEF route
  <2>5. route # NoRoute => route.session \in Origins(c)
    BY <2>3 DEF Origins, RouteSessions
  <2> QED BY <1>10, <2>4, <2>5, QuietReply, QuietBegin DEF ReadStop, Receive, Refuse, GotoReply
<1>11. CASE StopLooksUp(c)
  <2> DEFINE h == [handler[c] EXCEPT !.pc = "stopSend",
                                     !.queue = IF owners[handler[c].target] = NoConn THEN <<>>
                                               ELSE <<owners[handler[c].target]>>]
  <2>1. h.pc = "stopSend" /\ h.target = handler[c].target /\ h.owned = handler[c].owned
    BY DEF Handler
  <2>2. handler' = [handler EXCEPT ![c] = h]
    BY <1>11 DEF StopLooksUp
  <2> HIDE DEF h
  <2> QED BY <1>11, <2>1, <2>2, QuietUpdate DEF StopLooksUp, Origins
<1>12. CASE SendTerminate(c)
  <2> DEFINE queue == handler[c].queue
             h == [handler[c] EXCEPT !.queue = Tail(queue)]
  <2>1. \/ Goto(c, "stopArm")
        \/ GotoReply(c, Plain("killAccepted"))
        \/ handler' = [handler EXCEPT ![c] = h]
    BY <1>12 DEF SendTerminate, Goto, GotoReply
  <2>2. h.pc = handler[c].pc /\ h.target = handler[c].target /\ h.owned = handler[c].owned
    BY DEF Handler
  <2>3. handler[c].pc \notin Absent \cup {"regRoute"} /\ UNCHANGED <<registry, issued>>
    BY <1>12 DEF SendTerminate
  <2> HIDE DEF h
  <2> QED BY <2>1, <2>2, <2>3, QuietGoto, QuietReply, QuietUpdate DEF Origins
<1>13. CASE ReadKill(c)
  BY <1>13, QuietReply, QuietBegin DEF ReadKill, Receive, Refuse, GotoReply, Origins
<1>14. CASE KillSnapshots(c)
  <2>1. PICK queue \in OwnerQueues :
            handler' = [handler EXCEPT ![c].pc = "killSend", ![c].queue = queue]
    BY <1>14 DEF KillSnapshots
  <2> DEFINE h == [handler[c] EXCEPT !.pc = "killSend", !.queue = queue]
  <2>2. h.pc = "killSend" /\ h.target = handler[c].target /\ h.owned = handler[c].owned
    BY DEF Handler
  <2>3. handler' = [handler EXCEPT ![c] = h]
    BY <2>1
  <2> HIDE DEF h
  <2> QED BY <1>14, <2>2, <2>3, QuietUpdate DEF KillSnapshots, Origins
<1>15. CASE SendReply(c)
  <2>1. \/ handler' = [handler EXCEPT ![c] = Rest("failed", handler[c].owned)]
        \/ handler' = [handler EXCEPT ![c] =
                          Rest("reading", IF handler[c].reply.type = "unregistered"
                                          THEN NoSession ELSE handler[c].owned)]
    BY <1>15 DEF SendReply
  <2>2. handler[c].pc \notin Absent \cup {"regRoute"} /\ UNCHANGED <<registry, issued>>
    BY <1>15 DEF SendReply
  <2> QED BY <2>1, <2>2, QuietRest
<1>16. CASE StatsTick(c) \/ WriterFails(c)
  BY <1>16, QuietSame DEF StatsTick, WriterFails
<1> QED BY <1>1, <1>2, <1>3, <1>4, <1>5, <1>6, <1>7, <1>8, <1>9, <1>10, <1>11, <1>12,
           <1>13, <1>14, <1>15, <1>16

(* The other tasks, the main loop and the clients are quiet. *)
LEMMA QuietTasks ==
    ASSUME Typed, NewAreAbsent,
           \/ IdleElapses \/ IdleStep \/ KillDelayEnds \/ AcceptEnds
           \/ CloudflaredExits \/ Cancelled
           \/ MainFindsExit \/ FatalSnapshots \/ SendFatal \/ MainLeavesLoop
           \/ MainStopsCloudflared
           \/ \E c \in Conns : Connect(c) \/ ClientReads(c) \/ ClientOccurrence(c)
           \/ UNCHANGED vars
    PROVE  Quiet
<1>1. handler \in [Conns -> Handler]
  BY DEF Typed, SystemTypeOK, TypeOK
<1>2. CASE AcceptEnds
  <2>1. /\ Rest("gone", NoSession).pc = "gone"
        /\ Rest("gone", NoSession).target = NoSession
        /\ Rest("gone", NoSession).owned = NoSession
    BY <1>1 DEF Rest, NoHandler
  <2>2. /\ UNCHANGED <<registry, issued>>
        /\ \A c \in Conns : handler'[c] = IF handler[c].pc = "backlog" THEN Rest("gone", NoSession)
                                          ELSE handler[c]
    BY <1>2 DEF AcceptEnds, sharedVars
  <2> QED BY <2>1, <2>2 DEF Quiet, QuietAt, Origins, Absent
<1>3. ASSUME NEW c \in Conns, Connect(c) PROVE Quiet
  <2>1. Goto(c, "backlog") /\ UNCHANGED <<registry, issued>>
    BY <1>3 DEF Connect, Goto, sharedVars
  <2> DEFINE h == [handler[c] EXCEPT !.pc = "backlog"]
  <2>2. h.pc = "backlog" /\ h.target = handler[c].target /\ h.owned = handler[c].owned
    BY <1>1 DEF Handler
  <2>3. handler' = [handler EXCEPT ![c] = h]
    BY <2>1 DEF Goto
  <2>4. handler[c].pc # "regRoute" /\ client'[c].state # "new"
    <3>1. client \in [Conns -> ClientState] /\ client[c].state = "new"
      BY <1>3 DEF Typed, SystemTypeOK, Connect, Is
    <3>2. client'[c].state = "requested"
      BY <1>3, <3>1 DEF Connect, ClientState
    <3> QED BY <3>1, <3>2 DEF NewAreAbsent, Absent
  <2> HIDE DEF h
  <2>5. QuietAt(c)
    BY <1>1, <2>2, <2>3, <2>4 DEF QuietAt, Origins
  <2>6. ASSUME NEW d \in Conns, d # c PROVE QuietAt(d)
    <3>1. handler'[d] = handler[d]
      BY <1>1, <2>3, <2>6
    <3> QED BY <3>1 DEF QuietAt, Origins
  <2> QED BY <2>1, <2>5, <2>6 DEF Quiet
<1> QED BY <1>2, <1>3, QuietSame
        DEF IdleElapses, IdleStep, IdleExpires, IdleShutsDown, IdleCancelled, KillDelayEnds,
            CloudflaredExits, Cancelled, MainFindsExit, FatalSnapshots, SendFatal,
            MainLeavesLoop, MainStopsCloudflared, ClientReads, ClientOccurrence,
            vars, daemonVars, sharedVars

------------------------------------------------------------------------------
(* The inductive invariant. *)

(* Nothing names a session that fetch_add has not handed out. *)
SessionsAreIssued ==
    /\ \A c \in Conns : handler[c].target <= issued /\ handler[c].owned <= issued
    /\ \A n \in RouteSessions : n <= issued

(* Two registrations under way are for different sessions. *)
WaitersAreDistinct ==
    \A c, d \in Conns :
        handler[c].pc = "regRoute" /\ handler[d].pc = "regRoute" /\
        handler[c].target = handler[d].target => c = d

IInv ==
    /\ Typed
    /\ RegistryConsistent
    /\ NewAreAbsent
    /\ SessionsAreIssued
    /\ WaitersAreDistinct

(* What the registry's type says of the routes and of the sessions that have one. *)
LEMMA RouteFacts ==
    ASSUME Typed
    PROVE  /\ \A s \in Slugs : registry.bySlug[s] # NoRoute => registry.bySlug[s] \in Route
           /\ RouteSessions \subseteq Sessions
           /\ \A c \in Conns : /\ handler[c].target \in Sessions \cup {NoSession}
                               /\ handler[c].owned \in Sessions \cup {NoSession}
           /\ issued \in 0..MaxSession
<1>1. registry \in Registry /\ handler \in [Conns -> Handler] /\ issued \in 0..MaxSession
  BY DEF Typed, SystemTypeOK, TypeOK
<1>2. \A s \in Slugs : registry.bySlug[s] # NoRoute => registry.bySlug[s] \in Route
  BY <1>1 DEF Registry
<1>3. RouteSessions \subseteq Sessions
  BY <1>2 DEF RouteSessions, Route
<1> QED BY <1>1, <1>2, <1>3 DEF Handler

(* No client becomes new again. *)
LEMMA NewStays ==
    ASSUME Typed, [Next]_vars, NEW c \in Conns, client'[c].state = "new"
    PROVE  client[c].state = "new"
<1>1. client \in [Conns -> ClientState]
  BY DEF Typed, SystemTypeOK
<1>2. CASE UNCHANGED client
  BY <1>2
<1>3. ASSUME NEW d \in Conns, Connect(d) \/ ClientReads(d) \/ ClientOccurrence(d),
             client' # client
      PROVE  client[c].state = "new"
  <2>1. CASE Connect(d) \/ OwnerIsRegistered(d)
    BY ZenonT(60), <1>1, <2>1 DEF Connect, OwnerIsRegistered, ClientState
  <2>2. CASE \E state \in {"unregistering", "succeeded", "failed"} : Become(d, state)
    BY <1>1, <2>2 DEF Become, ClientState
  <2>3. CASE OwnerSkips(d) /\ UNCHANGED client
    BY <2>3
  <2>4. CASE OwnerIsStopped(d) \/ OwnerInterrupted(d)
    BY <2>2, <2>4 DEF OwnerIsStopped, OwnerInterrupted, Unregister, Exit
  <2>5. CASE \/ OwnerIsNotRegistered(d) \/ OwnerIsKilled(d) \/ OwnerFails(d) \/ OwnerLeaves(d)
             \/ RequestIsAnswered(d) \/ ConnectionLost(d) \/ ClientCrashes(d)
    BY <2>2, <2>5
       DEF OwnerIsNotRegistered, OwnerIsKilled, OwnerFails, OwnerLeaves, RequestIsAnswered,
           ConnectionLost, ClientCrashes, ReadAndExit, Exit
  <2> QED BY <1>3, <2>1, <2>3, <2>4, <2>5 DEF ClientReads, ClientOccurrence, OwnerSkips
<1> QED BY <1>2, <1>3 DEF Next, vars

(* Every step is quiet or one of those that touch the registry or issue a session. *)
LEMMA StepKinds ==
    ASSUME IInv, [Next]_vars
    PROVE  \/ Quiet
           \/ /\ UNCHANGED client
              /\ \/ \E c \in Conns : ReadRegister(c) \/ RegisterRoute(c) \/ RemoveRoutes(c)
                                     \/ KillClears(c)
                 \/ FatalClears
                 \/ ProcessEnds
<1>1. CASE DaemonNext /\ UNCHANGED client
  BY <1>1, QuietHandler, QuietTasks
     DEF IInv, DaemonNext, HandlerStep, MainStep, Occurrence, MainExits, DaemonCrashes
<1>2. CASE \E c \in Conns : Connect(c) \/ ClientReads(c) \/ ClientOccurrence(c)
  BY <1>2, QuietTasks DEF IInv
<1>3. CASE UNCHANGED vars
  BY <1>3, QuietTasks DEF IInv
<1> QED BY <1>1, <1>2, <1>3 DEF Next

(* A quiet step keeps the invariant. *)
LEMMA QuietKeeps ==
    ASSUME IInv, Typed', Quiet,
           \A c \in Conns : client'[c].state = "new" => client[c].state = "new"
    PROVE  IInv'
<1>1. RegistryConsistent'
  BY DEF IInv, RegistryConsistent, Quiet
<1>2. NewAreAbsent'
  BY DEF IInv, NewAreAbsent, Quiet, QuietAt
<1>3. SessionsAreIssued'
  <2>1. RouteSessions' = RouteSessions /\ issued' = issued /\ issued \in Nat
    BY RouteFacts DEF Quiet, RouteSessions, IInv
  <2>2. ASSUME NEW c \in Conns PROVE handler'[c].target <= issued /\ handler'[c].owned <= issued
    BY <2>1 DEF IInv, SessionsAreIssued, Quiet, QuietAt, Origins, NoSession
  <2> QED BY <2>1, <2>2 DEF SessionsAreIssued, IInv
<1>4. WaitersAreDistinct'
  BY DEF IInv, WaitersAreDistinct, Quiet, QuietAt
<1> QED BY <1>1, <1>2, <1>3, <1>4 DEF IInv

------------------------------------------------------------------------------
(* The steps that are not quiet. *)

(* Register is refused quietly or issues the next session. *)
LEMMA ReadRegisterEffect ==
    ASSUME Typed, NEW c \in Conns, ReadRegister(c), UNCHANGED client
    PROVE  \/ Quiet
           \/ /\ UNCHANGED registry
              /\ issued' = issued + 1
              /\ handler[c].pc = "reading"
              /\ \E h : /\ handler' = [handler EXCEPT ![c] = h]
                        /\ h.pc = "regRoute"
                        /\ h.target = issued + 1
                        /\ h.owned = handler[c].owned
<1>1. handler \in [Conns -> Handler] /\ handler[c].pc = "reading"
  BY DEF Typed, SystemTypeOK, TypeOK, ReadRegister, Receive, At
<1>2. CASE Refuse(c) /\ UNCHANGED issued
  BY <1>1, <1>2, QuietReply DEF Refuse, GotoReply, ReadRegister, Absent
<1>3. CASE issued' = issued + 1 /\ Begin(c, "regRoute", issued + 1)
  <2> DEFINE h == [handler[c] EXCEPT !.pc = "regRoute", !.target = issued + 1,
                                     !.job = Head(link[c].inbox)]
  <2>1. h.pc = "regRoute" /\ h.target = issued + 1 /\ h.owned = handler[c].owned
    BY <1>1 DEF Handler
  <2>2. handler' = [handler EXCEPT ![c] = h]
    BY <1>1, <1>3 DEF Begin
  <2> HIDE DEF h
  <2> QED BY <1>1, <1>3, <2>1, <2>2 DEF ReadRegister
<1> QED BY <1>2, <1>3 DEF ReadRegister

(* register_with_rng refuses, or adds one route whose slug and port were free. *)
LEMMA RegisterRouteEffect ==
    ASSUME Typed, NEW c \in Conns, RegisterRoute(c)
    PROVE  /\ UNCHANGED issued
           /\ handler[c].pc = "regRoute" /\ handler[c].target \in Sessions
           /\ \E h : /\ handler' = [handler EXCEPT ![c] = h]
                     /\ h.pc \in {"reply", "regOwner"}
                     /\ h.target = handler[c].target
                     /\ h.owned \in {handler[c].owned, handler[c].target}
           /\ \/ UNCHANGED registry
              \/ \E route \in Route :
                    /\ route.session = handler[c].target
                    /\ registry.bySlug[route.slug] = NoRoute
                    /\ registry.slugByPort[route.port] = NoSlug
                    /\ registry' = AddRoute(registry, route)
<1>1. /\ handler \in [Conns -> Handler] /\ handler[c] \in Handler
      /\ handler[c].pc = "regRoute" /\ handler[c].target \in Sessions
  BY DEF Typed, SystemTypeOK, TypeOK, RegisterRoute, At, TargetsAreSessions, SessionLabels
<1>2. PICK m \in RegisterMessage :
          \/ UNCHANGED registry /\ GotoReply(c, Plain("error"))
          \/ \E slug \in SlugChoices(registry, m.port, m.slug) :
                /\ registry' = AddRoute(registry, [slug |-> slug, port |-> m.port,
                                                   session |-> handler[c].target])
                /\ handler' = [handler EXCEPT ![c].pc = "regOwner", ![c].slug = slug,
                                              ![c].owned = handler[c].target]
  BY DEF RegisterRoute
<1>3. CASE UNCHANGED registry /\ GotoReply(c, Plain("error"))
  <2> DEFINE h == Replying(handler[c], Plain("error"))
  <2>1. h.pc = "reply" /\ h.target = handler[c].target /\ h.owned = handler[c].owned
    BY <1>1 DEF Replying, Handler
  <2>2. handler' = [handler EXCEPT ![c] = h]
    BY <1>3 DEF GotoReply
  <2> HIDE DEF h
  <2> QED BY <1>1, <1>3, <2>1, <2>2 DEF RegisterRoute
<1>4. ASSUME NEW slug \in SlugChoices(registry, m.port, m.slug),
             registry' = AddRoute(registry, [slug |-> slug, port |-> m.port,
                                             session |-> handler[c].target]),
             handler' = [handler EXCEPT ![c].pc = "regOwner", ![c].slug = slug,
                                        ![c].owned = handler[c].target]
      PROVE  /\ \E h : /\ handler' = [handler EXCEPT ![c] = h]
                       /\ h.pc \in {"reply", "regOwner"}
                       /\ h.target = handler[c].target
                       /\ h.owned \in {handler[c].owned, handler[c].target}
             /\ \E route \in Route :
                    /\ route.session = handler[c].target
                    /\ registry.bySlug[route.slug] = NoRoute
                    /\ registry.slugByPort[route.port] = NoSlug
                    /\ registry' = AddRoute(registry, route)
  <2> DEFINE h == [handler[c] EXCEPT !.pc = "regOwner", !.slug = slug,
                                     !.owned = handler[c].target]
             route == [slug |-> slug, port |-> m.port, session |-> handler[c].target]
  <2>1. h.pc = "regOwner" /\ h.target = handler[c].target /\ h.owned = handler[c].target
    BY <1>1 DEF Handler
  <2>2. handler' = [handler EXCEPT ![c] = h]
    BY <1>1, <1>4
  <2>3. m.port \in Ports /\ m.slug \in Slugs \cup {NoSlug}
    BY DEF RegisterMessage
  <2>4. /\ slug \in Slugs /\ registry.bySlug[slug] = NoRoute
        /\ registry.slugByPort[m.port] = NoSlug
    BY <2>3, SlugChoicesAreFree
  <2>5. /\ route \in Route /\ route.session = handler[c].target
        /\ route.slug = slug /\ route.port = m.port
    BY <1>1, <2>3, <2>4 DEF Route
  <2>6. registry' = AddRoute(registry, route)
    BY <1>4
  <2> HIDE DEF h, route
  <2> QED BY <2>1, <2>2, <2>4, <2>5, <2>6
<1> QED BY <1>1, <1>2, <1>3, <1>4 DEF RegisterRoute

(* An empty registry has no route. *)
LEMMA RoutesWhenEmpty == Routes(EmptyRegistry) = {}
BY DEF Routes, EmptyRegistry

(* The two ways to say which sessions have a route agree. *)
LEMMA RouteSessionsOfRoutes == RouteSessions = {r.session : r \in Routes(registry)}
BY DEF RouteSessions, Routes

------------------------------------------------------------------------------
(* ... and they keep the invariant. *)

(* A new session is above all that are named. *)
LEMMA ReadRegisterKeeps ==
    ASSUME IInv, Typed', NEW c \in Conns, ReadRegister(c), UNCHANGED client
    PROVE  IInv'
<1>1. CASE Quiet
  BY <1>1, QuietKeeps
<1>2. CASE ~Quiet
  <2>1. PICK h :
            /\ UNCHANGED registry /\ issued' = issued + 1 /\ handler[c].pc = "reading"
            /\ handler' = [handler EXCEPT ![c] = h]
            /\ h.pc = "regRoute" /\ h.target = issued + 1 /\ h.owned = handler[c].owned
    BY <1>2, ReadRegisterEffect DEF IInv
  <2>2. /\ handler \in [Conns -> Handler] /\ issued \in Nat
        /\ RouteSessions \subseteq Nat
        /\ \A d \in Conns : handler[d].target \in Nat /\ handler[d].owned \in Nat
    BY RouteFacts DEF IInv, Typed, SystemTypeOK, TypeOK, Sessions, NoSession
  <2>3. \A d \in Conns : handler'[d] = IF d = c THEN h ELSE handler[d]
    BY <2>1, <2>2
  <2>4. SessionsAreIssued'
    <3>1. RouteSessions' = RouteSessions
      BY <2>1 DEF RouteSessions
    <3>2. \A n \in RouteSessions : n <= issued + 1
      BY <2>2 DEF IInv, SessionsAreIssued
    <3>3. \A d \in Conns : handler'[d].target <= issued + 1 /\ handler'[d].owned <= issued + 1
      BY <2>1, <2>2, <2>3 DEF IInv, SessionsAreIssued
    <3> QED BY <2>1, <3>1, <3>2, <3>3 DEF SessionsAreIssued
  <2>5. WaitersAreDistinct'
    BY <2>1, <2>2, <2>3 DEF IInv, WaitersAreDistinct, SessionsAreIssued
  <2>6. NewAreAbsent'
    BY <2>1, <2>3 DEF IInv, NewAreAbsent, Absent
  <2>7. RegistryConsistent'
    BY <2>1 DEF IInv, RegistryConsistent
  <2> QED BY <2>4, <2>5, <2>6, <2>7 DEF IInv
<1> QED BY <1>1, <1>2

(* The route's session is the registration's own. *)
LEMMA RegisterRouteKeeps ==
    ASSUME IInv, Typed', NEW c \in Conns, RegisterRoute(c), UNCHANGED client
    PROVE  IInv'
<1>1. PICK h : /\ handler' = [handler EXCEPT ![c] = h]
               /\ h.pc \in {"reply", "regOwner"}
               /\ h.target = handler[c].target
               /\ h.owned \in {handler[c].owned, handler[c].target}
  BY RegisterRouteEffect DEF IInv
<1>2. /\ UNCHANGED issued
      /\ handler[c].pc = "regRoute" /\ handler[c].target \in Sessions
      /\ \/ UNCHANGED registry
         \/ \E route \in Route :
               /\ route.session = handler[c].target
               /\ registry.bySlug[route.slug] = NoRoute
               /\ registry.slugByPort[route.port] = NoSlug
               /\ registry' = AddRoute(registry, route)
  BY RegisterRouteEffect DEF IInv
<1>3. handler \in [Conns -> Handler] /\ registry \in Registry
  BY DEF IInv, Typed, SystemTypeOK, TypeOK
<1>4. \A d \in Conns : handler'[d] = IF d = c THEN h ELSE handler[d]
  BY <1>1, <1>3
<1>5. RegistryConsistent' /\ (\A n \in RouteSessions' : n <= issued)
  <2>1. CASE UNCHANGED registry
    BY <2>1 DEF IInv, RegistryConsistent, SessionsAreIssued, RouteSessions
  <2>2. ASSUME NEW route \in Route, route.session = handler[c].target,
               registry.bySlug[route.slug] = NoRoute,
               registry.slugByPort[route.port] = NoSlug,
               registry' = AddRoute(registry, route)
        PROVE  RegistryConsistent' /\ (\A n \in RouteSessions' : n <= issued)
    <3>1. RegistryConsistent'
      BY <1>3, <2>2, AddRouteConsistent DEF IInv, RegistryConsistent
    <3>2. Routes(registry') = Routes(registry) \cup {route}
      BY <1>3, <2>2, RoutesAfterAdd
    <3>3. RouteSessions' = {r.session : r \in Routes(registry')}
      BY DEF RouteSessions, Routes
    <3>4. RouteSessions' = RouteSessions \cup {route.session}
      BY <3>2, <3>3, RouteSessionsOfRoutes
    <3> QED BY <2>2, <3>1, <3>4 DEF IInv, SessionsAreIssued
  <2> QED BY <1>2, <2>1, <2>2
<1>6. SessionsAreIssued'
  BY <1>1, <1>2, <1>4, <1>5 DEF IInv, SessionsAreIssued
<1>7. WaitersAreDistinct'
  BY <1>1, <1>4 DEF IInv, WaitersAreDistinct
<1>8. NewAreAbsent'
  BY <1>1, <1>2, <1>4 DEF IInv, NewAreAbsent, Absent
<1> QED BY <1>5, <1>6, <1>7, <1>8 DEF IInv

(* A removal names no session that was not named before. *)
LEMMA RemoveRoutesKeeps ==
    ASSUME IInv, Typed', NEW c \in Conns, RemoveRoutes(c), UNCHANGED client
    PROVE  IInv'
<1>1. /\ handler \in [Conns -> Handler] /\ handler[c].target \in Sessions
      /\ registry \in Registry /\ handler[c].pc = "rmRoutes"
  BY DEF IInv, Typed, SystemTypeOK, TypeOK, TargetsAreSessions, RemoveRoutes, At, SessionLabels
<1>2. /\ registry' = RemoveSession(registry, handler[c].target)
      /\ UNCHANGED issued
      /\ \A d \in Conns : /\ handler'[d].target = handler[d].target
                          /\ handler'[d].owned = handler[d].owned
                          /\ handler'[d].pc = IF d = c THEN "rmOwner" ELSE handler[d].pc
  BY <1>1 DEF RemoveRoutes, Goto, Handler
<1>3. RegistryConsistent'
  BY <1>1, <1>2, RemoveSessionConsistent DEF IInv, RegistryConsistent
<1>4. RouteSessions' \subseteq RouteSessions
  <2>1. Routes(registry') \subseteq Routes(registry)
    BY <1>1, <1>2, RoutesAfterRemove DEF IInv, RegistryConsistent
  <2>2. RouteSessions' = {r.session : r \in Routes(registry')}
    BY DEF RouteSessions, Routes
  <2> QED BY <2>1, <2>2, RouteSessionsOfRoutes
<1>5. SessionsAreIssued'
  BY <1>2, <1>4 DEF IInv, SessionsAreIssued
<1>6. WaitersAreDistinct' /\ NewAreAbsent'
  BY <1>1, <1>2 DEF IInv, WaitersAreDistinct, NewAreAbsent, Absent
<1> QED BY <1>3, <1>5, <1>6 DEF IInv

(* clear(), before the Terminates of a kill or after the broadcast of a fatal error. *)
LEMMA ClearKeeps ==
    ASSUME IInv, Typed', UNCHANGED client, FatalClears \/ \E c \in Conns : KillClears(c)
    PROVE  IInv'
<1>1. handler \in [Conns -> Handler]
  BY DEF IInv, Typed, SystemTypeOK, TypeOK
<1>2. /\ registry' = EmptyRegistry
      /\ UNCHANGED issued
      /\ \A d \in Conns : /\ handler'[d].target = handler[d].target
                          /\ handler'[d].owned = handler[d].owned
                          /\ \/ handler'[d].pc = handler[d].pc
                             \/ handler[d].pc = "killClear" /\ handler'[d].pc = "killSnapshot"
  <2>1. CASE FatalClears
    BY <2>1 DEF FatalClears
  <2>2. ASSUME NEW c \in Conns, KillClears(c)
        PROVE  /\ registry' = EmptyRegistry /\ UNCHANGED issued
               /\ handler[c].pc = "killClear"
               /\ handler' = [handler EXCEPT ![c].pc = "killSnapshot"]
    BY <2>2 DEF KillClears, Goto, At
  <2> QED BY <1>1, <2>1, <2>2 DEF Handler
<1>3. RegistryConsistent' /\ RouteSessions' = {}
  BY <1>2, EmptyRegistryConsistent DEF RegistryConsistent, RouteSessions, EmptyRegistry
<1>4. SessionsAreIssued'
  BY <1>2, <1>3 DEF IInv, SessionsAreIssued
<1>5. WaitersAreDistinct' /\ NewAreAbsent'
  BY <1>2 DEF IInv, WaitersAreDistinct, NewAreAbsent, Absent
<1> QED BY <1>3, <1>4, <1>5 DEF IInv

(* After the end of the process nothing is named. *)
LEMMA ProcessEndsKeeps ==
    ASSUME IInv, Typed', UNCHANGED client, ProcessEnds
    PROVE  IInv'
<1>1. /\ registry' = EmptyRegistry
      /\ UNCHANGED issued
      /\ \A d \in Conns : /\ handler'[d].target = NoSession
                          /\ handler'[d].owned = NoSession
                          /\ handler'[d].pc = "gone"
  BY DEF ProcessEnds, Rest, NoHandler
<1>2. RegistryConsistent' /\ RouteSessions' = {}
  BY <1>1, EmptyRegistryConsistent DEF RegistryConsistent, RouteSessions, EmptyRegistry
<1>3. issued \in Nat
  BY RouteFacts DEF IInv
<1>4. SessionsAreIssued'
  BY <1>1, <1>2, <1>3 DEF SessionsAreIssued, NoSession
<1>5. WaitersAreDistinct' /\ NewAreAbsent'
  BY <1>1 DEF WaitersAreDistinct, NewAreAbsent, Absent
<1> QED BY <1>2, <1>4, <1>5 DEF IInv

(* The invariant holds initially, *)
LEMMA IInvInit == Init => IInv
<1> SUFFICES ASSUME Init PROVE IInv
  OBVIOUS
<1>1. Typed /\ RegistryConsistent
  BY TypedInit, EmptyRegistryConsistent DEF Init, DaemonInit, RegistryConsistent
<1>2. /\ \A c \in Conns : /\ handler[c].pc = "absent"
                          /\ handler[c].target = NoSession
                          /\ handler[c].owned = NoSession
      /\ issued = 0 /\ RouteSessions = {}
  BY DEF Init, DaemonInit, NoHandler, RouteSessions, EmptyRegistry
<1> QED BY <1>1, <1>2
        DEF IInv, NewAreAbsent, Absent, SessionsAreIssued, WaitersAreDistinct, NoSession

(* it is inductive, *)
LEMMA IInvNext == IInv /\ [Next]_vars => IInv'
<1> SUFFICES ASSUME IInv, [Next]_vars PROVE IInv'
  OBVIOUS
<1>1. Typed'
  BY TypedNext DEF IInv
<1>2. CASE Quiet
  BY <1>1, <1>2, NewStays, QuietKeeps DEF IInv
<1>3. CASE ~Quiet
  BY <1>1, <1>3, StepKinds, ReadRegisterKeeps, RegisterRouteKeeps, RemoveRoutesKeeps,
     ClearKeeps, ProcessEndsKeeps
<1> QED BY <1>2, <1>3

(* and it holds in every behaviour. *)
LEMMA IInvInvariant == Safety => []IInv
BY IInvInit, IInvNext, PTL DEF Safety

(* The indexes of the registry agree in every reachable state, whatever the interleaving of        *)
(* registrations, removals by owners and stop timeouts, and clears (registry.rs).                  *)
THEOREM RegistryAlwaysConsistent == Safety => []RegistryConsistent
BY IInvInvariant, PTL DEF IInv

------------------------------------------------------------------------------
(* The refinement. *)

(* Fwd's waiting. *)
Waiting == {handler[c].target : c \in {d \in Conns : handler[d].pc = "regRoute"}}

(* The initial states are those of Forwards, *)
LEMMA RefinementInit == Init => Fwd!Init
BY RoutesWhenEmpty DEF Init, DaemonInit, NoHandler, Fwd!Init

(* and every step is one of Forwards' or changes nothing of it. *)
LEMMA RefinementNext ==
    ASSUME IInv, [Next]_vars
    PROVE  [Fwd!Next]_<<Routes(registry), issued, Waiting>>
<1> USE DEF Waiting
<1>1. /\ handler \in [Conns -> Handler] /\ registry \in Registry /\ issued \in Nat
      /\ RegistryConsistent
  BY DEF IInv, Typed, SystemTypeOK, TypeOK
<1>2. CASE Quiet
  BY <1>2 DEF Quiet, QuietAt, Routes
<1>3. ASSUME NEW c \in Conns, ReadRegister(c), UNCHANGED client, ~Quiet
      PROVE  Fwd!Issue
  <2>1. PICK h :
            /\ UNCHANGED registry /\ issued' = issued + 1 /\ handler[c].pc = "reading"
            /\ handler' = [handler EXCEPT ![c] = h]
            /\ h.pc = "regRoute" /\ h.target = issued + 1
    BY <1>3, ReadRegisterEffect DEF IInv
  <2>2. \A d \in Conns : handler'[d] = IF d = c THEN h ELSE handler[d]
    BY <1>1, <2>1
  <2>3. Waiting' = Waiting \cup {issued + 1}
    BY <2>1, <2>2
  <2>4. Routes(registry)' = Routes(registry)
    BY <2>1
  <2> QED BY <2>1, <2>3, <2>4 DEF Fwd!Issue
<1>4. ASSUME NEW c \in Conns, RegisterRoute(c)
      PROVE  Fwd!Next
  <2> DEFINE n == handler[c].target
  <2>1. PICK h : /\ handler' = [handler EXCEPT ![c] = h]
                 /\ h.pc \in {"reply", "regOwner"}
    BY <1>4, RegisterRouteEffect DEF IInv
  <2>2. /\ UNCHANGED issued
        /\ handler[c].pc = "regRoute"
        /\ \/ UNCHANGED registry
           \/ \E route \in Route :
                 /\ route.session = n
                 /\ registry.bySlug[route.slug] = NoRoute
                 /\ registry.slugByPort[route.port] = NoSlug
                 /\ registry' = AddRoute(registry, route)
    BY <1>4, RegisterRouteEffect DEF IInv
  <2>3. \A d \in Conns : handler'[d] = IF d = c THEN h ELSE handler[d]
    BY <1>1, <2>1
  <2>4. n \in Waiting /\ Waiting' = Waiting \ {n}
    BY <2>1, <2>2, <2>3 DEF IInv, WaitersAreDistinct
  <2>5. CASE UNCHANGED registry
    BY <2>2, <2>4, <2>5 DEF Fwd!Next, Fwd!Refuse
  <2>6. ASSUME NEW route \in Route, route.session = n,
               registry.bySlug[route.slug] = NoRoute,
               registry.slugByPort[route.port] = NoSlug,
               registry' = AddRoute(registry, route)
        PROVE  Fwd!Start(n, route.slug, route.port)
    <3>1. /\ route.slug \in Slugs /\ route.port \in Ports
          /\ route = [slug |-> route.slug, port |-> route.port, session |-> n]
      BY <2>6 DEF Route
    <3>2. Routes(registry)' = Routes(registry) \cup {route}
      BY <1>1, <2>6, RoutesAfterAdd
    <3>3. \A f \in Routes(registry) : f.slug # route.slug /\ f.port # route.port
      BY <1>1, <2>6, SentinelAssumption
         DEF Routes, RegistryConsistent, Consistent, SlugIndexAgrees
    <3> QED BY <2>2, <2>4, <3>1, <3>2, <3>3 DEF Fwd!Start
  <2>7. ASSUME NEW route \in Route, Fwd!Start(n, route.slug, route.port)
        PROVE  Fwd!Next
    <3>1. route.slug \in Slugs /\ route.port \in Ports
      BY DEF Route
    <3> QED BY <2>4, <2>7, <3>1 DEF Fwd!Next
  <2> QED BY <2>2, <2>5, <2>6, <2>7
<1>5. ASSUME NEW c \in Conns, RemoveRoutes(c)
      PROVE  Fwd!Next
  <2> DEFINE n == handler[c].target
  <2>1. n \in Sessions /\ n \in 1..issued /\ handler[c].pc = "rmRoutes"
    BY <1>1, <1>5, MaxSessionAssumption
       DEF IInv, Typed, TargetsAreSessions, SessionsAreIssued, RemoveRoutes, At, SessionLabels,
           Sessions
  <2>2. /\ registry' = RemoveSession(registry, n) /\ UNCHANGED issued
        /\ \A d \in Conns : /\ handler'[d].target = handler[d].target
                            /\ handler'[d].pc = IF d = c THEN "rmOwner" ELSE handler[d].pc
    BY <1>1, <1>5 DEF RemoveRoutes, Goto, Handler
  <2>3. Routes(registry)' = {f \in Routes(registry) : f.session # n}
    BY <1>1, <2>1, <2>2, RoutesAfterRemove DEF RegistryConsistent
  <2>4. Waiting' = Waiting
    BY <2>1, <2>2
  <2>5. Fwd!End(n)
    BY <2>2, <2>3, <2>4 DEF Fwd!End
  <2> QED BY <2>1, <2>5 DEF Fwd!Next
<1>6. CASE FatalClears \/ \E c \in Conns : KillClears(c)
  <2>1. /\ registry' = EmptyRegistry /\ UNCHANGED issued
        /\ \A d \in Conns : /\ handler'[d].target = handler[d].target
                            /\ \/ handler'[d].pc = handler[d].pc
                               \/ /\ handler[d].pc = "killClear"
                                  /\ handler'[d].pc = "killSnapshot"
    <3>1. CASE FatalClears
      BY <3>1 DEF FatalClears
    <3>2. ASSUME NEW c \in Conns, KillClears(c)
          PROVE  /\ registry' = EmptyRegistry /\ UNCHANGED issued
                 /\ handler[c].pc = "killClear"
                 /\ handler' = [handler EXCEPT ![c].pc = "killSnapshot"]
      BY <3>2 DEF KillClears, Goto, At
    <3>3. CASE \E c \in Conns : KillClears(c)
      <4>1. PICK c \in Conns : KillClears(c)
        BY <3>3
      <4>2. handler'[c] = [handler[c] EXCEPT !.pc = "killSnapshot"]
        BY <1>1, <3>2, <4>1
      <4>3. handler'[c].target = handler[c].target /\ handler'[c].pc = "killSnapshot"
        BY <1>1, <4>2 DEF Handler
      <4> QED BY <1>1, <3>2, <4>1, <4>3
    <3> QED BY <1>6, <3>1, <3>3
  <2>2. Routes(registry)' = {}
    BY <2>1, RoutesWhenEmpty
  <2>3. Waiting' = Waiting
    BY <2>1
  <2> QED BY <2>1, <2>2, <2>3 DEF Fwd!Next, Fwd!EndAll
<1>7. CASE ProcessEnds
  <2>1. /\ registry' = EmptyRegistry /\ UNCHANGED issued
        /\ \A d \in Conns : handler'[d].pc = "gone"
    BY <1>7 DEF ProcessEnds, Rest, NoHandler
  <2>2. Routes(registry)' = {} /\ Waiting' = {}
    BY <2>1, RoutesWhenEmpty
  <2> QED BY <2>1, <2>2 DEF Fwd!Next, Fwd!Exit
<1> QED BY <1>2, <1>3, <1>4, <1>5, <1>6, <1>7, StepKinds DEF Fwd!Next

(* The daemon and its clients implement Forwards.tla: a forward starts only under a session of its *)
(* own, with a free slug and a free port, and ends only with all of its session's, at a clear or   *)
(* with the process (registry.rs, mod.rs:282-370).                                                 *)
THEOREM Implementation == Safety => ForwardsAreImplemented
<1>1. IInv /\ [Next]_vars => [Fwd!Next]_<<Routes(registry), issued, Waiting>>
  BY RefinementNext
<1>2. Init => Fwd!Init
  BY RefinementInit
<1> QED BY <1>1, <1>2, IInvInvariant, PTL DEF Safety, ForwardsAreImplemented, Fwd!Spec, Waiting
==============================================================================
