----------------------------- MODULE SessionProofs -----------------------------
(***************************************************************************)
(* What the daemon promises about sessions, for every number of            *)
(* connections, ports, slugs and sessions, every channel capacity and      *)
(* every set of occurrences: a Notify that is stored has a `stop` that     *)
(* waits for it, a stored channel belongs to the handler that owns the     *)
(* session, and Stopped and Unregistered are only sent, and only arrive,   *)
(* when the session's routes are gone for good.                            *)
(***************************************************************************)
EXTENDS ForwardsProofs

------------------------------------------------------------------------------
(* Channels. *)

(* The messages in a channel. *)
Box(queue) == {queue[i] : i \in DOMAIN queue}

(* What a channel holds after each operation on it. *)
LEMMA BoxFacts ==
    ASSUME NEW S, NEW queue \in Seq(S)
    PROVE  /\ Box(<<>>) = {}
           /\ \A m \in S : Box(Append(queue, m)) = Box(queue) \cup {m}
           /\ \A m \in S : Append(queue, m) # <<>>
           /\ queue # <<>> => Head(queue) \in Box(queue) /\ Box(Tail(queue)) \subseteq Box(queue)
           /\ \A m \in S : Box(<<m>>) = {m} /\ Tail(<<m>>) = <<>> /\ <<m>> # <<>>
<1>1. ASSUME NEW m \in S PROVE Box(Append(queue, m)) = Box(queue) \cup {m} /\ Append(queue, m) # <<>>
  <2> DEFINE longer == Append(queue, m)
  <2>1. Len(longer) = Len(queue) + 1 /\ Len(queue) \in Nat
    OBVIOUS
  <2>2. \A i \in 1..Len(queue) : longer[i] = queue[i]
    OBVIOUS
  <2>3. longer[Len(queue) + 1] = m
    OBVIOUS
  <2>4. DOMAIN longer = 1..Len(longer) /\ DOMAIN queue = 1..Len(queue)
    OBVIOUS
  <2> HIDE DEF longer
  <2>5. Box(longer) = Box(queue) \cup {m}
    <3>1. ASSUME NEW i \in 1..(Len(queue) + 1) PROVE longer[i] \in Box(queue) \cup {m}
      BY <2>1, <2>2, <2>3, <2>4 DEF Box
    <3>2. ASSUME NEW i \in 1..Len(queue) PROVE queue[i] \in Box(longer)
      BY <2>1, <2>2, <2>4 DEF Box
    <3>3. m \in Box(longer)
      BY <2>1, <2>3, <2>4 DEF Box
    <3> QED BY <3>1, <3>2, <3>3, <2>1, <2>4 DEF Box
  <2>6. longer # <<>>
    BY <2>1
  <2> QED BY <2>5, <2>6 DEF longer
<1>2. ASSUME queue # <<>>
      PROVE  Head(queue) \in Box(queue) /\ Box(Tail(queue)) \subseteq Box(queue)
  <2>1. Head(queue) = queue[1] /\ 1 \in DOMAIN queue
    BY <1>2
  <2>2. \A i \in DOMAIN Tail(queue) : Tail(queue)[i] = queue[i + 1] /\ i + 1 \in DOMAIN queue
    BY <1>2
  <2> QED BY <2>1, <2>2 DEF Box
<1>3. Box(<<>>) = {}
  BY DEF Box
<1>4. ASSUME NEW m \in S PROVE Box(<<m>>) = {m} /\ Tail(<<m>>) = <<>> /\ <<m>> # <<>>
  BY DEF Box
<1> QED BY <1>1, <1>2, <1>3, <1>4

------------------------------------------------------------------------------
(* What each way of moving a handler, or of using a channel, changes. *)

(* A handler moves to another label, and nothing else of it changes. *)
KeepsJob(c) ==
    /\ handler'[c].owned = handler[c].owned /\ handler'[c].target = handler[c].target
    /\ handler'[c].job = handler[c].job

OnlyHandler(c) == \A d \in Conns \ {c} : handler'[d] = handler[d]
OnlyLink(c) == \A d \in Conns \ {c} : link'[d] = link[d]

(* Goto moves the handler to another label. *)
LEMMA GotoEffect ==
    ASSUME handler \in [Conns -> Handler], NEW c \in Conns, NEW label, Goto(c, label)
    PROVE  /\ OnlyHandler(c) /\ KeepsJob(c)
           /\ handler'[c].pc = label
           /\ handler'[c].reply = handler[c].reply /\ handler'[c].queue = handler[c].queue
BY DEF Goto, Handler, OnlyHandler, KeepsJob

(* A reply is put together. *)
LEMMA ReplyEffect ==
    ASSUME handler \in [Conns -> Handler], NEW c \in Conns, NEW m, GotoReply(c, m)
    PROVE  /\ OnlyHandler(c) /\ KeepsJob(c)
           /\ handler'[c].pc = "reply" /\ handler'[c].reply = m
           /\ handler'[c].queue = handler[c].queue
BY DEF GotoReply, Replying, Handler, OnlyHandler, KeepsJob

(* A job ends and its locals are dropped. *)
LEMMA RestEffect ==
    ASSUME handler \in [Conns -> Handler], NEW c \in Conns, NEW label, NEW n,
           handler' = [handler EXCEPT ![c] = Rest(label, n)]
    PROVE  /\ OnlyHandler(c)
           /\ handler'[c].pc = label /\ handler'[c].owned = n /\ handler'[c].target = NoSession
           /\ handler'[c].job = NoJob /\ handler'[c].reply = Plain("none")
           /\ handler'[c].queue = <<>>
BY DEF Rest, NoHandler, OnlyHandler

(* A message becomes the job. *)
LEMMA BeginEffect ==
    ASSUME handler \in [Conns -> Handler], NEW c \in Conns, NEW label, NEW n,
           Begin(c, label, n)
    PROVE  /\ OnlyHandler(c)
           /\ handler'[c].pc = label /\ handler'[c].target = n
           /\ handler'[c].owned = handler[c].owned
           /\ handler'[c].job = Head(link[c].inbox) /\ handler'[c].reply = handler[c].reply
           /\ handler'[c].queue = handler[c].queue
BY DEF Begin, Handler, OnlyHandler

(* Channels are put into the queue of a Terminate. *)
LEMMA QueueEffect ==
    ASSUME handler \in [Conns -> Handler], NEW c \in Conns, NEW label, NEW queue,
           handler' = [handler EXCEPT ![c].pc = label, ![c].queue = queue]
    PROVE  /\ OnlyHandler(c) /\ KeepsJob(c)
           /\ handler'[c].pc = label /\ handler'[c].reply = handler[c].reply
           /\ handler'[c].queue = queue
BY DEF Handler, OnlyHandler, KeepsJob

(* read_frame takes one message and leaves everything else. *)
LEMMA ReceiveEffect ==
    ASSUME link \in [Conns -> Link], NEW c \in Conns, NEW types, Receive(c, types)
    PROVE  /\ OnlyLink(c) /\ handler[c].pc = "reading" /\ Running
           /\ link[c].inbox # <<>>
           /\ Head(link[c].inbox) \in Box(link[c].inbox)
           /\ Head(link[c].inbox) \in ClientMessage
           /\ Head(link[c].inbox).type \in types
           /\ link'[c].inbox = Tail(link[c].inbox)
           /\ Box(link'[c].inbox) \subseteq Box(link[c].inbox)
           /\ link'[c].outbox = link[c].outbox /\ link'[c].peer = link[c].peer
           /\ link'[c].writer = link[c].writer
<1>1. link[c].inbox \in Seq(ClientMessage) /\ link[c].inbox # <<>>
  BY DEF Receive, Link
<1>2. Head(link[c].inbox) \in Box(link[c].inbox) /\ Box(Tail(link[c].inbox)) \subseteq Box(link[c].inbox)
  BY <1>1, BoxFacts
<1>3. link' = [link EXCEPT ![c].inbox = Tail(@)] /\ handler[c].pc = "reading" /\ Running
  BY DEF Receive, At
<1>4. /\ link'[c].inbox = Tail(link[c].inbox)
      /\ link'[c].outbox = link[c].outbox /\ link'[c].peer = link[c].peer
      /\ link'[c].writer = link[c].writer
  BY <1>3 DEF Link
<1> QED BY <1>1, <1>2, <1>3, <1>4, ReceiveType DEF OnlyLink

(* A send adds one message, or nothing when the writer task has failed. *)
LEMMA SentEffect ==
    ASSUME link \in [Conns -> Link], NEW c \in Conns, NEW m \in ServerMessage, link' = Sent(c, m)
    PROVE  /\ OnlyLink(c)
           /\ link'[c].inbox = link[c].inbox /\ link'[c].peer = link[c].peer
           /\ link'[c].writer = link[c].writer
           /\ IF link[c].writer THEN Box(link'[c].outbox) = Box(link[c].outbox) \cup {m}
              ELSE link'[c].outbox = link[c].outbox
           /\ Box(link'[c].outbox) \subseteq Box(link[c].outbox) \cup {m}
<1>1. CASE link[c].writer
  <2>1. link' = [link EXCEPT ![c].outbox = Append(@, m)]
    BY <1>1 DEF Sent
  <2>2. /\ link'[c].inbox = link[c].inbox /\ link'[c].peer = link[c].peer
        /\ link'[c].writer = link[c].writer /\ link'[c].outbox = Append(link[c].outbox, m)
        /\ link[c].outbox \in Seq(ServerMessage)
    BY <2>1 DEF Link
  <2>3. Box(link'[c].outbox) = Box(link[c].outbox) \cup {m}
    BY <2>2, BoxFacts
  <2> QED BY <1>1, <2>1, <2>2, <2>3 DEF OnlyLink
<1>2. CASE ~link[c].writer
  <2>1. link' = link
    BY <1>2 DEF Sent
  <2> QED BY <1>2, <2>1 DEF OnlyLink
<1> QED BY <1>1, <1>2

------------------------------------------------------------------------------
(* The inductive invariant. *)

StopLabels == {"stopAck", "stopLookup", "stopSend", "stopArm", "stopWait"}

(* remove_session has removed the routes of its target. *)
Cleared == {"rmOwner", "rmAck", "rmCheck", "rmIdle"}

(* The answers that say that a session's routes are gone. *)
FinalTypes == {"stopped", "unregistered"}
Answers(c) == {handler[c].reply} \cup Box(link[c].outbox)

(* What a handler knows of its session at each label: registrations own what they add, `stop` and  *)
(* nobody else works on the session of another connection.                                         *)
Fits(h) ==
    /\ h.pc \in {"absent", "gone", "backlog", "regRoute"} => h.owned = NoSession
    /\ h.pc \in {"regOwner", "regActive"} => h.owned = h.target
    /\ h.pc \in StopLabels => h.job.type = "stop"
    /\ h.pc \in {"rmRoutes"} \cup Cleared /\ h.job.type # "stop" => h.target = h.owned

(* A handler that has removed the stored channel of its own session. *)
Clean(h) ==
    \/ h.pc \in {"rmAck", "rmCheck", "rmIdle"} /\ h.job.type # "stop"
    \/ h.pc = "reply" /\ h.reply.type = "unregistered"

Waits(h, n) ==
    /\ h.job.type = "stop" /\ h.target = n
    /\ h.pc \in {"stopLookup", "stopSend", "stopArm", "stopWait", "rmRoutes", "rmOwner", "rmAck"}

OwnedAreDistinct ==
    \A c, d \in Conns :
        handler[c].owned = handler[d].owned /\ handler[c].owned # NoSession => c = d

(* A session that is being registered is known to nobody else. *)
NewSessionsAreFresh ==
    \A c \in Conns : handler[c].pc = "regRoute" =>
        /\ handler[c].target \notin RouteSessions
        /\ \A d \in Conns \ {c} : /\ handler[d].owned # handler[c].target
                                  /\ handler[d].target # handler[c].target
        /\ \A d \in Conns : \A m \in Answers(d) :
               m.type \in FinalTypes => m.session # handler[c].target

FinalAnswersAreIssued ==
    \A d \in Conns : \A m \in Answers(d) : m.type \in FinalTypes => m.session <= issued

ClearedHaveNoRoute ==
    \A c \in Conns : handler[c].pc \in Cleared => handler[c].target \notin RouteSessions

CleanHaveNoOwner ==
    \A c \in Conns : Clean(handler[c]) /\ handler[c].owned # NoSession =>
        owners[handler[c].owned] = NoConn

SessionInv ==
    /\ \A c \in Conns : Fits(handler[c])
    /\ OwnedAreDistinct
    /\ NewSessionsAreFresh
    /\ FinalAnswersAreIssued
    /\ ClearedHaveNoRoute
    /\ CleanHaveNoOwner
    /\ AcksHaveWaiters
    /\ OwnersAreServed
    /\ AnswersAreTrue

------------------------------------------------------------------------------
(* What a step can do to the sessions, as long as the process does not end: where the sessions,    *)
(* labels, answers and map entries after the step come from.                                       *)

OwnedStep(d) ==
    \/ handler'[d].owned = handler[d].owned
    \/ handler[d].pc = "regRoute" /\ handler'[d].owned = handler[d].target
    \/ Clean(handler[d]) /\ handler'[d].owned = NoSession

TargetStep(d) ==
    \/ handler'[d].target \in {NoSession, handler[d].target, handler[d].owned}
    \/ handler'[d].target \in RouteSessions
    \/ handler'[d].pc = "regRoute"

RegisteringStep(d) ==
    handler'[d].pc = "regRoute" =>
        \/ handler[d].pc = "regRoute" /\ handler'[d].target = handler[d].target
        \/ handler'[d].target = issued + 1

ClearedStep(d) ==
    handler'[d].pc \in Cleared =>
        /\ handler'[d].target = handler[d].target
        /\ \/ handler[d].pc \in Cleared
           \/ handler[d].target \notin RouteSessions'

CleanStep(d) ==
    Clean(handler'[d]) =>
        /\ handler'[d].owned = handler[d].owned
        /\ \/ Clean(handler[d])
           \/ owners'[handler[d].owned] = NoConn

AnswerStep(d) ==
    \A m \in Answers(d)' : m.type \in FinalTypes =>
        \/ m \in Answers(d)
        \/ \E e \in Conns : handler[e].pc \in Cleared /\ m.session = handler[e].target

WaitStep(d) ==
    \A n \in Sessions : Waits(handler[d], n) => Waits(handler'[d], n) \/ acks'[n] # d

Moves(d) ==
    /\ Fits(handler'[d])
    /\ OwnedStep(d) /\ TargetStep(d) /\ RegisteringStep(d)
    /\ ClearedStep(d) /\ CleanStep(d) /\ AnswerStep(d) /\ WaitStep(d)

AcksStep ==
    \A n \in Sessions : \/ acks'[n] \in {acks[n], NoConn}
                        \/ acks'[n] \in Conns /\ Waits(handler'[acks'[n]], n)

OwnersStep ==
    \A n \in Sessions : \/ owners'[n] \in {owners[n], NoConn}
                        \/ \E c \in Conns : /\ owners'[n] = c /\ handler[c].pc = "regOwner"
                                            /\ handler[c].owned = n /\ handler'[c].owned = n

RoutesStep ==
    \A n \in RouteSessions' :
        \/ n \in RouteSessions
        \/ \E c \in Conns : handler[c].pc = "regRoute" /\ handler[c].target = n
                            /\ handler'[c].pc = "regOwner"

SessionStep ==
    /\ \A d \in Conns : Moves(d)
    /\ AcksStep /\ OwnersStep /\ RoutesStep
    /\ issued <= issued'

------------------------------------------------------------------------------
(* Steps like these keep the invariant. *)

(* HasRoute is membership in RouteSessions, before and after a step. *)
LEMMA HasRouteIs ==
    ASSUME NEW n
    PROVE  (HasRoute(n) <=> n \in RouteSessions) /\ (HasRoute(n)' <=> n \in RouteSessions')
BY DEF HasRoute, RouteSessions

(* Sessions are numbers from 1, and everything that names one is one. *)
LEMMA SessionFacts ==
    ASSUME IInv
    PROVE  /\ \A d \in Conns : /\ handler[d].owned \in Sessions \cup {NoSession}
                               /\ handler[d].target \in Sessions \cup {NoSession}
                               /\ handler[d].owned <= issued /\ handler[d].target <= issued
           /\ \A d \in Conns : \A m \in Answers(d) : m.type \in FinalTypes => m.session \in Sessions
           /\ issued \in Nat /\ Sessions \subseteq Nat /\ NoSession \notin Sessions /\ NoSession \in Nat
           /\ \A d \in Conns : handler[d].pc \in SessionLabels => handler[d].target \in Sessions
           /\ \A n \in RouteSessions : n \in Sessions /\ n <= issued
<1>1. /\ handler \in [Conns -> Handler] /\ link \in [Conns -> Link] /\ issued \in 0..MaxSession
      /\ MaxSession \in Nat
  BY MaxSessionAssumption DEF IInv, Typed, SystemTypeOK, TypeOK
<1>2. ASSUME NEW d \in Conns, NEW m \in Answers(d), m.type \in FinalTypes
      PROVE  m.session \in Sessions
  <2>1. handler[d].reply \in ServerMessage /\ link[d].outbox \in Seq(ServerMessage)
    BY <1>1 DEF Handler, Link
  <2>2. m \in ServerMessage
    BY <2>1 DEF Answers, Box
  <2> QED BY <1>2, <2>2, ServerMessageKinds DEF FinalTypes, AnswerTypes
<1>3. \A d \in Conns : /\ handler[d].owned \in Sessions \cup {NoSession}
                       /\ handler[d].target \in Sessions \cup {NoSession}
                       /\ handler[d].owned <= issued /\ handler[d].target <= issued
  BY <1>1 DEF Handler, IInv, SessionsAreIssued
<1>4. \A n \in RouteSessions : n \in Sessions /\ n <= issued
  BY RouteFacts DEF IInv, SessionsAreIssued
<1> QED BY <1>1, <1>2, <1>3, <1>4 DEF Sessions, NoSession, IInv, Typed, TargetsAreSessions

(* A session that will be new is none that is known already. *)
LEMMA FreshAfterStep ==
    ASSUME IInv, IInv', SessionInv, SessionStep
    PROVE  NewSessionsAreFresh'
<1> SUFFICES ASSUME NEW c \in Conns, handler'[c].pc = "regRoute"
             PROVE  /\ handler'[c].target \notin RouteSessions'
                    /\ \A d \in Conns \ {c} : /\ handler'[d].owned # handler'[c].target
                                              /\ handler'[d].target # handler'[c].target
                    /\ \A d \in Conns : \A m \in Answers(d)' :
                           m.type \in FinalTypes => m.session # handler'[c].target
  BY DEF NewSessionsAreFresh
<1>1. PICK n \in Sessions : handler'[c].target = n
  BY DEF SessionLabels, IInv, Typed, TargetsAreSessions
<1>2. RegisteringStep(c)
  BY DEF SessionStep, Moves
<1>3. /\ n \notin RouteSessions
      /\ \A d \in Conns : \/ d = c /\ handler[c].pc = "regRoute"
                          \/ handler[d].owned # n /\ handler[d].target # n
      /\ \A d \in Conns : \A m \in Answers(d) : m.type \in FinalTypes => m.session # n
  <2>1. CASE handler[c].pc = "regRoute" /\ n = handler[c].target
    BY <2>1 DEF SessionInv, NewSessionsAreFresh
  <2>2. CASE n = issued + 1
    BY <1>1, <2>2, SessionFacts DEF SessionInv, FinalAnswersAreIssued
  <2> QED BY <1>1, <1>2, <2>1, <2>2 DEF RegisteringStep
<1>4. \A d \in Conns : handler'[d].pc = "regRoute" /\ handler'[d].target = n => c = d
  BY <1>1 DEF IInv, WaitersAreDistinct
<1>5. n \notin RouteSessions'
  <2>1. ASSUME NEW d \in Conns, handler[d].pc = "regRoute", handler[d].target = n,
               handler'[d].pc = "regOwner"
        PROVE  FALSE
    BY <1>3, <2>1
  <2> QED BY <1>1, <1>3, <2>1 DEF SessionStep, RoutesStep
<1>6. ASSUME NEW d \in Conns \ {c} PROVE handler'[d].owned # n /\ handler'[d].target # n
  <2>1. OwnedStep(d) /\ TargetStep(d)
    BY DEF SessionStep, Moves
  <2>2. handler[d].owned # n /\ handler[d].target # n
    BY <1>3
  <2>3. n # NoSession
    BY SessionFacts
  <2> QED BY <1>1, <1>3, <1>4, <2>1, <2>2, <2>3 DEF OwnedStep, TargetStep
<1>7. ASSUME NEW d \in Conns, NEW m \in Answers(d)', m.type \in FinalTypes
      PROVE  m.session # n
  <2>1. AnswerStep(d)
    BY DEF SessionStep, Moves
  <2>2. ASSUME NEW e \in Conns, handler[e].pc \in Cleared
        PROVE  handler[e].target # n
    BY <1>3, <2>2 DEF Cleared
  <2> QED BY <1>3, <1>7, <2>1, <2>2 DEF AnswerStep
<1> QED BY <1>1, <1>5, <1>6, <1>7

(* No session is owned twice. *)
LEMMA DistinctAfterStep ==
    ASSUME IInv, SessionInv, SessionStep
    PROVE  OwnedAreDistinct'
<1> SUFFICES ASSUME NEW c \in Conns, NEW d \in Conns, handler'[c].owned = handler'[d].owned,
                    handler'[c].owned # NoSession
             PROVE  c = d
  BY DEF OwnedAreDistinct
<1>1. OwnedStep(c) /\ OwnedStep(d)
  BY DEF SessionStep, Moves
<1> QED BY <1>1, SessionFacts
        DEF OwnedStep, SessionInv, OwnedAreDistinct, NewSessionsAreFresh, IInv, WaitersAreDistinct

(* Removed routes stay away: nothing registers under a session that was issued before. *)
LEMMA ClearedAfterStep ==
    ASSUME IInv, SessionInv, SessionStep
    PROVE  /\ ClearedHaveNoRoute'
           /\ \A e \in Conns : handler[e].pc \in Cleared => handler[e].target \notin RouteSessions'
<1>1. ASSUME NEW e \in Conns, handler[e].pc \in Cleared
      PROVE  handler[e].target \notin RouteSessions'
  <2>1. handler[e].target \notin RouteSessions
    BY <1>1 DEF SessionInv, ClearedHaveNoRoute
  <2>2. ASSUME NEW c \in Conns, handler[c].pc = "regRoute"
        PROVE  handler[c].target # handler[e].target
    BY <1>1, <2>2 DEF SessionInv, NewSessionsAreFresh, Cleared
  <2> QED BY <2>1, <2>2 DEF SessionStep, RoutesStep
<1>2. ASSUME NEW c \in Conns, handler'[c].pc \in Cleared
      PROVE  handler'[c].target \notin RouteSessions'
  <2>1. ClearedStep(c)
    BY DEF SessionStep, Moves
  <2> QED BY <1>1, <1>2, <2>1 DEF ClearedStep
<1> QED BY <1>1, <1>2 DEF ClearedHaveNoRoute

(* A step that neither makes an untrue answer nor brings a route back keeps answers true. *)
LEMMA AnswersAfterStep ==
    ASSUME IInv, SessionInv, SessionStep, issued' \in Nat
    PROVE  AnswersAreTrue' /\ FinalAnswersAreIssued'
<1>1. ASSUME NEW d \in Conns, NEW m \in Answers(d)', m.type \in FinalTypes
      PROVE  m.session \notin RouteSessions' /\ m.session <= issued'
  <2>1. CASE m \in Answers(d)
    <3>1. m.session \notin RouteSessions
      BY <1>1, <2>1, HasRouteIs DEF SessionInv, AnswersAreTrue, FinalTypes, Answers, Box
    <3>2. ASSUME NEW c \in Conns, handler[c].pc = "regRoute"
          PROVE  handler[c].target # m.session
      BY <1>1, <2>1, <3>2 DEF SessionInv, NewSessionsAreFresh
    <3>3. m.session <= issued /\ m.session \in Nat
      BY <1>1, <2>1, SessionFacts DEF SessionInv, FinalAnswersAreIssued
    <3>4. m.session <= issued'
      BY <3>3, SessionFacts DEF SessionStep
    <3> QED BY <3>1, <3>2, <3>4 DEF SessionStep, RoutesStep
  <2>2. ASSUME NEW e \in Conns, handler[e].pc \in Cleared, m.session = handler[e].target
        PROVE  m.session \notin RouteSessions' /\ m.session <= issued'
    <3>1. m.session <= issued /\ m.session \in Nat
      BY <2>2, SessionFacts
    <3>2. m.session <= issued'
      BY <3>1, SessionFacts DEF SessionStep
    <3> QED BY <2>2, <3>2, ClearedAfterStep
  <2>3. AnswerStep(d)
    BY DEF SessionStep, Moves
  <2> QED BY <1>1, <2>1, <2>2, <2>3 DEF AnswerStep
<1>2. FinalAnswersAreIssued'
  BY <1>1 DEF FinalAnswersAreIssued
<1>3. AnswersAreTrue'
  BY <1>1, HasRouteIs DEF AnswersAreTrue, FinalTypes, Answers, Box
<1> QED BY <1>2, <1>3

(* The maps: entries are stored for their session, and go before their session does. *)
LEMMA OwnersAfterStep ==
    ASSUME IInv, SessionInv, SessionStep, owners \in [Sessions -> Conns \cup {NoConn}]
    PROVE  OwnersAreServed' /\ CleanHaveNoOwner'
<1>1. ASSUME NEW n \in Sessions, owners'[n] # NoConn
      PROVE  handler'[owners'[n]].owned = n
  <2>1. CASE owners'[n] = owners[n]
    <3> DEFINE d == owners[n]
    <3>1. d \in Conns /\ handler[d].owned = n
      BY <1>1, <2>1 DEF SessionInv, OwnersAreServed
    <3>2. OwnedStep(d)
      BY <3>1 DEF SessionStep, Moves
    <3>3. ~Clean(handler[d])
      BY <1>1, <2>1, <3>1, SessionFacts DEF SessionInv, CleanHaveNoOwner
    <3>4. handler[d].pc # "regRoute"
      BY <3>1, SessionFacts DEF SessionInv, Fits
    <3> QED BY <2>1, <3>1, <3>2, <3>3, <3>4 DEF OwnedStep
  <2> QED BY <1>1, <2>1 DEF SessionStep, OwnersStep
<1>2. ASSUME NEW c \in Conns, Clean(handler'[c]), handler'[c].owned # NoSession
      PROVE  owners'[handler'[c].owned] = NoConn
  <2>1. CleanStep(c)
    BY DEF SessionStep, Moves
  <2> DEFINE n == handler[c].owned
  <2>2. handler'[c].owned = n /\ n \in Sessions
    BY <1>2, <2>1, SessionFacts DEF CleanStep
  <2>3. CASE Clean(handler[c])
    <3>1. owners[n] = NoConn
      BY <1>2, <2>2, <2>3 DEF SessionInv, CleanHaveNoOwner
    <3>2. ASSUME NEW d \in Conns, handler[d].pc = "regOwner", handler[d].owned = n
          PROVE  FALSE
      BY <2>2, <2>3, <3>2, SessionFacts DEF SessionInv, OwnedAreDistinct, Clean
    <3> QED BY <2>2, <3>1, <3>2 DEF SessionStep, OwnersStep
  <2> QED BY <1>2, <2>1, <2>2, <2>3 DEF CleanStep
<1> QED BY <1>1, <1>2 DEF OwnersAreServed, CleanHaveNoOwner

(* A step that stores a Notify only for its own `stop` keeps every Notify with its waiter. *)
LEMMA AcksAfterStep ==
    ASSUME IInv, SessionInv, SessionStep, acks \in [Sessions -> Conns \cup {NoConn}]
    PROVE  AcksHaveWaiters'
<1>1. ASSUME NEW n \in Sessions, acks'[n] # NoConn
      PROVE  Waits(handler'[acks'[n]], n)
  <2>1. CASE acks'[n] = acks[n]
    <3> DEFINE d == acks[n]
    <3>1. d \in Conns /\ Waits(handler[d], n)
      BY <1>1, <2>1 DEF SessionInv, AcksHaveWaiters, Waits
    <3>2. WaitStep(d)
      BY <3>1 DEF SessionStep, Moves
    <3> QED BY <2>1, <3>1, <3>2 DEF WaitStep
  <2> QED BY <1>1, <2>1 DEF SessionStep, AcksStep
<1> QED BY <1>1 DEF AcksHaveWaiters, Waits

(* A session step keeps the invariant: each of its parts looks at the maps and one connection. *)
LEMMA SessionStepKeeps ==
    ASSUME IInv, IInv', SessionInv, SessionStep
    PROVE  SessionInv'
<1>1. /\ owners \in [Sessions -> Conns \cup {NoConn}]
      /\ acks \in [Sessions -> Conns \cup {NoConn}]
      /\ issued' \in Nat
  BY MaxSessionAssumption DEF IInv, Typed, SystemTypeOK, TypeOK
<1>2. \A c \in Conns : Fits(handler'[c])
  BY DEF SessionStep, Moves
<1> QED BY <1>1, <1>2, FreshAfterStep, DistinctAfterStep, ClearedAfterStep, AnswersAfterStep,
           OwnersAfterStep, AcksAfterStep DEF SessionInv

------------------------------------------------------------------------------
(* Every step but the end of the process is one of these. *)

NoNewFinals(d) ==
    \A m \in Box(link'[d].outbox) : m.type \in FinalTypes => m \in Box(link[d].outbox)

(* The step of another connection. *)
LEMMA BystanderMoves ==
    ASSUME SessionInv, NEW d \in Conns, handler'[d] = handler[d], NoNewFinals(d)
    PROVE  Moves(d)
<1>1. Fits(handler'[d]) /\ OwnedStep(d) /\ TargetStep(d) /\ RegisteringStep(d) /\ WaitStep(d)
  BY DEF SessionInv, OwnedStep, TargetStep, RegisteringStep, WaitStep
<1>2. ClearedStep(d) /\ CleanStep(d)
  BY DEF ClearedStep, CleanStep
<1>3. AnswerStep(d)
  BY DEF AnswerStep, Answers, NoNewFinals
<1> QED BY <1>1, <1>2, <1>3 DEF Moves

(* The maps stay as they are. *)
LEMMA MapsStay ==
    /\ UNCHANGED acks => AcksStep
    /\ UNCHANGED owners => OwnersStep
    /\ UNCHANGED registry => RoutesStep
    /\ UNCHANGED issued /\ IInv => issued <= issued'
<1>1. UNCHANGED registry => RouteSessions' = RouteSessions
  BY DEF RouteSessions
<1>2. UNCHANGED issued /\ IInv => issued <= issued'
  BY SessionFacts
<1> QED BY <1>1, <1>2 DEF AcksStep, OwnersStep, RoutesStep

(* It is enough to look at the one handler that moves and at the maps. *)
LEMMA OneMoves ==
    ASSUME SessionInv, NEW c \in Conns, OnlyHandler(c), Moves(c),
           \A d \in Conns \ {c} : NoNewFinals(d),
           AcksStep, OwnersStep, RoutesStep, issued <= issued'
    PROVE  SessionStep
BY BystanderMoves DEF SessionStep, OnlyHandler

(* A step that leaves all handlers alone and answers nobody. *)
LEMMA NobodyMoves ==
    ASSUME IInv, SessionInv, UNCHANGED <<handler, registry, owners, acks, issued>>,
           \A d \in Conns : NoNewFinals(d)
    PROVE  SessionStep
BY BystanderMoves, MapsStay DEF SessionStep

(* What puts nothing into a channel puts no Stopped or Unregistered into it. *)
LEMMA SameLinkNoFinals ==
    /\ UNCHANGED link => \A d \in Conns : NoNewFinals(d)
    /\ \A c \in Conns : OnlyLink(c) => \A d \in Conns \ {c} : NoNewFinals(d)
    /\ \A d \in Conns : link'[d].outbox = link[d].outbox => NoNewFinals(d)
BY DEF NoNewFinals, OnlyLink

(* A handler moves on without an answer, to a label at which it registers or removes nothing. *)
LEMMA PlainMoves ==
    ASSUME IInv, SessionInv, NEW c \in Conns,
           NoNewFinals(c), Fits(handler'[c]), OwnedStep(c), TargetStep(c), WaitStep(c),
           handler'[c].reply.type \notin FinalTypes \/ handler'[c].reply = handler[c].reply,
           handler'[c].pc \notin Cleared \cup {"regRoute", "reply"}
    PROVE  Moves(c)
<1>1. ClearedStep(c) /\ RegisteringStep(c) /\ CleanStep(c)
  BY DEF ClearedStep, RegisteringStep, CleanStep, Clean, Cleared
<1>2. AnswerStep(c)
  BY DEF AnswerStep, Answers, NoNewFinals
<1> QED BY <1>1, <1>2 DEF Moves

(* A handler answers with something that is not final. *)
LEMMA ReplyMoves ==
    ASSUME IInv, SessionInv, NEW c \in Conns, NEW m, GotoReply(c, m), m.type \notin FinalTypes,
           NoNewFinals(c), handler[c].pc \notin {"stopLookup", "stopSend", "stopArm", "stopWait",
                                           "rmRoutes", "rmOwner", "rmAck"}
    PROVE  Moves(c) /\ OnlyHandler(c)
<1>1. /\ OnlyHandler(c) /\ KeepsJob(c)
      /\ handler'[c].pc = "reply" /\ handler'[c].reply = m
  BY ReplyEffect DEF IInv, Typed, SystemTypeOK, TypeOK
<1>2. Fits(handler'[c]) /\ OwnedStep(c) /\ TargetStep(c) /\ RegisteringStep(c) /\ WaitStep(c)
  BY <1>1 DEF Fits, OwnedStep, TargetStep, RegisteringStep, WaitStep, Waits, KeepsJob,
              StopLabels, Cleared
<1>3. ClearedStep(c) /\ CleanStep(c)
  BY <1>1 DEF ClearedStep, CleanStep, Clean, Cleared, FinalTypes
<1>4. AnswerStep(c)
  BY <1>1 DEF AnswerStep, Answers, NoNewFinals
<1> QED BY <1>1, <1>2, <1>3, <1>4 DEF Moves

(* The type of an answer without contents. *)
LEMMA PlainFacts == \A type : Plain(type).type = type
BY DEF Plain, Msg

(* A refusal is an answer, and no final one. *)
LEMMA RefuseIsReply == \A c \in Conns : Refuse(c) => GotoReply(c, Plain("error"))
BY DEF Refuse, GotoReply

(* Registration. *)
LEMMA RegisterSessionStep ==
    ASSUME IInv, SessionInv, NEW c \in Conns,
           \/ Accept(c) \/ ReadRegister(c) \/ RegisterRoute(c) \/ RegisterOwner(c)
           \/ RegisterActive(c)
    PROVE  SessionStep
<1>0. /\ handler \in [Conns -> Handler] /\ link \in [Conns -> Link]
      /\ owners \in [Sessions -> Conns \cup {NoConn}]
      /\ handler[c].pc \in SessionLabels => handler[c].target \in Sessions
      /\ Fits(handler[c])
  BY DEF IInv, Typed, SystemTypeOK, TypeOK, TargetsAreSessions, SessionInv
<1>1. CASE Accept(c)
  <2>1. /\ Goto(c, "reading") /\ handler[c].pc = "backlog"
        /\ UNCHANGED <<registry, owners, acks, issued, link>>
    BY <1>1 DEF Accept, At, sharedVars
  <2>2. /\ OnlyHandler(c) /\ KeepsJob(c) /\ handler'[c].pc = "reading"
        /\ handler'[c].reply = handler[c].reply
    BY <1>0, <2>1, GotoEffect
  <2>3. Fits(handler'[c]) /\ OwnedStep(c) /\ TargetStep(c) /\ WaitStep(c)
    BY <1>0, <2>1, <2>2
       DEF Fits, OwnedStep, TargetStep, WaitStep, Waits, KeepsJob, StopLabels, Cleared
  <2>4. Moves(c)
    BY <2>1, <2>2, <2>3, PlainMoves, SameLinkNoFinals DEF Cleared
  <2> QED BY <2>1, <2>2, <2>4, OneMoves, MapsStay, SameLinkNoFinals
<1>2. CASE ReadRegister(c)
  <2>1. /\ OnlyLink(c) /\ handler[c].pc = "reading" /\ link'[c].outbox = link[c].outbox
        /\ UNCHANGED <<registry, owners, acks>>
    BY <1>0, <1>2, ReceiveEffect DEF ReadRegister
  <2>2. CASE Refuse(c) /\ UNCHANGED issued
    BY <2>1, <2>2, RefuseIsReply, ReplyMoves, OneMoves, MapsStay, SameLinkNoFinals, PlainFacts
       DEF FinalTypes
  <2>3. CASE /\ handler[c].owned = NoSession
             /\ issued' = issued + 1 /\ Begin(c, "regRoute", issued + 1)
    <3>1. /\ OnlyHandler(c)
          /\ handler'[c].pc = "regRoute" /\ handler'[c].target = issued + 1
          /\ handler'[c].owned = NoSession /\ handler'[c].reply = handler[c].reply
      BY <1>0, <2>3, BeginEffect
    <3>2. Fits(handler'[c]) /\ OwnedStep(c) /\ TargetStep(c) /\ WaitStep(c) /\ RegisteringStep(c)
      BY <2>1, <2>3, <3>1
         DEF Fits, OwnedStep, TargetStep, WaitStep, RegisteringStep, Waits, StopLabels, Cleared
    <3>3. ClearedStep(c) /\ CleanStep(c) /\ AnswerStep(c)
      BY <2>1, <3>1 DEF ClearedStep, CleanStep, AnswerStep, Clean, Cleared, Answers
    <3>4. issued <= issued'
      BY <2>3, SessionFacts
    <3> QED BY <2>1, <3>1, <3>2, <3>3, <3>4, OneMoves, MapsStay, SameLinkNoFinals DEF Moves
  <2> QED BY <1>2, <2>2, <2>3 DEF ReadRegister
<1>3. CASE RegisterRoute(c)
  <2>1. /\ handler[c].pc = "regRoute" /\ handler[c].target \in Sessions
        /\ UNCHANGED <<owners, acks, issued, link>>
    BY <1>3, RegisterRouteEffect DEF IInv, RegisterRoute
  <2>2. CASE UNCHANGED registry /\ GotoReply(c, Plain("error"))
    BY <2>1, <2>2, ReplyMoves, OneMoves, MapsStay, SameLinkNoFinals, PlainFacts DEF FinalTypes
  <2>3. ASSUME NEW m \in RegisterMessage, NEW slug \in SlugChoices(registry, m.port, m.slug),
               handler' = [handler EXCEPT ![c].pc = "regOwner", ![c].slug = slug,
                                          ![c].owned = handler[c].target]
        PROVE  SessionStep
    <3>1. /\ OnlyHandler(c)
          /\ handler'[c].pc = "regOwner" /\ handler'[c].target = handler[c].target
          /\ handler'[c].owned = handler[c].target /\ handler'[c].reply = handler[c].reply
          /\ handler'[c].job = handler[c].job
      BY <1>0, <2>3 DEF OnlyHandler, Handler
    <3>2. Fits(handler'[c]) /\ OwnedStep(c) /\ TargetStep(c) /\ WaitStep(c)
      BY <2>1, <3>1 DEF Fits, OwnedStep, TargetStep, WaitStep, Waits, StopLabels, Cleared
    <3>3. Moves(c)
      BY <2>1, <3>1, <3>2, PlainMoves, SameLinkNoFinals DEF Cleared
    <3>4. RoutesStep
      <4>1. CASE UNCHANGED registry
        BY <4>1, MapsStay
      <4>2. ASSUME NEW route \in Route, route.session = handler[c].target,
                   registry.bySlug[route.slug] = NoRoute,
                   registry' = AddRoute(registry, route)
            PROVE  RoutesStep
        <5>1. Routes(registry') = Routes(registry) \cup {route}
          BY <4>2, RoutesAfterAdd DEF IInv, Typed, SystemTypeOK, TypeOK
        <5>2. RouteSessions' = {r.session : r \in Routes(registry')}
          BY DEF RouteSessions, Routes
        <5>3. RouteSessions' \subseteq RouteSessions \cup {handler[c].target}
          BY <4>2, <5>1, <5>2, RouteSessionsOfRoutes
        <5> QED BY <2>1, <3>1, <5>3 DEF RoutesStep
      <4> QED BY <1>3, <4>1, <4>2, RegisterRouteEffect DEF IInv
    <3> QED BY <2>1, <3>1, <3>3, <3>4, OneMoves, MapsStay, SameLinkNoFinals
  <2> QED BY <1>3, <2>2, <2>3 DEF RegisterRoute
<1>4. CASE RegisterOwner(c)
  <2>1. /\ Goto(c, "regActive") /\ handler[c].pc = "regOwner"
        /\ owners' = [owners EXCEPT ![handler[c].target] = c]
        /\ UNCHANGED <<registry, acks, issued, link>>
    BY <1>4 DEF RegisterOwner, At
  <2>2. /\ OnlyHandler(c) /\ KeepsJob(c) /\ handler'[c].pc = "regActive"
        /\ handler'[c].reply = handler[c].reply
    BY <1>0, <2>1, GotoEffect
  <2>3. Fits(handler'[c]) /\ OwnedStep(c) /\ TargetStep(c) /\ WaitStep(c)
    BY <1>0, <2>1, <2>2
       DEF Fits, OwnedStep, TargetStep, WaitStep, Waits, KeepsJob, StopLabels, Cleared
  <2>4. Moves(c)
    BY <2>1, <2>2, <2>3, PlainMoves, SameLinkNoFinals DEF Cleared
  <2>5. OwnersStep
    BY <1>0, <2>1, <2>2 DEF OwnersStep, Fits, KeepsJob
  <2> QED BY <2>1, <2>2, <2>4, <2>5, OneMoves, MapsStay, SameLinkNoFinals
<1>5. CASE RegisterActive(c)
  <2>1. /\ handler[c].pc = "regActive" /\ GotoReply(c, Msg("registered", handler[c].target))
        /\ UNCHANGED <<registry, owners, acks, issued, link>>
    BY <1>5 DEF RegisterActive, At
  <2> QED BY <2>1, ReplyMoves, OneMoves, MapsStay, SameLinkNoFinals DEF FinalTypes, Msg
<1> QED BY <1>1, <1>2, <1>3, <1>4, <1>5

(* The caller of remove_session goes on: it answers, or forgets the session it has owned. *)
LEMMA AfterRemovalMoves ==
    ASSUME IInv, SessionInv, NEW c \in Conns, handler[c].pc \in {"rmCheck", "rmIdle"},
           handler' = [handler EXCEPT ![c] = AfterRemoval(handler[c])], NoNewFinals(c)
    PROVE  Moves(c) /\ OnlyHandler(c)
<1>1. handler \in [Conns -> Handler]
  BY DEF IInv, Typed, SystemTypeOK, TypeOK
<1>2. ASSUME NEW type, GotoReply(c, Msg(type, handler[c].target)),
             type = "unregistered" => handler[c].job.type = "unregister"
      PROVE  Moves(c) /\ OnlyHandler(c)
  <2>1. /\ OnlyHandler(c) /\ KeepsJob(c) /\ handler'[c].pc = "reply"
        /\ handler'[c].reply = Msg(type, handler[c].target)
    BY <1>1, <1>2, ReplyEffect
  <2>2. /\ Fits(handler'[c]) /\ OwnedStep(c) /\ TargetStep(c) /\ WaitStep(c)
        /\ RegisteringStep(c) /\ ClearedStep(c)
    BY <2>1 DEF Fits, OwnedStep, TargetStep, WaitStep, RegisteringStep, ClearedStep, Waits,
                KeepsJob, StopLabels, Cleared
  <2>3. CleanStep(c)
    BY <1>2, <2>1 DEF CleanStep, Clean, KeepsJob, Msg
  <2>4. AnswerStep(c)
    <3>1. ASSUME NEW m \in Answers(c)', m.type \in FinalTypes
          PROVE  m \in Answers(c) \/ m.session = handler[c].target
      BY <2>1, <3>1 DEF Answers, NoNewFinals, Msg
    <3> QED BY <3>1 DEF AnswerStep, Cleared
  <2> QED BY <2>1, <2>2, <2>3, <2>4 DEF Moves
<1>3. ASSUME NEW label \in {"reading", "done"}, handler[c].job.type # "stop",
             handler' = [handler EXCEPT ![c] = Rest(label, NoSession)]
      PROVE  Moves(c) /\ OnlyHandler(c)
  <2>1. /\ OnlyHandler(c) /\ handler'[c].pc = label /\ handler'[c].owned = NoSession
        /\ handler'[c].target = NoSession /\ handler'[c].reply = Plain("none")
    BY <1>1, <1>3 DEF Rest, NoHandler, OnlyHandler
  <2>2. Fits(handler'[c]) /\ OwnedStep(c) /\ TargetStep(c) /\ WaitStep(c)
    BY <1>3, <2>1 DEF Fits, OwnedStep, TargetStep, WaitStep, Waits, StopLabels, Cleared, Clean
  <2> QED BY <2>1, <2>2, PlainMoves, PlainFacts DEF FinalTypes, Cleared
<1>4. \/ GotoReply(c, Msg("unregistered", handler[c].target)) /\ handler[c].job.type = "unregister"
      \/ GotoReply(c, Msg("stopped", handler[c].target))
      \/ \E label \in {"reading", "done"} :
            /\ handler[c].job.type # "stop"
            /\ handler' = [handler EXCEPT ![c] = Rest(label, NoSession)]
  <2> DEFINE h == handler[c]
  <2>1. \/ /\ h.job.type = "unregister"
           /\ AfterRemoval(h) = Replying(h, Msg("unregistered", h.target))
        \/ AfterRemoval(h) = Replying(h, Msg("stopped", h.target))
        \/ h.job.type # "stop" /\ AfterRemoval(h) = Rest("reading", NoSession)
        \/ h.job.type # "stop" /\ AfterRemoval(h) = Rest("done", NoSession)
    BY DEF AfterRemoval
  <2> QED BY <2>1 DEF GotoReply
<1> QED BY <1>2, <1>3, <1>4

(* A handler starts to remove its own session. *)
LEMMA StartRemovalMoves ==
    ASSUME IInv, SessionInv, NEW c \in Conns, handler[c].pc = "reading", NoNewFinals(c),
           handler'[c].pc = "rmRoutes", handler'[c].owned = handler[c].owned,
           handler'[c].target = handler[c].owned, handler'[c].reply = handler[c].reply
    PROVE  Moves(c)
<1>1. Fits(handler'[c]) /\ OwnedStep(c) /\ TargetStep(c) /\ WaitStep(c)
  BY DEF Fits, OwnedStep, TargetStep, WaitStep, Waits, StopLabels, Cleared
<1> QED BY <1>1, PlainMoves DEF Cleared

(* Reading what an owner sends, or the end of its stream, is a session step. *)
LEMMA ReadSessionStep ==
    ASSUME IInv, SessionInv, NEW c \in Conns,
           \/ ReadUnregister(c) \/ ReadAcknowledged(c) \/ ReadDisconnect(c) \/ ReadError(c)
    PROVE  SessionStep
<1>0. /\ handler \in [Conns -> Handler] /\ link \in [Conns -> Link]
      /\ handler[c] \in Handler
  BY DEF IInv, Typed, SystemTypeOK, TypeOK
<1>1. CASE ReadUnregister(c) \/ ReadAcknowledged(c)
  <2>1. /\ OnlyLink(c) /\ handler[c].pc = "reading" /\ link'[c].outbox = link[c].outbox
        /\ UNCHANGED <<registry, owners, acks, issued>>
    BY <1>0, <1>1, ReceiveEffect DEF ReadUnregister, ReadAcknowledged, sharedVars
  <2>2. CASE Begin(c, "rmRoutes", handler[c].owned)
    <3>1. /\ OnlyHandler(c)
          /\ handler'[c].pc = "rmRoutes" /\ handler'[c].owned = handler[c].owned
          /\ handler'[c].target = handler[c].owned /\ handler'[c].reply = handler[c].reply
      BY <1>0, <2>2, BeginEffect
    <3> QED BY <2>1, <3>1, StartRemovalMoves, OneMoves, MapsStay, SameLinkNoFinals
  <2>3. CASE Refuse(c)
    BY <2>1, <2>3, RefuseIsReply, ReplyMoves, OneMoves, MapsStay, SameLinkNoFinals, PlainFacts
       DEF FinalTypes
  <2>4. CASE UNCHANGED handler
    BY <2>1, <2>4, NobodyMoves, SameLinkNoFinals DEF OnlyLink
  <2> QED BY <1>1, <2>2, <2>3, <2>4 DEF ReadUnregister, ReadAcknowledged
<1>2. CASE ReadDisconnect(c)
  <2>1. handler[c].pc = "reading" /\ UNCHANGED <<registry, owners, acks, issued, link>>
    BY <1>2 DEF ReadDisconnect, At, sharedVars
  <2>2. CASE handler[c].owned = NoSession
    <3>1. handler' = [handler EXCEPT ![c] = Rest("done", NoSession)]
      BY <1>2, <2>2 DEF ReadDisconnect
    <3>2. /\ OnlyHandler(c) /\ handler'[c].pc = "done" /\ handler'[c].owned = NoSession
          /\ handler'[c].target = NoSession /\ handler'[c].reply = Plain("none")
      BY <1>0, <3>1 DEF Rest, NoHandler, OnlyHandler
    <3>3. Fits(handler'[c]) /\ OwnedStep(c) /\ TargetStep(c) /\ WaitStep(c)
      BY <2>1, <2>2, <3>2 DEF Fits, OwnedStep, TargetStep, WaitStep, Waits, StopLabels, Cleared
    <3>4. Moves(c)
      BY <2>1, <3>2, <3>3, PlainMoves, PlainFacts, SameLinkNoFinals DEF FinalTypes, Cleared
    <3> QED BY <2>1, <3>2, <3>4, OneMoves, MapsStay, SameLinkNoFinals
  <2>3. CASE handler[c].owned # NoSession
    <3> DEFINE h == [handler[c] EXCEPT !.pc = "rmRoutes", !.job = Disconnect,
                                       !.target = handler[c].owned]
    <3>1. /\ h.pc = "rmRoutes" /\ h.target = handler[c].owned /\ h.owned = handler[c].owned
          /\ h.reply = handler[c].reply
      BY <1>0 DEF Handler
    <3>2. handler' = [handler EXCEPT ![c] = h]
      BY <1>2, <2>3 DEF ReadDisconnect
    <3> HIDE DEF h
    <3>3. OnlyHandler(c) /\ handler'[c] = h
      BY <1>0, <3>2 DEF OnlyHandler
    <3> QED BY <2>1, <3>1, <3>3, StartRemovalMoves, OneMoves, MapsStay, SameLinkNoFinals
  <2> QED BY <2>2, <2>3
<1>3. CASE ReadError(c)
  <2>1. /\ handler[c].pc = "reading" /\ UNCHANGED <<registry, owners, acks, issued, link>>
        /\ handler' = [handler EXCEPT ![c] = Rest("failed", handler[c].owned)]
    BY <1>3 DEF ReadError, At, sharedVars
  <2>2. /\ OnlyHandler(c) /\ handler'[c].pc = "failed" /\ handler'[c].owned = handler[c].owned
        /\ handler'[c].target = NoSession /\ handler'[c].reply = Plain("none")
    BY <1>0, <2>1 DEF Rest, NoHandler, OnlyHandler
  <2>3. Fits(handler'[c]) /\ OwnedStep(c) /\ TargetStep(c) /\ WaitStep(c)
    BY <2>1, <2>2 DEF Fits, OwnedStep, TargetStep, WaitStep, Waits, StopLabels, Cleared
  <2>4. Moves(c)
    BY <2>1, <2>2, <2>3, PlainMoves, PlainFacts, SameLinkNoFinals DEF FinalTypes, Cleared
  <2> QED BY <2>1, <2>2, <2>4, OneMoves, MapsStay, SameLinkNoFinals
<1> QED BY <1>1, <1>2, <1>3

(* remove_session. *)
LEMMA RemoveSessionStep ==
    ASSUME IInv, SessionInv, NEW c \in Conns,
           \/ RemoveRoutes(c) \/ RemoveOwner(c) \/ RemoveAck(c) \/ CheckEmpty(c) \/ MarkIdle(c)
    PROVE  SessionStep
<1>0. /\ handler \in [Conns -> Handler]
      /\ owners \in [Sessions -> Conns \cup {NoConn}] /\ acks \in [Sessions -> Conns \cup {NoConn}]
      /\ handler[c].pc \in SessionLabels => handler[c].target \in Sessions
      /\ Fits(handler[c]) /\ registry \in Registry
  BY DEF IInv, Typed, SystemTypeOK, TypeOK, TargetsAreSessions, SessionInv
<1>1. CASE RemoveRoutes(c)
  <2>1. /\ Goto(c, "rmOwner") /\ handler[c].pc = "rmRoutes" /\ handler[c].target \in Sessions
        /\ registry' = RemoveSession(registry, handler[c].target)
        /\ UNCHANGED <<owners, acks, issued, link>>
    BY <1>0, <1>1 DEF RemoveRoutes, At, SessionLabels
  <2>2. /\ OnlyHandler(c) /\ KeepsJob(c) /\ handler'[c].pc = "rmOwner"
        /\ handler'[c].reply = handler[c].reply
    BY <1>0, <2>1, GotoEffect
  <2>3. RouteSessions' = RouteSessions \ {handler[c].target}
    <3>1. Routes(registry') = {r \in Routes(registry) : r.session # handler[c].target}
      BY <1>0, <2>1, RoutesAfterRemove DEF IInv, RegistryConsistent
    <3>2. RouteSessions' = {r.session : r \in Routes(registry')}
      BY DEF RouteSessions, Routes
    <3> QED BY <3>1, <3>2, RouteSessionsOfRoutes
  <2>4. /\ Fits(handler'[c]) /\ OwnedStep(c) /\ TargetStep(c) /\ WaitStep(c)
        /\ RegisteringStep(c) /\ ClearedStep(c) /\ CleanStep(c)
    BY <1>0, <2>1, <2>2, <2>3
       DEF Fits, OwnedStep, TargetStep, WaitStep, Waits, KeepsJob, StopLabels, Cleared, Clean,
           RegisteringStep, ClearedStep, CleanStep
  <2>5. AnswerStep(c)
    BY <2>1, <2>2 DEF AnswerStep, Answers
  <2>6. RoutesStep
    BY <2>3 DEF RoutesStep
  <2> QED BY <2>1, <2>2, <2>4, <2>5, <2>6, OneMoves, MapsStay, SameLinkNoFinals DEF Moves
<1>2. CASE RemoveOwner(c)
  <2>1. /\ Goto(c, "rmAck") /\ handler[c].pc = "rmOwner" /\ handler[c].target \in Sessions
        /\ owners' = [owners EXCEPT ![handler[c].target] = NoConn]
        /\ UNCHANGED <<registry, acks, issued, link>>
    BY <1>0, <1>2 DEF RemoveOwner, At, SessionLabels
  <2>2. /\ OnlyHandler(c) /\ KeepsJob(c) /\ handler'[c].pc = "rmAck"
        /\ handler'[c].reply = handler[c].reply
    BY <1>0, <2>1, GotoEffect
  <2>3. /\ Fits(handler'[c]) /\ OwnedStep(c) /\ TargetStep(c) /\ WaitStep(c)
        /\ RegisteringStep(c) /\ ClearedStep(c)
    BY <1>0, <2>1, <2>2
       DEF Fits, OwnedStep, TargetStep, WaitStep, Waits, KeepsJob, StopLabels, Cleared,
           RegisteringStep, ClearedStep
  <2>4. CleanStep(c)
    BY <1>0, <2>1, <2>2 DEF Fits, CleanStep, Clean, Cleared, KeepsJob
  <2>5. AnswerStep(c)
    BY <2>1, <2>2 DEF AnswerStep, Answers
  <2>6. OwnersStep
    BY <1>0, <2>1 DEF OwnersStep
  <2> QED BY <2>1, <2>2, <2>3, <2>4, <2>5, <2>6, OneMoves, MapsStay, SameLinkNoFinals DEF Moves
<1>3. CASE RemoveAck(c)
  <2> DEFINE n == handler[c].target
  <2>1. /\ handler[c].pc = "rmAck" /\ n \in Sessions
        /\ acks' = [acks EXCEPT ![n] = NoConn]
        /\ UNCHANGED <<registry, owners, issued, link>>
    BY <1>0, <1>3 DEF RemoveAck, At, SessionLabels
  <2>2. Moves(c)
    <3>1. handler'[c] = [handler[c] EXCEPT !.pc = "rmCheck"]
      BY <1>3 DEF RemoveAck
    <3>2. /\ KeepsJob(c) /\ handler'[c].pc = "rmCheck"
          /\ handler'[c].reply = handler[c].reply
      BY <1>0, <3>1 DEF KeepsJob, Handler
    <3>3. /\ Fits(handler'[c]) /\ OwnedStep(c) /\ TargetStep(c)
          /\ RegisteringStep(c) /\ ClearedStep(c) /\ CleanStep(c)
      BY <1>0, <2>1, <3>2
         DEF Fits, OwnedStep, TargetStep, KeepsJob, StopLabels, Cleared, Clean,
             RegisteringStep, ClearedStep, CleanStep
    <3>4. WaitStep(c)
      BY <1>0, <2>1, ConnAssumption DEF WaitStep, Waits
    <3>5. AnswerStep(c)
      BY <2>1, <3>2 DEF AnswerStep, Answers
    <3> QED BY <3>3, <3>4, <3>5 DEF Moves
  <2>3. ASSUME NEW d \in Conns \ {c}, handler'[d] = handler[d]
        PROVE  Moves(d)
    BY <2>1, <2>3, BystanderMoves, SameLinkNoFinals
  <2>4. ASSUME NEW d \in Conns \ {c}, d = acks[n], handler[d].pc = "stopWait",
               handler'[d] = Replying(handler[d], Msg("stopped", handler[d].target))
        PROVE  Moves(d)
    <3>1. handler[d].target = n
      BY <2>1, <2>4, ConnAssumption DEF SessionInv, AcksHaveWaiters
    <3>2. /\ KeepsJob(d) /\ handler'[d].pc = "reply"
          /\ handler'[d].reply = Msg("stopped", n)
      BY SMTT(60), <1>0, <2>4, <3>1 DEF Replying, Handler, KeepsJob
    <3>3. Fits(handler'[d]) /\ OwnedStep(d) /\ TargetStep(d)
      BY <2>4, <3>2 DEF Fits, OwnedStep, TargetStep, KeepsJob, StopLabels, Cleared
    <3>4. RegisteringStep(d) /\ ClearedStep(d)
      BY <3>2 DEF RegisteringStep, ClearedStep, Cleared
    <3>5. CleanStep(d)
      BY <3>2 DEF CleanStep, Clean, Msg
    <3>6. WaitStep(d)
      BY <1>0, <2>1, <3>1, ConnAssumption DEF WaitStep, Waits
    <3>7. AnswerStep(d)
      <4>1. ASSUME NEW m \in Answers(d)' PROVE m \in Answers(d) \/ m.session = handler[c].target
        BY <2>1, <3>2 DEF Answers, Msg
      <4> QED BY <2>1, <4>1 DEF AnswerStep, Cleared
    <3> QED BY <3>3, <3>4, <3>5, <3>6, <3>7 DEF Moves
  <2>5. ASSUME NEW d \in Conns PROVE Moves(d)
    <3>1. handler'[d] = IF d = c THEN [handler[d] EXCEPT !.pc = "rmCheck"]
                        ELSE IF d = acks[n] /\ handler[d].pc = "stopWait"
                        THEN Replying(handler[d], Msg("stopped", handler[d].target))
                        ELSE handler[d]
      BY <1>3 DEF RemoveAck
    <3> QED BY <2>2, <2>3, <2>4, <3>1
  <2>6. AcksStep
    BY <1>0, <2>1 DEF AcksStep
  <2> QED BY <2>1, <2>5, <2>6, MapsStay DEF SessionStep
<1>4. CASE CheckEmpty(c)
  <2>1. handler[c].pc = "rmCheck" /\ UNCHANGED <<registry, owners, acks, issued, link>>
    BY <1>4 DEF CheckEmpty, At, sharedVars
  <2>2. CASE IsEmpty(registry)
    <3>1. Goto(c, "rmIdle")
      BY <1>4, <2>2 DEF CheckEmpty, Goto
    <3>2. /\ OnlyHandler(c) /\ KeepsJob(c) /\ handler'[c].pc = "rmIdle"
          /\ handler'[c].reply = handler[c].reply
      BY <1>0, <3>1, GotoEffect
    <3>3. /\ Fits(handler'[c]) /\ OwnedStep(c) /\ TargetStep(c) /\ WaitStep(c)
          /\ RegisteringStep(c) /\ ClearedStep(c) /\ CleanStep(c)
      BY <1>0, <2>1, <3>2
         DEF Fits, OwnedStep, TargetStep, WaitStep, Waits, KeepsJob, StopLabels, Cleared, Clean,
             RegisteringStep, ClearedStep, CleanStep
    <3>4. AnswerStep(c)
      BY <2>1, <3>2 DEF AnswerStep, Answers
    <3> QED BY <2>1, <3>2, <3>3, <3>4, OneMoves, MapsStay, SameLinkNoFinals DEF Moves
  <2>3. CASE ~IsEmpty(registry)
    <3>1. handler' = [handler EXCEPT ![c] = AfterRemoval(handler[c])]
      BY <1>4, <2>3 DEF CheckEmpty
    <3> QED BY <2>1, <3>1, AfterRemovalMoves, OneMoves, MapsStay, SameLinkNoFinals
  <2> QED BY <2>2, <2>3
<1>5. CASE MarkIdle(c)
  <2>1. /\ handler[c].pc = "rmIdle" /\ UNCHANGED <<registry, owners, acks, issued, link>>
        /\ handler' = [handler EXCEPT ![c] = AfterRemoval(handler[c])]
    BY <1>5 DEF MarkIdle, At
  <2> QED BY <2>1, AfterRemovalMoves, OneMoves, MapsStay, SameLinkNoFinals
<1> QED BY <1>1, <1>2, <1>3, <1>4, <1>5

(* Sending another message leaves the final answers in every channel what they were. *)
LEMMA SentNoFinals ==
    ASSUME IInv, NEW e \in Conns, NEW m \in ServerMessage, link' = Sent(e, m),
           m.type \notin FinalTypes
    PROVE  \A d \in Conns : NoNewFinals(d)
<1>1. OnlyLink(e) /\ Box(link'[e].outbox) \subseteq Box(link[e].outbox) \cup {m}
  BY SentEffect DEF IInv, Typed, SystemTypeOK, TypeOK
<1> QED BY <1>1 DEF NoNewFinals, OnlyLink

(* A handler moves to another label of the same job. *)
LEMMA GotoMoves ==
    ASSUME IInv, SessionInv, NEW c \in Conns, NEW label, OnlyHandler(c), KeepsJob(c), NoNewFinals(c),
           handler'[c].pc = label, handler'[c].reply = handler[c].reply,
           Fits(handler'[c]), WaitStep(c), label \notin Cleared \cup {"regRoute", "reply"}
    PROVE  Moves(c)
BY PlainMoves DEF KeepsJob, OwnedStep, TargetStep

(* stop_route. *)
LEMMA StopSessionStep ==
    ASSUME IInv, SessionInv, NEW c \in Conns,
           \/ ReadList(c) \/ ReadStop(c) \/ StopInsertsAck(c) \/ StopLooksUp(c)
           \/ StopArms(c) \/ StopTimesOut(c)
    PROVE  SessionStep
<1>0. /\ handler \in [Conns -> Handler] /\ link \in [Conns -> Link]
      /\ acks \in [Sessions -> Conns \cup {NoConn}]
      /\ handler[c].pc \in SessionLabels => handler[c].target \in Sessions
      /\ Fits(handler[c]) /\ registry \in Registry
  BY DEF IInv, Typed, SystemTypeOK, TypeOK, TargetsAreSessions, SessionInv
<1>1. CASE ReadList(c)
  <2>1. /\ OnlyLink(c) /\ handler[c].pc = "reading" /\ link'[c].outbox = link[c].outbox
        /\ UNCHANGED <<registry, owners, acks, issued>> /\ GotoReply(c, Plain("routeList"))
    BY <1>0, <1>1, ReceiveEffect DEF ReadList, sharedVars
  <2> QED BY <2>1, ReplyMoves, OneMoves, MapsStay, SameLinkNoFinals, PlainFacts DEF FinalTypes
<1>2. CASE ReadStop(c)
  <2> DEFINE m == Head(link[c].inbox)
             route == Resolve(registry, m.selector)
  <2>1. /\ OnlyLink(c) /\ handler[c].pc = "reading" /\ link'[c].outbox = link[c].outbox
        /\ m \in ClientMessage /\ m.type = "stop"
        /\ UNCHANGED <<registry, owners, acks, issued>>
    BY <1>0, <1>2, ReceiveEffect DEF ReadStop, sharedVars
  <2>2. CASE Refuse(c)
    BY <2>1, <2>2, RefuseIsReply, ReplyMoves, OneMoves, MapsStay, SameLinkNoFinals, PlainFacts
       DEF FinalTypes
  <2>3. CASE route # NoRoute /\ Begin(c, "stopAck", route.session)
    <3>1. route.session \in RouteSessions
      <4>1. m.selector \in Selectors
        BY SMTT(60), <2>1, ClientMessageKinds
      <4>2. \E s \in Slugs : registry.bySlug[s] = route
        BY <1>0, <2>3, <4>1, SelectorAssumption
           DEF Resolve, RouteForPort, Registry, Selectors
      <4> QED BY <2>3, <4>2 DEF RouteSessions
    <3> HIDE DEF route
    <3>2. /\ OnlyHandler(c) /\ handler'[c].pc = "stopAck" /\ handler'[c].target = route.session
          /\ handler'[c].owned = handler[c].owned /\ handler'[c].job = m
          /\ handler'[c].reply = handler[c].reply
      BY <1>0, <2>3, BeginEffect
    <3>3. Fits(handler'[c]) /\ OwnedStep(c) /\ TargetStep(c) /\ WaitStep(c)
      BY <2>1, <3>1, <3>2
         DEF Fits, OwnedStep, TargetStep, WaitStep, Waits, StopLabels, Cleared
    <3>4. Moves(c)
      BY <2>1, <3>2, <3>3, PlainMoves, SameLinkNoFinals DEF Cleared
    <3> QED BY <2>1, <3>2, <3>4, OneMoves, MapsStay, SameLinkNoFinals
  <2> QED BY <1>2, <2>2, <2>3 DEF ReadStop
<1>3. CASE StopInsertsAck(c)
  <2>1. /\ Goto(c, "stopLookup") /\ handler[c].pc = "stopAck" /\ handler[c].target \in Sessions
        /\ acks' = [acks EXCEPT ![handler[c].target] = c]
        /\ UNCHANGED <<registry, owners, issued, link>>
    BY <1>0, <1>3 DEF StopInsertsAck, At, SessionLabels
  <2>2. /\ OnlyHandler(c) /\ KeepsJob(c) /\ handler'[c].pc = "stopLookup"
        /\ handler'[c].reply = handler[c].reply
    BY <1>0, <2>1, GotoEffect
  <2>3. Fits(handler'[c]) /\ WaitStep(c) /\ Waits(handler'[c], handler[c].target)
    BY <1>0, <2>1, <2>2 DEF Fits, WaitStep, Waits, KeepsJob, StopLabels, Cleared
  <2>4. Moves(c)
    BY <2>1, <2>2, <2>3, GotoMoves, SameLinkNoFinals DEF Cleared
  <2>5. AcksStep
    BY <1>0, <2>1, <2>3 DEF AcksStep
  <2> QED BY <2>1, <2>2, <2>4, <2>5, OneMoves, MapsStay, SameLinkNoFinals
<1>4. CASE StopLooksUp(c)
  <2> DEFINE queue == IF owners[handler[c].target] = NoConn THEN <<>>
                      ELSE <<owners[handler[c].target]>>
  <2>1. /\ handler[c].pc = "stopLookup" /\ UNCHANGED <<registry, owners, acks, issued, link>>
        /\ handler' = [handler EXCEPT ![c].pc = "stopSend", ![c].queue = queue]
    BY <1>4 DEF StopLooksUp, At, sharedVars
  <2>2. /\ OnlyHandler(c) /\ KeepsJob(c) /\ handler'[c].pc = "stopSend"
        /\ handler'[c].reply = handler[c].reply
    BY <1>0, <2>1, QueueEffect
  <2>3. Fits(handler'[c]) /\ WaitStep(c)
    BY <1>0, <2>1, <2>2 DEF Fits, WaitStep, Waits, KeepsJob, StopLabels, Cleared
  <2>4. Moves(c)
    BY <2>1, <2>2, <2>3, GotoMoves, SameLinkNoFinals DEF Cleared
  <2> QED BY <2>1, <2>2, <2>4, OneMoves, MapsStay, SameLinkNoFinals
<1>5. CASE StopArms(c) \/ StopTimesOut(c)
  <2>1. PICK label \in {"stopWait", "rmRoutes"} :
            /\ Goto(c, label) /\ handler[c].pc \in {"stopArm", "stopWait"}
            /\ UNCHANGED <<registry, owners, acks, issued, link>>
    BY <1>5 DEF StopArms, StopTimesOut, At, sharedVars
  <2>2. /\ OnlyHandler(c) /\ KeepsJob(c) /\ handler'[c].pc = label
        /\ handler'[c].reply = handler[c].reply
    BY <1>0, <2>1, GotoEffect
  <2>3. Fits(handler'[c]) /\ WaitStep(c)
    BY <1>0, <2>1, <2>2 DEF Fits, WaitStep, Waits, KeepsJob, StopLabels, Cleared
  <2>4. Moves(c)
    BY <2>1, <2>2, <2>3, GotoMoves, SameLinkNoFinals DEF Cleared
  <2> QED BY <2>1, <2>2, <2>4, OneMoves, MapsStay, SameLinkNoFinals
<1> QED BY <1>1, <1>2, <1>3, <1>4, <1>5

(* One send of a Terminate, or what follows the last. *)
LEMMA TerminateSessionStep ==
    ASSUME IInv, SessionInv, NEW c \in Conns, SendTerminate(c)
    PROVE  SessionStep
<1> DEFINE queue == handler[c].queue
<1>0. /\ handler \in [Conns -> Handler] /\ handler[c] \in Handler /\ queue \in Seq(Conns)
      /\ Fits(handler[c]) /\ handler[c].pc \in {"stopSend", "killSend"}
      /\ UNCHANGED <<registry, owners, acks, issued>>
  BY DEF IInv, Typed, SystemTypeOK, TypeOK, SessionInv, Handler, SendTerminate, At, sharedVars
<1>1. CASE queue = <<>> /\ handler[c].pc = "stopSend"
  <2>1. Goto(c, "stopArm") /\ UNCHANGED link
    BY <1>1 DEF SendTerminate, Goto
  <2>2. /\ OnlyHandler(c) /\ KeepsJob(c) /\ handler'[c].pc = "stopArm"
        /\ handler'[c].reply = handler[c].reply
    BY <1>0, <2>1, GotoEffect
  <2>3. Fits(handler'[c]) /\ WaitStep(c)
    BY <1>0, <1>1, <2>2 DEF Fits, WaitStep, Waits, KeepsJob, StopLabels, Cleared
  <2>4. Moves(c)
    BY <2>1, <2>2, <2>3, GotoMoves, SameLinkNoFinals DEF Cleared
  <2> QED BY <1>0, <2>1, <2>2, <2>4, OneMoves, MapsStay, SameLinkNoFinals
<1>2. CASE queue = <<>> /\ handler[c].pc = "killSend"
  <2>1. GotoReply(c, Plain("killAccepted")) /\ UNCHANGED link
    BY <1>2 DEF SendTerminate, GotoReply
  <2> QED BY <1>0, <1>2, <2>1, ReplyMoves, OneMoves, MapsStay, SameLinkNoFinals, PlainFacts
          DEF FinalTypes
<1>3. CASE queue # <<>>
  <2>1. PICK type \in {"remoteStop", "daemonKill"} : link' = Sent(Head(queue), Plain(type))
    BY <1>3 DEF SendTerminate
  <2>2. \A d \in Conns : NoNewFinals(d)
    <3>1. Head(queue) \in Conns
      BY <1>0, <1>3
    <3> QED BY <2>1, <3>1, SentNoFinals, PlainFacts, ServerMessageKinds DEF FinalTypes, PlainTypes
  <2>3. /\ OnlyHandler(c) /\ KeepsJob(c) /\ handler'[c].pc = handler[c].pc
        /\ handler'[c].reply = handler[c].reply
    <3>1. handler' = [handler EXCEPT ![c].queue = Tail(queue)]
      BY <1>3 DEF SendTerminate
    <3> QED BY <1>0, <3>1 DEF OnlyHandler, KeepsJob, Handler
  <2>4. Fits(handler'[c]) /\ WaitStep(c)
    BY <1>0, <2>3 DEF Fits, WaitStep, Waits, KeepsJob, StopLabels, Cleared
  <2>5. Moves(c)
    BY <1>0, <2>2, <2>3, <2>4, GotoMoves DEF Cleared
  <2> QED BY <1>0, <2>2, <2>3, <2>5, OneMoves, MapsStay
<1> QED BY <1>0, <1>1, <1>2, <1>3

(* The routes are cleared. *)
LEMMA ClearLeavesNoRoute ==
    ASSUME registry' = EmptyRegistry
    PROVE  RouteSessions' = {} /\ RoutesStep
BY DEF RouteSessions, EmptyRegistry, RoutesStep

(* `kill` clears routes and takes its snapshot: it only takes sessions away. *)
LEMMA KillSessionStep ==
    ASSUME IInv, SessionInv, NEW c \in Conns, ReadKill(c) \/ KillClears(c) \/ KillSnapshots(c)
    PROVE  SessionStep
<1>0. /\ handler \in [Conns -> Handler] /\ link \in [Conns -> Link]
      /\ Fits(handler[c])
  BY DEF IInv, Typed, SystemTypeOK, TypeOK, SessionInv
<1>1. CASE ReadKill(c)
  <2>1. /\ OnlyLink(c) /\ handler[c].pc = "reading" /\ link'[c].outbox = link[c].outbox
        /\ UNCHANGED <<registry, owners, acks, issued>>
    BY <1>0, <1>1, ReceiveEffect DEF ReadKill
  <2>2. CASE Refuse(c)
    BY <2>1, <2>2, RefuseIsReply, ReplyMoves, OneMoves, MapsStay, SameLinkNoFinals, PlainFacts
       DEF FinalTypes
  <2>3. CASE Begin(c, "killClear", NoSession)
    <3>1. /\ OnlyHandler(c) /\ handler'[c].pc = "killClear" /\ handler'[c].target = NoSession
          /\ handler'[c].owned = handler[c].owned /\ handler'[c].reply = handler[c].reply
      BY <1>0, <2>3, BeginEffect
    <3>2. Fits(handler'[c]) /\ OwnedStep(c) /\ TargetStep(c) /\ WaitStep(c)
      BY <2>1, <3>1
         DEF Fits, OwnedStep, TargetStep, WaitStep, Waits, StopLabels, Cleared
    <3>3. Moves(c)
      BY <2>1, <3>1, <3>2, PlainMoves, SameLinkNoFinals DEF Cleared
    <3> QED BY <2>1, <3>1, <3>3, OneMoves, MapsStay, SameLinkNoFinals
  <2> QED BY <1>1, <2>2, <2>3 DEF ReadKill
<1>2. CASE KillClears(c)
  <2>1. /\ Goto(c, "killSnapshot") /\ handler[c].pc = "killClear" /\ registry' = EmptyRegistry
        /\ UNCHANGED <<owners, acks, issued, link>>
    BY <1>2 DEF KillClears, At
  <2>2. /\ OnlyHandler(c) /\ KeepsJob(c) /\ handler'[c].pc = "killSnapshot"
        /\ handler'[c].reply = handler[c].reply
    BY <1>0, <2>1, GotoEffect
  <2>3. Fits(handler'[c]) /\ WaitStep(c)
    BY <1>0, <2>1, <2>2 DEF Fits, WaitStep, Waits, KeepsJob, StopLabels, Cleared
  <2>4. Moves(c)
    BY <2>1, <2>2, <2>3, GotoMoves, SameLinkNoFinals DEF Cleared
  <2> QED BY <2>1, <2>2, <2>4, OneMoves, MapsStay, SameLinkNoFinals, ClearLeavesNoRoute
<1>3. CASE KillSnapshots(c)
  <2>1. PICK queue \in OwnerQueues :
            handler' = [handler EXCEPT ![c].pc = "killSend", ![c].queue = queue]
    BY <1>3 DEF KillSnapshots
  <2>2. handler[c].pc = "killSnapshot" /\ UNCHANGED <<registry, owners, acks, issued, link>>
    BY <1>3 DEF KillSnapshots, At, sharedVars
  <2>3. /\ OnlyHandler(c) /\ KeepsJob(c) /\ handler'[c].pc = "killSend"
        /\ handler'[c].reply = handler[c].reply
    BY <1>0, <2>1, QueueEffect
  <2>4. Fits(handler'[c]) /\ WaitStep(c)
    BY <1>0, <2>2, <2>3 DEF Fits, WaitStep, Waits, KeepsJob, StopLabels, Cleared
  <2>5. Moves(c)
    BY <2>2, <2>3, <2>4, GotoMoves, SameLinkNoFinals DEF Cleared
  <2> QED BY <2>2, <2>3, <2>5, OneMoves, MapsStay, SameLinkNoFinals
<1> QED BY <1>1, <1>2, <1>3

(* Answers and statistics. *)
LEMMA ReplySessionStep ==
    ASSUME IInv, SessionInv, NEW c \in Conns, SendReply(c) \/ StatsTick(c) \/ WriterFails(c)
    PROVE  SessionStep
<1>0. /\ handler \in [Conns -> Handler] /\ link \in [Conns -> Link] /\ handler[c] \in Handler
      /\ Fits(handler[c])
      /\ UNCHANGED <<registry, owners, acks, issued>>
  BY DEF IInv, Typed, SystemTypeOK, TypeOK, SessionInv, SendReply, StatsTick, WriterFails,
         sharedVars
<1>1. CASE SendReply(c)
  <2> DEFINE h == handler[c]
  <2>1. h.pc = "reply" /\ h.reply \in ServerMessage
    BY <1>0, <1>1 DEF SendReply, At, Handler
  <2> DEFINE Rested(label) ==
                 /\ OnlyHandler(c) /\ handler'[c].pc = label
                 /\ handler'[c].target = NoSession /\ handler'[c].reply = Plain("none")
                 /\ \/ handler'[c].owned = h.owned
                    \/ Clean(h) /\ handler'[c].owned = NoSession
  <2>2. ASSUME Rested("reading") \/ Rested("failed"), UNCHANGED link \/ link' = Sent(c, h.reply)
        PROVE  SessionStep
    <3>1. /\ Fits(handler'[c]) /\ OwnedStep(c) /\ TargetStep(c) /\ WaitStep(c)
          /\ RegisteringStep(c) /\ ClearedStep(c) /\ CleanStep(c)
      BY <2>1, <2>2
         DEF Fits, OwnedStep, TargetStep, WaitStep, Waits, StopLabels, Cleared, Clean,
             RegisteringStep, ClearedStep, CleanStep
    <3>2. OnlyLink(c) /\ Box(link'[c].outbox) \subseteq Box(link[c].outbox) \cup {h.reply}
      BY <1>0, <2>1, <2>2, SentEffect DEF OnlyLink
    <3>3. AnswerStep(c)
      BY <2>2, <3>2, PlainFacts DEF AnswerStep, Answers, FinalTypes
    <3>4. Moves(c)
      BY <3>1, <3>3 DEF Moves
    <3> QED BY <1>0, <2>2, <3>2, <3>4, OneMoves, MapsStay, SameLinkNoFinals
  <2>3. CASE ~link[c].writer
    <3>1. handler' = [handler EXCEPT ![c] = Rest("failed", h.owned)] /\ UNCHANGED link
      BY <1>1, <2>3 DEF SendReply
    <3>2. Rested("failed")
      BY <1>0, <3>1 DEF Rest, NoHandler, OnlyHandler
    <3> QED BY <2>2, <3>1, <3>2
  <2>4. CASE link[c].writer
    <3> DEFINE n == IF h.reply.type = "unregistered" THEN NoSession ELSE h.owned
    <3>1. handler' = [handler EXCEPT ![c] = Rest("reading", n)] /\ link' = Sent(c, h.reply)
      BY <1>1, <2>4 DEF SendReply
    <3>2. n = h.owned \/ (Clean(h) /\ n = NoSession)
      BY <2>1 DEF Clean
    <3> HIDE DEF n
    <3>3. Rested("reading")
      BY <1>0, <3>1, <3>2 DEF Rest, NoHandler, OnlyHandler
    <3> QED BY <2>2, <3>1, <3>3
  <2> QED BY <2>3, <2>4
<1>2. CASE StatsTick(c)
  <2>1. UNCHANGED handler /\ (UNCHANGED link \/ link' = Sent(c, Plain("stats")))
    BY <1>2 DEF StatsTick
  <2>2. \A d \in Conns : NoNewFinals(d)
    BY <2>1, SentNoFinals, SameLinkNoFinals, PlainFacts, ServerMessageKinds
       DEF FinalTypes, PlainTypes
  <2> QED BY <1>0, <2>1, <2>2, NobodyMoves
<1>3. CASE WriterFails(c)
  <2>1. UNCHANGED handler /\ OnlyLink(c) /\ link'[c].outbox = <<>>
    BY <1>0, <1>3 DEF WriterFails, OnlyLink, Link
  <2>2. \A d \in Conns : NoNewFinals(d)
    BY <2>1, SameLinkNoFinals, BoxFacts DEF NoNewFinals, Box
  <2> QED BY <1>0, <2>1, <2>2, NobodyMoves
<1> QED BY <1>1, <1>2, <1>3

(* The other tasks. *)
LEMMA TaskSessionStep ==
    ASSUME IInv, SessionInv,
           \/ IdleElapses \/ IdleStep \/ KillDelayEnds \/ AcceptEnds
           \/ CloudflaredExits \/ Cancelled
           \/ MainFindsExit \/ FatalSnapshots \/ SendFatal \/ FatalClears \/ MainLeavesLoop
           \/ MainStopsCloudflared
    PROVE  SessionStep
<1>0. handler \in [Conns -> Handler]
  BY DEF IInv, Typed, SystemTypeOK, TypeOK
<1>1. CASE AcceptEnds
  <2>1. UNCHANGED <<registry, owners, acks, issued, link>>
    BY <1>1 DEF AcceptEnds, sharedVars
  <2>2. ASSUME NEW d \in Conns PROVE Moves(d)
    <3>1. CASE handler'[d] = handler[d]
      BY <2>1, <3>1, BystanderMoves, SameLinkNoFinals
    <3>2. CASE handler[d].pc = "backlog" /\ handler'[d] = Rest("gone", NoSession)
      <4>1. /\ handler'[d].pc = "gone" /\ handler'[d].owned = NoSession
            /\ handler'[d].target = NoSession /\ handler'[d].reply = Plain("none")
            /\ handler[d].owned = NoSession
        BY <3>2 DEF Rest, NoHandler, SessionInv, Fits
      <4>2. Fits(handler'[d]) /\ OwnedStep(d) /\ TargetStep(d) /\ WaitStep(d)
        BY <3>2, <4>1 DEF Fits, OwnedStep, TargetStep, WaitStep, Waits, StopLabels, Cleared
      <4> QED BY <2>1, <4>1, <4>2, PlainMoves, PlainFacts, SameLinkNoFinals
              DEF Cleared, FinalTypes
    <3> QED BY <1>1, <3>1, <3>2 DEF AcceptEnds
  <2> QED BY <2>1, <2>2, MapsStay DEF SessionStep
<1>2. CASE SendFatal
  <2>1. CASE main.queue = <<>>
    BY <1>2, <2>1, NobodyMoves, SameLinkNoFinals DEF SendFatal, sharedVars
  <2>2. CASE main.queue # <<>>
    <3>1. Head(main.queue) \in Conns
      <4>1. main.queue \in Seq(Conns)
        BY DEF IInv, Typed, SystemTypeOK, TypeOK
      <4> QED BY <2>2, <4>1
    <3>2. link' = Sent(Head(main.queue), Plain("fatal"))
      BY <1>2, <2>2 DEF SendFatal
    <3>3. \A d \in Conns : NoNewFinals(d)
      BY <3>1, <3>2, SentNoFinals, PlainFacts, ServerMessageKinds DEF FinalTypes, PlainTypes
    <3> QED BY <1>2, <3>3, NobodyMoves DEF SendFatal, sharedVars
  <2> QED BY <2>1, <2>2
<1>3. CASE FatalClears
  <2>1. /\ registry' = EmptyRegistry
        /\ UNCHANGED <<handler, owners, acks, issued, link>>
    BY <1>3 DEF FatalClears
  <2> QED BY <2>1, BystanderMoves, SameLinkNoFinals, MapsStay, ClearLeavesNoRoute DEF SessionStep
<1>4. CASE UNCHANGED <<handler, registry, owners, acks, issued, link>>
  BY <1>4, NobodyMoves, SameLinkNoFinals
<1> QED BY <1>1, <1>2, <1>3, <1>4
        DEF IdleElapses, IdleStep, IdleExpires, IdleShutsDown, IdleCancelled, KillDelayEnds,
            CloudflaredExits, Cancelled, MainFindsExit, FatalSnapshots, MainLeavesLoop,
            MainStopsCloudflared, sharedVars

(* A process shortens its own outbox, or adds to its inbox. *)
LEMMA ClientLink ==
    ASSUME IInv, NEW c \in Conns, Connect(c) \/ ClientReads(c) \/ ClientOccurrence(c)
    PROVE  OnlyLink(c) /\ Box(link'[c].outbox) \subseteq Box(link[c].outbox)
<1> DEFINE box == link[c].outbox
<1>1. /\ link \in [Conns -> Link] /\ box \in Seq(ServerMessage)
  BY DEF IInv, Typed, SystemTypeOK, TypeOK, Link
<1>2. /\ box # <<>> => Box(Tail(box)) \subseteq Box(box)
      /\ Box(<<>>) \subseteq Box(box)
  BY <1>1, BoxFacts
<1>3. ASSUME NEW unread, NEW state, Exit(c, state, unread), Box(unread) \subseteq Box(box)
      PROVE  OnlyLink(c) /\ Box(link'[c].outbox) \subseteq Box(box)
  BY <1>1, <1>2, <1>3 DEF Exit, OnlyLink, Link
<1>4. ASSUME NEW unread, Unregister(c, unread), Box(unread) \subseteq Box(box)
      PROVE  OnlyLink(c) /\ Box(link'[c].outbox) \subseteq Box(box)
  <2>1. CASE ServerEndClosed(c)
    BY <1>3, <1>4, <2>1 DEF Unregister
  <2>2. CASE ~ServerEndClosed(c)
    BY <1>1, <1>4, <2>2 DEF Unregister, OnlyLink, Link
  <2> QED BY <2>1, <2>2
<1>5. CASE box # <<>> /\ Read(c)
  BY <1>1, <1>2, <1>5 DEF Read, OnlyLink, Link
<1>6. CASE Connect(c)
  BY <1>1, <1>6 DEF Connect, OnlyLink, Link
<1>7. CASE OwnerIsKilled(c)
  BY <1>1, <1>2, <1>7 DEF OwnerIsKilled, Incoming, OnlyLink, Link
<1>8. CASE \E state : box # <<>> /\ ReadAndExit(c, state)
  BY <1>2, <1>3, <1>8 DEF ReadAndExit
<1>9. CASE OwnerIsRegistered(c) \/ OwnerSkips(c)
  BY <1>5, <1>9 DEF OwnerIsRegistered, OwnerSkips, Incoming
<1>10. CASE OwnerIsStopped(c) \/ OwnerInterrupted(c)
  BY <1>2, <1>4, <1>10 DEF OwnerIsStopped, OwnerInterrupted, Incoming
<1>11. CASE OwnerIsNotRegistered(c) \/ OwnerFails(c) \/ OwnerLeaves(c) \/ RequestIsAnswered(c)
  BY <1>8, <1>11
     DEF OwnerIsNotRegistered, OwnerFails, OwnerLeaves, RequestIsAnswered, Incoming
<1>12. CASE ConnectionLost(c) \/ ClientCrashes(c)
  BY <1>2, <1>3, <1>12 DEF ConnectionLost, ClientCrashes
<1> QED BY <1>6, <1>7, <1>9, <1>10, <1>11, <1>12 DEF ClientReads, ClientOccurrence

(* What a client does takes messages out of channels and puts none into its own. *)
LEMMA ClientSessionStep ==
    ASSUME IInv, SessionInv, NEW c \in Conns,
           Connect(c) \/ ClientReads(c) \/ ClientOccurrence(c)
    PROVE  SessionStep
<1>0. handler \in [Conns -> Handler]
  BY DEF IInv, Typed, SystemTypeOK, TypeOK
<1>1. \A d \in Conns : NoNewFinals(d)
  BY ClientLink DEF NoNewFinals, OnlyLink
<1>2. UNCHANGED <<registry, owners, acks, issued>>
  BY DEF Connect, ClientReads, ClientOccurrence, sharedVars
<1>3. CASE Connect(c)
  <2>1. Goto(c, "backlog") /\ handler[c].pc \in Absent
    BY <1>3 DEF Connect, Goto, IInv, NewAreAbsent, Is
  <2>2. /\ OnlyHandler(c) /\ KeepsJob(c) /\ handler'[c].pc = "backlog"
        /\ handler'[c].reply = handler[c].reply
    BY <1>0, <2>1, GotoEffect
  <2>3. handler[c].owned = NoSession
    BY <2>1 DEF SessionInv, Fits, Absent
  <2>4. Fits(handler'[c]) /\ WaitStep(c)
    BY <2>1, <2>2, <2>3 DEF Fits, WaitStep, Waits, KeepsJob, StopLabels, Cleared, Absent
  <2>5. Moves(c)
    BY <1>1, <2>2, <2>4, GotoMoves DEF Cleared
  <2> QED BY <1>1, <1>2, <2>2, <2>5, OneMoves, MapsStay
<1>4. CASE ClientReads(c) \/ ClientOccurrence(c)
  BY <1>1, <1>2, <1>4, NobodyMoves DEF ClientReads, ClientOccurrence
<1> QED BY <1>3, <1>4

(* The process ends: nothing has a session any more, and the answers that are still on their way   *)
(* are about sessions whose routes are gone with all others.                                       *)
LEMMA ProcessEndsSessions ==
    ASSUME IInv, SessionInv, ProcessEnds
    PROVE  SessionInv'
<1>1. /\ \A d \in Conns : /\ handler'[d].pc = "gone" /\ handler'[d].owned = NoSession
                          /\ handler'[d].reply = Plain("none")
      /\ registry' = EmptyRegistry
      /\ \A n \in Sessions : owners'[n] = NoConn /\ acks'[n] = NoConn
      /\ UNCHANGED <<issued, link>>
  BY DEF ProcessEnds, Rest, NoHandler
<1>2. RouteSessions' = {}
  BY <1>1, ClearLeavesNoRoute
<1>3. \A d \in Conns : Fits(handler'[d]) /\ ~Clean(handler'[d])
  BY <1>1 DEF Fits, Clean, StopLabels, Cleared
<1>4. FinalAnswersAreIssued'
  BY <1>1, PlainFacts DEF SessionInv, FinalAnswersAreIssued, Answers, FinalTypes
<1>5. OwnedAreDistinct' /\ NewSessionsAreFresh' /\ ClearedHaveNoRoute'
  BY <1>1 DEF OwnedAreDistinct, NewSessionsAreFresh, ClearedHaveNoRoute, Cleared
<1>6. CleanHaveNoOwner' /\ AcksHaveWaiters' /\ OwnersAreServed'
  BY <1>1, <1>3 DEF CleanHaveNoOwner, AcksHaveWaiters, OwnersAreServed
<1>7. AnswersAreTrue'
  BY <1>2, HasRouteIs DEF AnswersAreTrue
<1> QED BY <1>3, <1>4, <1>5, <1>6, <1>7 DEF SessionInv

(* A fresh daemon has stored nothing for any session. *)
LEMMA SessionInvInit == Init => SessionInv
<1> SUFFICES ASSUME Init PROVE SessionInv
  OBVIOUS
<1>1. /\ \A d \in Conns : /\ handler[d].pc = "absent" /\ handler[d].owned = NoSession
                          /\ handler[d].reply = Plain("none") /\ link[d].outbox = <<>>
      /\ registry = EmptyRegistry
      /\ \A n \in Sessions : owners[n] = NoConn /\ acks[n] = NoConn
  BY DEF Init, DaemonInit, NoHandler, NoLink
<1>2. \A d \in Conns : Fits(handler[d]) /\ ~Clean(handler[d])
  BY <1>1 DEF Fits, Clean, StopLabels, Cleared
<1>3. ASSUME NEW d \in Conns, NEW m \in Answers(d) PROVE m.type \notin FinalTypes
  BY <1>1, PlainFacts DEF Answers, Box, FinalTypes
<1>4. OwnedAreDistinct /\ NewSessionsAreFresh /\ ClearedHaveNoRoute /\ FinalAnswersAreIssued
  BY <1>1, <1>3
     DEF OwnedAreDistinct, NewSessionsAreFresh, ClearedHaveNoRoute, FinalAnswersAreIssued, Cleared
<1>5. CleanHaveNoOwner /\ AcksHaveWaiters /\ OwnersAreServed
  BY <1>1, <1>2 DEF CleanHaveNoOwner, AcksHaveWaiters, OwnersAreServed
<1>6. AnswersAreTrue
  BY <1>3 DEF AnswersAreTrue, Answers, Box, FinalTypes
<1> QED BY <1>2, <1>4, <1>5, <1>6 DEF SessionInv

(* Every step of the system is a session step or the end of the daemon's process. *)
LEMMA SessionSteps ==
    ASSUME IInv, SessionInv, [Next]_vars
    PROVE  ProcessEnds \/ SessionStep
<1>1. CASE DaemonNext
  <2>1. ASSUME NEW c \in Conns, HandlerStep(c) \/ StatsTick(c) \/ WriterFails(c) \/ ReadError(c)
        PROVE  SessionStep
    BY <2>1, RegisterSessionStep, ReadSessionStep, RemoveSessionStep, StopSessionStep,
       TerminateSessionStep, KillSessionStep, ReplySessionStep DEF HandlerStep
  <2>2. CASE \/ IdleElapses \/ IdleStep \/ KillDelayEnds \/ AcceptEnds
             \/ CloudflaredExits \/ Cancelled \/ MainStep \/ DaemonCrashes
    BY <2>2, TaskSessionStep DEF MainStep, MainExits, DaemonCrashes
  <2> QED BY <1>1, <2>1, <2>2 DEF DaemonNext, Occurrence
<1>2. CASE \E c \in Conns : Connect(c) \/ ClientReads(c) \/ ClientOccurrence(c)
  BY <1>2, ClientSessionStep
<1>3. CASE UNCHANGED vars
  BY <1>3, NobodyMoves, SameLinkNoFinals DEF vars, daemonVars, sharedVars
<1> QED BY <1>1, <1>2, <1>3 DEF Next

(* The invariant is inductive, given the one of the refinement. *)
LEMMA SessionInvNext == IInv /\ SessionInv /\ [Next]_vars => SessionInv'
BY SessionSteps, SessionStepKeeps, ProcessEndsSessions, IInvNext

(* The invariant holds in every behaviour. *)
LEMMA SessionInvariant == Safety => []SessionInv
BY SessionInvInit, SessionInvNext, IInvInvariant, PTL DEF Safety

(* In every behaviour a Notify that is stored is that of a `stop` of the session which has not yet *)
(* been answered and would still take the wake-up: neither a timeout, nor a second `stop` of the   *)
(* same session, nor an owner that leaves on its own leaves an entry behind (mod.rs:77-79,         *)
(* 395-416).                                                                                       *)
THEOREM NotifiesHaveWaiters == Safety => []AcksHaveWaiters
BY SessionInvariant, PTL DEF SessionInv

(* In every behaviour a channel stored in owners belongs to the handler that owns the session,     *)
(* although a `stop` may remove the entry before the registration it overtook has stored it        *)
(* (mod.rs:297-302, 76).                                                                           *)
THEOREM StoredOwnersServe == Safety => []OwnersAreServed
BY SessionInvariant, PTL DEF SessionInv

(* In every behaviour Stopped and Unregistered are sent, and arrive, only when the session has no  *)
(* route and never will have one again, however many `stop` commands, timeouts, owners and clears  *)
(* remove it at the same time (mod.rs:323-335, 409-422).                                           *)
THEOREM FinalAnswersAreTrue == Safety => []AnswersAreTrue
BY SessionInvariant, PTL DEF SessionInv
==============================================================================
