------------------------------ MODULE Forwards ------------------------------
(***************************************************************************)
(* What `fw` promises about forwards, with no daemon, task or message in   *)
(* sight.  A forward is a slug, a local port and the session that owns it. *)
(* No two active forwards share a slug or a port.  A session is issued     *)
(* once and owns at most one forward in its life, so a forward that ended  *)
(* never comes back under the same session.                                *)
(*                                                                         *)
(* FwSystem.tla is shown to implement this module.                         *)
(***************************************************************************)
EXTENDS Naturals

CONSTANTS Ports, Slugs

VARIABLES
    forwards,  \* the active forwards
    issued,    \* how many sessions were issued; they are numbered from 1
    waiting    \* sessions issued and not yet given a forward or refused

Forward == [slug : Slugs, port : Ports, session : Nat]

Init ==
    /\ forwards = {}
    /\ issued = 0
    /\ waiting = {}

Issue ==
    /\ issued' = issued + 1
    /\ waiting' = waiting \cup {issued'}
    /\ UNCHANGED forwards

(* The forward a session waited for starts; its slug and its port were free. *)
Start(session, slug, port) ==
    /\ session \in waiting
    /\ \A f \in forwards : f.slug # slug /\ f.port # port
    /\ forwards' = forwards \cup {[slug |-> slug, port |-> port, session |-> session]}
    /\ waiting' = waiting \ {session}
    /\ UNCHANGED issued

Refuse(session) ==
    /\ waiting' = waiting \ {session}
    /\ UNCHANGED <<forwards, issued>>

(* What a session owns ends together. *)
End(session) ==
    /\ forwards' = {f \in forwards : f.session # session}
    /\ UNCHANGED <<issued, waiting>>

EndAll ==
    /\ forwards' = {}
    /\ UNCHANGED <<issued, waiting>>

(* The program is gone, and with it every forward and every request. *)
Exit ==
    /\ forwards' = {}
    /\ waiting' = {}
    /\ UNCHANGED issued

Next ==
    \/ Issue
    \/ \E session \in waiting :
          \/ \E slug \in Slugs, port \in Ports : Start(session, slug, port)
          \/ Refuse(session)
    \/ \E session \in 1..issued : End(session)
    \/ EndAll
    \/ Exit

Spec == Init /\ [][Next]_<<forwards, issued, waiting>>
=============================================================================
