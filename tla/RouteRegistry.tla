---------------------------- MODULE RouteRegistry ----------------------------
(***************************************************************************)
(* The value the daemon's registry lock protects (src/src/registry.rs):    *)
(* three hash maps that index the same routes by slug, by local port and   *)
(* by owning session, and the operations RouteRegistry has on them.  Each  *)
(* operation runs under the lock, so it is a function from one value to    *)
(* the next; Daemon.tla says when each runs.                               *)
(*                                                                         *)
(* A map is a total function with a sentinel for "no entry": NoRoute,      *)
(* NoSlug, and the empty set for a session without an entry (the code      *)
(* never keeps an empty set in slugs_by_session).                          *)
(***************************************************************************)
EXTENDS Naturals

CONSTANTS
    Ports,           \* the local ports users ask for; never 0, cli.rs parse_port refuses it
    Slugs,           \* valid slugs, already normalised by slug.rs
    GeneratedSlugs,  \* the slugs generate_unique_slug can come up with
    MaxSession,      \* bound: sessions the daemon may issue in one run of the model
    NoRoute, NoSlug  \* "no entry" in by_slug and in slug_by_port

Sessions == 1..MaxSession
NoSession == 0

Route == [slug : Slugs, port : Ports, session : Sessions]

(* A selector is a slug or a port; slug.rs refuses all-numeric slugs, so no value is both. *)
ASSUME SelectorAssumption == Ports \cap Slugs = {}
ASSUME SentinelAssumption == NoRoute \notin Route /\ NoSlug \notin Slugs
ASSUME GeneratedAssumption == GeneratedSlugs \subseteq Slugs
ASSUME MaxSessionAssumption == MaxSession \in Nat

Selectors == Slugs \cup Ports

Registry ==
    [bySlug         : [Slugs -> Route \cup {NoRoute}],
     slugByPort     : [Ports -> Slugs \cup {NoSlug}],
     slugsBySession : [Sessions -> SUBSET Slugs]]

EmptyRegistry ==
    [bySlug         |-> [s \in Slugs |-> NoRoute],
     slugByPort     |-> [p \in Ports |-> NoSlug],
     slugsBySession |-> [n \in Sessions |-> {}]]

IsEmpty(reg) == \A s \in Slugs : reg.bySlug[s] = NoRoute

(* route_for_slug, route_for_port and resolve: NoRoute when nothing matches.  The port index only *)
(* names a slug, so a port is resolved through by_slug.                                           *)
RouteForPort(reg, port) ==
    IF reg.slugByPort[port] = NoSlug THEN NoRoute ELSE reg.bySlug[reg.slugByPort[port]]

Resolve(reg, selector) ==
    IF selector \in Slugs THEN reg.bySlug[selector] ELSE RouteForPort(reg, selector)

------------------------------------------------------------------------------
(* register_with_rng. *)

(* Mutant: by_slug.contains_key forgotten for a requested slug. *)
SlugChoicesUnchecked(reg, port, wanted) ==
    IF reg.slugByPort[port] # NoSlug THEN {}
    ELSE IF wanted = NoSlug THEN {s \in GeneratedSlugs : reg.bySlug[s] = NoRoute} ELSE {wanted}

(* The slugs a request may be given, none when it is refused: the port must be free; a requested   *)
(* slug (wanted) must be free; otherwise any free generated slug, and none if they are used up.    *)
SlugChoices(reg, port, wanted) ==
    IF reg.slugByPort[port] # NoSlug THEN {}
    ELSE {s \in (IF wanted = NoSlug THEN GeneratedSlugs ELSE {wanted}) : reg.bySlug[s] = NoRoute}

(* The three inserts that add a route whose slug and port were found free. *)
AddRoute(reg, route) ==
    [bySlug         |-> [reg.bySlug EXCEPT ![route.slug] = route],
     slugByPort     |-> [reg.slugByPort EXCEPT ![route.port] = route.slug],
     slugsBySession |-> [reg.slugsBySession EXCEPT ![route.session] = @ \cup {route.slug}]]

------------------------------------------------------------------------------
(* remove_session. *)

(* Mutant: slug_by_port.remove forgotten. *)
RemoveSessionKeepingPorts(reg, session) ==
    [bySlug         |-> [s \in Slugs |-> IF s \in reg.slugsBySession[session]
                                         THEN NoRoute ELSE reg.bySlug[s]],
     slugByPort     |-> reg.slugByPort,
     slugsBySession |-> [reg.slugsBySession EXCEPT ![session] = {}]]

(* The ports whose entry remove_session drops: those of the routes it takes out of by_slug. *)
PortsOf(reg, session) ==
    {p \in Ports : \E s \in reg.slugsBySession[session] :
                       reg.bySlug[s] # NoRoute /\ reg.bySlug[s].port = p}

RemoveSession(reg, session) ==
    [bySlug         |-> [s \in Slugs |-> IF s \in reg.slugsBySession[session]
                                         THEN NoRoute ELSE reg.bySlug[s]],
     slugByPort     |-> [p \in Ports |-> IF p \in PortsOf(reg, session)
                                         THEN NoSlug ELSE reg.slugByPort[p]],
     slugsBySession |-> [reg.slugsBySession EXCEPT ![session] = {}]]

------------------------------------------------------------------------------
(* The three indexes agree.  registry.rs updates them by hand in three places, and a disagreement *)
(* shows as a port that can never be forwarded again or a route nobody can stop.                  *)

SlugIndexAgrees(reg) ==
    \A s \in Slugs : reg.bySlug[s] # NoRoute =>
        /\ reg.bySlug[s].slug = s
        /\ reg.slugByPort[reg.bySlug[s].port] = s
        /\ s \in reg.slugsBySession[reg.bySlug[s].session]

PortIndexAgrees(reg) ==
    \A p \in Ports : reg.slugByPort[p] # NoSlug =>
        /\ reg.bySlug[reg.slugByPort[p]] # NoRoute
        /\ reg.bySlug[reg.slugByPort[p]].port = p

SessionIndexAgrees(reg) ==
    \A n \in Sessions : \A s \in reg.slugsBySession[n] :
        /\ reg.bySlug[s] # NoRoute
        /\ reg.bySlug[s].session = n

Consistent(reg) ==
    /\ SlugIndexAgrees(reg)
    /\ PortIndexAgrees(reg)
    /\ SessionIndexAgrees(reg)

(* The routes as a set: what Forwards.tla calls forwards. *)
Routes(reg) == {reg.bySlug[s] : s \in {t \in Slugs : reg.bySlug[t] # NoRoute}}
==============================================================================
