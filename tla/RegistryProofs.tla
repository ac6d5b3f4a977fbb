---------------------------- MODULE RegistryProofs ----------------------------
(***************************************************************************)
(* What the registry's operations return and preserve, for every set of    *)
(* ports and slugs and every number of sessions.                           *)
(***************************************************************************)
EXTENDS RouteRegistry, TLAPS

(* RouteRegistry::new() (and so clear()) gives three empty maps, which agree (registry.rs). *)
LEMMA EmptyRegistryConsistent ==
    EmptyRegistry \in Registry /\ Consistent(EmptyRegistry)
<1>1. EmptyRegistry \in Registry
  BY DEF EmptyRegistry, Registry
<1>2. Consistent(EmptyRegistry)
  BY DEF EmptyRegistry, Consistent, SlugIndexAgrees, PortIndexAgrees, SessionIndexAgrees
<1> QED BY <1>1, <1>2

(* A slug register_with_rng settles on is valid and was free, and so was the port. *)
LEMMA SlugChoicesAreFree ==
    ASSUME NEW reg, NEW port \in Ports, NEW wanted \in Slugs \cup {NoSlug},
           NEW slug \in SlugChoices(reg, port, wanted)
    PROVE  slug \in Slugs /\ reg.bySlug[slug] = NoRoute /\ reg.slugByPort[port] = NoSlug
BY GeneratedAssumption DEF SlugChoices

(* The route a stop resolves its selector to, by slug or by port, names an issued session. *)
LEMMA ResolveType ==
    ASSUME NEW reg \in Registry, NEW selector \in Selectors
    PROVE  Resolve(reg, selector) \in Route \cup {NoRoute}
BY SelectorAssumption DEF Resolve, RouteForPort, Registry, Selectors

(* The three inserts of register_with_rng keep the maps well typed. *)
LEMMA AddRouteType ==
    ASSUME NEW reg \in Registry, NEW route \in Route
    PROVE  AddRoute(reg, route) \in Registry
<1>1. route.slug \in Slugs /\ route.port \in Ports /\ route.session \in Sessions
  BY DEF Route
<1>2. [reg.bySlug EXCEPT ![route.slug] = route] \in [Slugs -> Route \cup {NoRoute}]
  BY <1>1 DEF Registry
<1>3. [reg.slugByPort EXCEPT ![route.port] = route.slug] \in [Ports -> Slugs \cup {NoSlug}]
  BY <1>1 DEF Registry
<1>4. [reg.slugsBySession EXCEPT ![route.session] = @ \cup {route.slug}]
        \in [Sessions -> SUBSET Slugs]
  BY <1>1 DEF Registry
<1> QED BY <1>2, <1>3, <1>4 DEF AddRoute, Registry

(* ... and, when the slug and the port were free, they keep the indexes in agreement. *)
LEMMA AddRouteConsistent ==
    ASSUME NEW reg \in Registry, NEW route \in Route, Consistent(reg),
           reg.bySlug[route.slug] = NoRoute, reg.slugByPort[route.port] = NoSlug
    PROVE  Consistent(AddRoute(reg, route))
<1> DEFINE new == AddRoute(reg, route)
<1>1. /\ route.slug \in Slugs /\ route.port \in Ports /\ route.session \in Sessions
      /\ route # NoRoute /\ route.slug # NoSlug
  BY SentinelAssumption DEF Route
<1>2. /\ \A s \in Slugs : new.bySlug[s] = IF s = route.slug THEN route ELSE reg.bySlug[s]
      /\ \A p \in Ports : new.slugByPort[p] = IF p = route.port THEN route.slug
                                                                ELSE reg.slugByPort[p]
      /\ \A n \in Sessions : new.slugsBySession[n] =
            IF n = route.session THEN reg.slugsBySession[n] \cup {route.slug}
                                 ELSE reg.slugsBySession[n]
  BY <1>1 DEF AddRoute, Registry
<1>3. /\ \A s \in Slugs : reg.bySlug[s] # NoRoute => reg.bySlug[s] \in Route
      /\ \A p \in Ports : reg.slugByPort[p] # NoSlug => reg.slugByPort[p] \in Slugs
      /\ \A n \in Sessions : reg.slugsBySession[n] \subseteq Slugs
  BY DEF Registry
<1> HIDE DEF new
<1>4. SlugIndexAgrees(new)
  <2> SUFFICES ASSUME NEW s \in Slugs, new.bySlug[s] # NoRoute
               PROVE  /\ new.bySlug[s].slug = s
                      /\ new.slugByPort[new.bySlug[s].port] = s
                      /\ s \in new.slugsBySession[new.bySlug[s].session]
    BY DEF SlugIndexAgrees
  <2>1. CASE s = route.slug
    BY <2>1, <1>1, <1>2
  <2>2. CASE s # route.slug
    <3>1. /\ new.bySlug[s] = reg.bySlug[s]
          /\ reg.bySlug[s].port \in Ports /\ reg.bySlug[s].session \in Sessions
      BY <2>2, <1>2, <1>3 DEF Route
    <3>2. /\ reg.bySlug[s].slug = s
          /\ reg.slugByPort[reg.bySlug[s].port] = s
          /\ s \in reg.slugsBySession[reg.bySlug[s].session]
      BY <3>1 DEF Consistent, SlugIndexAgrees
    <3>3. reg.bySlug[s].port # route.port
      BY <3>2, SentinelAssumption
    <3> QED BY <3>1, <3>2, <3>3, <1>2
  <2> QED BY <2>1, <2>2
<1>5. PortIndexAgrees(new)
  <2> SUFFICES ASSUME NEW p \in Ports, new.slugByPort[p] # NoSlug
               PROVE  /\ new.bySlug[new.slugByPort[p]] # NoRoute
                      /\ new.bySlug[new.slugByPort[p]].port = p
    BY DEF PortIndexAgrees
  <2>1. CASE p = route.port
    BY <2>1, <1>1, <1>2
  <2>2. CASE p # route.port
    BY <2>2, <1>1, <1>2, <1>3 DEF Consistent, PortIndexAgrees
  <2> QED BY <2>1, <2>2
<1>6. SessionIndexAgrees(new)
  <2> SUFFICES ASSUME NEW n \in Sessions, NEW s \in new.slugsBySession[n]
               PROVE  new.bySlug[s] # NoRoute /\ new.bySlug[s].session = n
    BY DEF SessionIndexAgrees
  <2>1. CASE s \in reg.slugsBySession[n]
    BY <2>1, <1>2, <1>3 DEF Consistent, SessionIndexAgrees
  <2>2. CASE s \notin reg.slugsBySession[n]
    <3>1. new.slugsBySession[n] # reg.slugsBySession[n]
      BY <2>2
    <3>2. n = route.session /\ new.slugsBySession[n] = reg.slugsBySession[n] \cup {route.slug}
      BY <3>1, <1>2
    <3>3. s = route.slug
      BY <3>2, <2>2
    <3> QED BY <3>2, <3>3, <1>1, <1>2
  <2> QED BY <2>1, <2>2
<1> QED BY <1>4, <1>5, <1>6 DEF Consistent, new

(* remove_session keeps the maps well typed, whatever the session. *)
LEMMA RemoveSessionType ==
    ASSUME NEW reg \in Registry, NEW session \in Sessions
    PROVE  RemoveSession(reg, session) \in Registry
<1>1. [s \in Slugs |-> IF s \in reg.slugsBySession[session] THEN NoRoute ELSE reg.bySlug[s]]
        \in [Slugs -> Route \cup {NoRoute}]
  BY DEF Registry
<1>2. [p \in Ports |-> IF p \in PortsOf(reg, session) THEN NoSlug ELSE reg.slugByPort[p]]
        \in [Ports -> Slugs \cup {NoSlug}]
  BY DEF Registry
<1>3. [reg.slugsBySession EXCEPT ![session] = {}] \in [Sessions -> SUBSET Slugs]
  BY DEF Registry
<1> QED BY <1>1, <1>2, <1>3 DEF RemoveSession, Registry

(* remove_session drops the port entries of the routes it removes without looking who is in them.  *)
(* Because the port index named each of those slugs, no surviving route loses its entry, and none  *)
(* of the removed ones keeps it.                                                                   *)
LEMMA RemoveSessionConsistent ==
    ASSUME NEW reg \in Registry, NEW session \in Sessions, Consistent(reg)
    PROVE  Consistent(RemoveSession(reg, session))
<1> DEFINE new == RemoveSession(reg, session)
           mine == reg.slugsBySession[session]
<1>1. /\ \A s \in Slugs : new.bySlug[s] = IF s \in mine THEN NoRoute ELSE reg.bySlug[s]
      /\ \A p \in Ports : new.slugByPort[p] = IF p \in PortsOf(reg, session) THEN NoSlug
                                              ELSE reg.slugByPort[p]
      /\ \A n \in Sessions : new.slugsBySession[n] =
            IF n = session THEN {} ELSE reg.slugsBySession[n]
  BY DEF RemoveSession, Registry
<1>2. /\ \A s \in Slugs : reg.bySlug[s] # NoRoute => reg.bySlug[s] \in Route
      /\ \A p \in Ports : reg.slugByPort[p] # NoSlug => reg.slugByPort[p] \in Slugs
      /\ \A n \in Sessions : reg.slugsBySession[n] \subseteq Slugs
  BY DEF Registry
<1>3. \A p \in PortsOf(reg, session) : reg.slugByPort[p] \in mine
  <2> SUFFICES ASSUME NEW p \in PortsOf(reg, session) PROVE reg.slugByPort[p] \in mine
    OBVIOUS
  <2>1. PICK s \in mine : reg.bySlug[s] # NoRoute /\ reg.bySlug[s].port = p
    BY DEF PortsOf
  <2>2. s \in Slugs
    BY <1>2
  <2>3. reg.slugByPort[p] = s
    BY <2>1, <2>2 DEF Consistent, SlugIndexAgrees
  <2> QED BY <2>1, <2>3
<1> HIDE DEF new, mine
<1>4. SlugIndexAgrees(new)
  <2> SUFFICES ASSUME NEW s \in Slugs, new.bySlug[s] # NoRoute
               PROVE  /\ new.bySlug[s].slug = s
                      /\ new.slugByPort[new.bySlug[s].port] = s
                      /\ s \in new.slugsBySession[new.bySlug[s].session]
    BY DEF SlugIndexAgrees
  <2>1. /\ s \notin mine /\ new.bySlug[s] = reg.bySlug[s]
        /\ reg.bySlug[s].port \in Ports /\ reg.bySlug[s].session \in Sessions
    BY <1>1, <1>2 DEF Route
  <2>2. /\ reg.bySlug[s].slug = s
        /\ reg.slugByPort[reg.bySlug[s].port] = s
        /\ s \in reg.slugsBySession[reg.bySlug[s].session]
    BY <2>1 DEF Consistent, SlugIndexAgrees
  <2>3. reg.bySlug[s].port \notin PortsOf(reg, session)
    BY <2>1, <2>2, <1>3
  <2>4. reg.bySlug[s].session # session
    BY <2>1, <2>2 DEF mine
  <2> QED BY <2>1, <2>2, <2>3, <2>4, <1>1
<1>5. PortIndexAgrees(new)
  <2> SUFFICES ASSUME NEW p \in Ports, new.slugByPort[p] # NoSlug
               PROVE  /\ new.bySlug[new.slugByPort[p]] # NoRoute
                      /\ new.bySlug[new.slugByPort[p]].port = p
    BY DEF PortIndexAgrees
  <2> DEFINE s == reg.slugByPort[p]
  <2>1. new.slugByPort[p] = s /\ s # NoSlug /\ s \in Slugs /\ p \notin PortsOf(reg, session)
    BY <1>1, <1>2
  <2>2. reg.bySlug[s] # NoRoute /\ reg.bySlug[s].port = p
    BY <2>1 DEF Consistent, PortIndexAgrees
  <2>3. s \notin mine
    BY <2>1, <2>2 DEF PortsOf, mine
  <2> QED BY <2>1, <2>2, <2>3, <1>1
<1>6. SessionIndexAgrees(new)
  <2> SUFFICES ASSUME NEW n \in Sessions, NEW s \in new.slugsBySession[n]
               PROVE  new.bySlug[s] # NoRoute /\ new.bySlug[s].session = n
    BY DEF SessionIndexAgrees
  <2>1. n # session /\ s \in reg.slugsBySession[n] /\ s \in Slugs
    BY <1>1, <1>2
  <2>2. reg.bySlug[s] # NoRoute /\ reg.bySlug[s].session = n
    BY <2>1 DEF Consistent, SessionIndexAgrees
  <2>3. s \notin mine
    BY <2>1, <2>2 DEF Consistent, SessionIndexAgrees, mine
  <2> QED BY <2>1, <2>2, <2>3, <1>1
<1> QED BY <1>4, <1>5, <1>6 DEF Consistent, new

(* The routes after each operation of the registry. *)
LEMMA RoutesAfterAdd ==
    ASSUME NEW reg \in Registry, NEW route \in Route, reg.bySlug[route.slug] = NoRoute
    PROVE  Routes(AddRoute(reg, route)) = Routes(reg) \cup {route}
<1> DEFINE new == AddRoute(reg, route)
<1>1. route.slug \in Slugs /\ route # NoRoute
  BY SentinelAssumption DEF Route
<1>2. \A s \in Slugs : new.bySlug[s] = IF s = route.slug THEN route ELSE reg.bySlug[s]
  BY DEF AddRoute, Registry
<1> HIDE DEF new
<1>3. Routes(new) = Routes(reg) \cup {route}
  <2>1. ASSUME NEW r \in Routes(new) PROVE r \in Routes(reg) \cup {route}
    BY <1>2 DEF Routes
  <2>2. route \in Routes(new)
    BY <1>1, <1>2 DEF Routes
  <2>3. ASSUME NEW r \in Routes(reg) PROVE r \in Routes(new)
    BY <1>2 DEF Routes
  <2> QED BY <2>1, <2>2, <2>3
<1> QED BY <1>3 DEF new

(* remove_session takes away the routes of its session and no others. *)
LEMMA RoutesAfterRemove ==
    ASSUME NEW reg \in Registry, NEW session \in Sessions, Consistent(reg)
    PROVE  Routes(RemoveSession(reg, session)) = {r \in Routes(reg) : r.session # session}
<1> DEFINE new == RemoveSession(reg, session)
<1>1. \A s \in Slugs : new.bySlug[s] = IF s \in reg.slugsBySession[session] THEN NoRoute
                                       ELSE reg.bySlug[s]
  BY DEF RemoveSession
<1>2. \A s \in Slugs : reg.bySlug[s] # NoRoute =>
          (s \in reg.slugsBySession[session] <=> reg.bySlug[s].session = session)
  BY DEF Consistent, SlugIndexAgrees, SessionIndexAgrees
<1> HIDE DEF new
<1>3. Routes(new) = {r \in Routes(reg) : r.session # session}
  <2>1. ASSUME NEW r \in Routes(new) PROVE r \in Routes(reg) /\ r.session # session
    BY <1>1, <1>2 DEF Routes
  <2>2. ASSUME NEW r \in Routes(reg), r.session # session PROVE r \in Routes(new)
    BY <2>2, <1>1, <1>2 DEF Routes
  <2> QED BY <2>1, <2>2
<1> QED BY <1>3 DEF new
==============================================================================
