------------------------------- MODULE Traffic -------------------------------
(***************************************************************************)
(* The requests the proxy forwards (proxy/mod.rs, proxy/upgrade.rs), the   *)
(* bytes it counts for each route (metrics.rs) and the statistics tasks    *)
(* that show them (daemon/mod.rs spawn_stats), while owners come and go    *)
(* in the registry.  A session stands for its route's RouteMetrics, which  *)
(* live as long as anybody has a clone of the route.                       *)
(***************************************************************************)
EXTENDS RouteRegistry, FiniteSets, FiniteSetsExt, Functions

CONSTANTS
    Requests,     \* requests that are in progress at the same time
    MaxCount,     \* u64::MAX
    MaxCarried    \* bound: frames of body data carried, each counts 1

ASSUME CountAssumption == MaxCount \in Nat

Direction == {"up", "down"}

VARIABLES
    forwards,    \* the registry
    sessions,    \* sessions issued so far
    proxying,    \* the proxy's accept loop runs
    requests,    \* [at, slug, upgrade, target, metrics, answer]
    counters,    \* the two atomics of each session's RouteMetrics
    samplers,    \* [at: "none", "running" or "ended", from: its first totals, sum: of the deltas, totals]
    carried,     \* what the proxy has taken in for ("up") and from ("down") the service on each port
    ended        \* the routes of sessions that are gone

trafficVars == <<forwards, sessions, proxying, requests, counters, samplers, carried, ended>>

NoTarget == "none"
ASSUME TargetAssumption == NoTarget \notin Ports

Unrouted == [at |-> "idle", slug |-> NoSlug, upgrade |-> FALSE, target |-> NoTarget,
             metrics |-> NoSession, answer |-> "none"]
Answer == {"none", "400", "404", "500", "502", "504", "upstream", "switching", "dropped"}
Counts == [Direction -> 0..MaxCount]
ZeroCount == [direction \in Direction |-> 0]

TrafficTypeOK ==
    /\ forwards \in Registry /\ sessions \in 0..MaxSession /\ proxying \in BOOLEAN
    /\ requests \in [Requests ->
          [at : {"idle", "routing", "waiting", "body", "bridge", "over"}, slug : Slugs \cup {NoSlug},
           upgrade : BOOLEAN, target : Ports \cup {NoTarget}, metrics : 0..MaxSession,
           answer : Answer]]
    /\ counters \in [Sessions -> Counts]
    /\ samplers \in [Sessions -> [at : {"none", "running", "ended"},
                                  from : Counts, sum : Counts, totals : Counts]]
    /\ carried \in [Ports -> [Direction -> Nat]]
    /\ ended \subseteq Route

TrafficInit ==
    /\ forwards = EmptyRegistry /\ sessions = 0 /\ proxying = TRUE
    /\ requests = [r \in Requests |-> Unrouted]
    /\ counters = [n \in Sessions |-> ZeroCount]
    /\ samplers = [n \in Sessions |-> [at |-> "none", from |-> ZeroCount, sum |-> ZeroCount,
                                       totals |-> ZeroCount]]
    /\ carried = [p \in Ports |-> ZeroCount]
    /\ ended = {}

Issued == Routes(forwards) \cup ended

------------------------------------------------------------------------------
(* The daemon's sessions; see Daemon.tla. *)

OwnerRegisters ==
    /\ sessions < MaxSession
    /\ \E port \in Ports, wanted \in Slugs \cup {NoSlug} : \E slug \in SlugChoices(forwards, port, wanted) :
          forwards' = AddRoute(forwards, [slug |-> slug, port |-> port, session |-> sessions + 1])
    /\ sessions' = sessions + 1
    /\ UNCHANGED <<proxying, requests, counters, samplers, carried, ended>>

OwnerLeaves ==
    /\ \E n \in Sessions :
          /\ forwards.slugsBySession[n] # {}
          /\ forwards' = RemoveSession(forwards, n)
          /\ ended' = ended \cup {route \in Routes(forwards) : route.session = n}
    /\ UNCHANGED <<sessions, proxying, requests, counters, samplers, carried>>

------------------------------------------------------------------------------
(* Proxy::forward. *)

Step(r, request) == requests' = [requests EXCEPT ![r] = request]
Answers(r, answer) == Step(r, [requests[r] EXCEPT !.at = "over", !.answer = answer])
OnlyRequests == UNCHANGED <<forwards, sessions, proxying, samplers, ended>>

(* extract_public_host: no slug under the base domain, an answer at once. *)
Arrive(r) ==
    /\ requests[r].at = "idle" /\ proxying
    /\ \/ \E slug \in Slugs, upgrade \in BOOLEAN :
             Step(r, [Unrouted EXCEPT !.at = "routing", !.slug = slug, !.upgrade = upgrade])
       \/ Answers(r, "400")
    /\ OnlyRequests /\ UNCHANGED <<counters, carried>>

(* RegistryLookup: the target and the metrics of a route under one read lock. *)
LookUp(slug) ==
    IF forwards.bySlug[slug] = NoRoute THEN [target |-> NoTarget, metrics |-> NoSession]
    ELSE [target |-> forwards.bySlug[slug].port, metrics |-> forwards.bySlug[slug].session]

(* Mutant: the metrics are looked up apart from the target. *)
RouteRequestTwice(r) ==
    /\ requests[r].at = "routing"
    /\ LET found == LookUp(requests[r].slug)
       IN  IF found.target = NoTarget THEN Answers(r, "404")
           ELSE Step(r, IF requests[r].target = NoTarget
                        THEN [requests[r] EXCEPT !.target = found.target,
                                                 !.metrics = found.metrics]
                        ELSE [requests[r] EXCEPT !.at = "waiting", !.metrics = found.metrics])
    /\ OnlyRequests /\ UNCHANGED <<counters, carried>>

RouteRequest(r) ==
    /\ requests[r].at = "routing"
    /\ LET found == LookUp(requests[r].slug)
       IN  IF found.target = NoTarget THEN Answers(r, "404")
           ELSE Step(r, [requests[r] EXCEPT !.at = "waiting", !.target = found.target,
                                            !.metrics = found.metrics])
    /\ OnlyRequests /\ UNCHANGED <<counters, carried>>

(* rewrite_for_upstream fails. *)
RewriteFails(r) ==
    /\ requests[r].at = "waiting" /\ Answers(r, "500")
    /\ OnlyRequests /\ UNCHANGED <<counters, carried>>

(* The local service answers; an upgrade is bridged when the client has asked for one too. *)
UpstreamResponds(r) ==
    /\ requests[r].at = "waiting"
    /\ \E switching \in BOOLEAN :
          Step(r, [requests[r] EXCEPT
              !.at = IF switching /\ requests[r].upgrade THEN "bridge" ELSE "body",
              !.answer = IF switching THEN "switching" ELSE "upstream"])
    /\ OnlyRequests /\ UNCHANGED <<counters, carried>>

UpstreamRefuses(r) ==
    /\ requests[r].at = "waiting" /\ Answers(r, "502")
    /\ OnlyRequests /\ UNCHANGED <<counters, carried>>

(* Mutant: the timeout covers the connection only, the header of an upgrade is awaited for good. *)
ConnectTimeout(r) ==
    /\ requests[r].at = "waiting" /\ ~requests[r].upgrade /\ Answers(r, "504")
    /\ OnlyRequests /\ UNCHANGED <<counters, carried>>

(* UPSTREAM_CONNECT_TIMEOUT or UPSTREAM_HEADER_TIMEOUT. *)
HeaderTimeout(r) ==
    /\ requests[r].at = "waiting" /\ Answers(r, "504")
    /\ OnlyRequests /\ UNCHANGED <<counters, carried>>

(* Mutant: the counter does not stop at its limit. *)
PlainAdd(count) == count + 1

(* Mutant: the counter wraps. *)
WrappingAdd(count) == (count + 1) % (MaxCount + 1)

SaturatingAdd(count) == IF count = MaxCount THEN count ELSE count + 1

(* Mutant: the bytes count for whoever has the slug now. *)
CountForSlug(r, direction) ==
    LET route == forwards.bySlug[requests[r].slug]
        n == IF route = NoRoute THEN requests[r].metrics ELSE route.session
    IN  counters' = [counters EXCEPT ![n][direction] = SaturatingAdd(@)]

Count(r, direction) ==
    counters' = [counters EXCEPT ![requests[r].metrics][direction] = SaturatingAdd(@)]

FramesCarried == MapThenSumSet(LAMBDA slot : carried[slot[1]][slot[2]], Ports \X Direction)

(* counted_body and CountedIo: a frame is counted as it is pulled or read, before it is written to *)
(* the other side; whether it gets there is not modelled.  The request's body goes up while the    *)
(* response is waited for, and perhaps after it has begun.                                         *)
Carry(r, direction) ==
    /\ \/ requests[r].at \in {"body", "bridge"}
       \/ requests[r].at = "waiting" /\ direction = "up"
    /\ FramesCarried < MaxCarried
    /\ carried' = [carried EXCEPT ![requests[r].target][direction] = @ + 1]
    /\ Count(r, direction)
    /\ UNCHANGED requests /\ OnlyRequests

BodyEnds(r) ==
    /\ requests[r].at \in {"body", "bridge"}
    /\ Step(r, [requests[r] EXCEPT !.at = "over"])
    /\ OnlyRequests /\ UNCHANGED <<counters, carried>>

(* The client disconnects: hyper drops what it was waiting for. *)
ClientGone(r) ==
    /\ requests[r].at \in {"routing", "waiting"} /\ Answers(r, "dropped")
    /\ OnlyRequests /\ UNCHANGED <<counters, carried>>

NextRequest(r) ==
    /\ requests[r].at = "over" /\ Step(r, Unrouted)
    /\ OnlyRequests /\ UNCHANGED <<counters, carried>>

(* The token is cancelled, or accept() fails: serve() accepts no more, its connections finish what *)
(* they have begun.                                                                                 *)
ProxyStops ==
    /\ proxying /\ proxying' = FALSE
    /\ UNCHANGED <<forwards, sessions, requests, counters, samplers, carried, ended>>

------------------------------------------------------------------------------
(* The statistics tasks. *)

StartSampler(n) ==
    /\ n <= sessions /\ samplers[n].at = "none"
    /\ samplers' = [samplers EXCEPT ![n] = [at |-> "running", from |-> counters[n],
                                            sum |-> ZeroCount, totals |-> counters[n]]]
    /\ UNCHANGED <<forwards, sessions, proxying, requests, counters, carried, ended>>

SlugOf(n) == (CHOOSE route \in Issued : route.session = n).slug

(* Mutant: sample_at keeps the totals it compares with. *)
SampleAgainstFirst(n, direction) == counters[n][direction] - samplers[n].from[direction]

(* A delta of saturating_sub. *)
Delta(n, direction) ==
    LET before == samplers[n].totals[direction]
    IN  IF counters[n][direction] >= before THEN counters[n][direction] - before ELSE 0

(* A tick: the task asks whether its slug is registered, for whomever, and shows a sample. *)
Tick(n) ==
    /\ samplers[n].at = "running"
    /\ samplers' = IF forwards.bySlug[SlugOf(n)] = NoRoute
                   THEN [samplers EXCEPT ![n].at = "ended"]
                   ELSE [samplers EXCEPT
                           ![n].totals = counters[n],
                           ![n].sum = [direction \in Direction |->
                               @[direction] + Delta(n, direction)]]
    /\ UNCHANGED <<forwards, sessions, proxying, requests, counters, carried, ended>>

(* The owner's channel is closed. *)
SamplerLosesOwner(n) ==
    /\ samplers[n].at = "running" /\ SlugOf(n) \notin forwards.slugsBySession[n]
    /\ samplers' = [samplers EXCEPT ![n].at = "ended"]
    /\ UNCHANGED <<forwards, sessions, proxying, requests, counters, carried, ended>>

ForwardStep(r) == RouteRequest(r) \/ HeaderTimeout(r)

TrafficNext ==
    \/ OwnerRegisters \/ OwnerLeaves \/ ProxyStops
    \/ \E r \in Requests :
          \/ Arrive(r) \/ ForwardStep(r) \/ RewriteFails(r) \/ UpstreamResponds(r)
          \/ UpstreamRefuses(r) \/ BodyEnds(r) \/ ClientGone(r) \/ NextRequest(r)
          \/ \E direction \in Direction : Carry(r, direction)
    \/ \E n \in Sessions : StartSampler(n) \/ Tick(n) \/ SamplerLosesOwner(n)

(* The registry lock is granted and timers fire; nobody has to send, answer or close anything. *)
TrafficFairness == \A r \in Requests : WF_trafficVars(ForwardStep(r))

TrafficSafety == TrafficInit /\ [][TrafficNext]_trafficVars

------------------------------------------------------------------------------
(* Whatever happens to its route meanwhile, and to the slug, a request goes to the port of a route  *)
(* that had its slug, and counts for the owner of that very route.                                  *)
TargetAndMetricsAgree ==
    \A r \in Requests : requests[r].target # NoTarget =>
        \E route \in Issued : /\ route.slug = requests[r].slug
                              /\ route.port = requests[r].target
                              /\ route.session = requests[r].metrics

(* Every byte the proxy takes in for a local service, or from it, is counted once, for the owners   *)
(* of its port, also when it belongs to an upgraded connection or to a request older than the       *)
(* present owner; only a counter at its limit counts less.  It need not have been delivered: the    *)
(* code counts first (proxy/mod.rs:247-267, upgrade.rs:61-75).                                      *)
EveryByteIsCounted ==
    \A p \in Ports, direction \in Direction :
        LET owners == {route.session : route \in {x \in Issued : x.port = p}}
            counted == SumFunction([n \in owners |-> counters[n][direction]])
        IN  \/ counted = carried[p][direction]
            \/ counted < carried[p][direction] /\ \E n \in owners : counters[n][direction] = MaxCount

(* The deltas an owner is shown (as rates) add up to the totals it is shown, at the limit of the   *)
(* counters too.                                                                                    *)
SamplesAddUp ==
    \A n \in Sessions, direction \in Direction :
        samplers[n].from[direction] + samplers[n].sum[direction] = samplers[n].totals[direction]

(* A request whose local service never answers is answered nevertheless. *)
RequestsAreOver ==
    \A r \in Requests : requests[r].at \in {"routing", "waiting"} ~>
                            requests[r].at \in {"body", "bridge", "over"}
==============================================================================
