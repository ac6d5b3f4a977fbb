---------------------------- MODULE SingleDaemon ----------------------------
(***************************************************************************)
(* What the startup protocol promises: the processes that may become the  *)
(* daemon of an installation take turns.  Only the one whose turn it is    *)
(* offers an endpoint and keeps a tunnel, and its turn ends after it has   *)
(* given up both, or with its process.                                     *)
(***************************************************************************)
CONSTANTS Processes, NoOne

VARIABLES
    holder,     \* the process whose turn it is, or NoOne
    endpoints,  \* the processes a client that connects may reach
    tunnels     \* the processes that have a tunnel running under their supervision

sdVars == <<holder, endpoints, tunnels>>

SDInit == holder = NoOne /\ endpoints = {} /\ tunnels = {}

Take(d) == holder = NoOne /\ holder' = d /\ UNCHANGED <<endpoints, tunnels>>

Offer(d) == holder = d /\ endpoints' = endpoints \cup {d} /\ UNCHANGED <<holder, tunnels>>
Withdraw(d) == endpoints' = endpoints \ {d} /\ UNCHANGED <<holder, tunnels>>

OpenTunnel(d) == holder = d /\ tunnels' = tunnels \cup {d} /\ UNCHANGED <<holder, endpoints>>
CloseTunnel(d) == tunnels' = tunnels \ {d} /\ UNCHANGED <<holder, endpoints>>

Release(d) ==
    /\ holder = d /\ endpoints = {} /\ tunnels = {}
    /\ holder' = NoOne /\ UNCHANGED <<endpoints, tunnels>>

Die(d) == holder = d /\ holder' = NoOne /\ endpoints' = {} /\ tunnels' = {}

SDNext ==
    \E d \in Processes :
        Take(d) \/ Offer(d) \/ Withdraw(d) \/ OpenTunnel(d) \/ CloseTunnel(d) \/ Release(d) \/ Die(d)

SDSpec == SDInit /\ [][SDNext]_sdVars
==============================================================================
