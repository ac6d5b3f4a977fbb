----------------------------- MODULE Components -----------------------------
(***************************************************************************)
(* The components that share no state with each other, side by side: a     *)
(* behaviour is one of one of them, the others stay as they are.           *)
(***************************************************************************)
EXTENDS ConfigInstall, Cloudflared, RecentOutput, FrameStream, Traffic, CommandLine,
        SetupLauncher, Terminal

CONSTANT Parts    \* the components that behaviours are about

VARIABLE part    \* of Parts

partsVars == <<part, installVars, tunnelVars, outputVars, frameVars, trafficVars, commandVars,
               setupVars, panel>>

PartsInit ==
    /\ part \in Parts
    /\ InstallInit /\ TunnelInit /\ OutputInit /\ StreamInit /\ TrafficInit /\ CommandInit
    /\ SetupInit /\ TerminalInit
    /\ part = "tunnel" \/ tunnelPlatform = "unix"
    /\ part = "setup" \/ setupPlatform = "unix"

Rest(p) ==
    /\ part = p /\ UNCHANGED part
    /\ IF p = "config" THEN TRUE ELSE UNCHANGED installVars
    /\ IF p = "tunnel" THEN TRUE ELSE UNCHANGED tunnelVars
    /\ IF p = "output" THEN TRUE ELSE UNCHANGED outputVars
    /\ IF p = "frames" THEN TRUE ELSE UNCHANGED frameVars
    /\ IF p = "traffic" THEN TRUE ELSE UNCHANGED trafficVars
    /\ IF p = "command" THEN TRUE ELSE UNCHANGED commandVars
    /\ IF p = "setup" THEN TRUE ELSE UNCHANGED setupVars
    /\ IF p = "terminal" THEN TRUE ELSE UNCHANGED panel

PartsNext ==
    \/ Rest("config") /\ InstallNext
    \/ Rest("tunnel") /\ TunnelNext
    \/ Rest("output") /\ OutputNext
    \/ Rest("frames") /\ StreamNext
    \/ Rest("traffic") /\ TrafficNext
    \/ Rest("command") /\ CommandNext
    \/ Rest("setup") /\ SetupNext
    \/ Rest("terminal") /\ ShowPanel

PartsSpec == PartsInit /\ [][PartsNext]_partsVars /\ TunnelFairness /\ TrafficFairness

(* Every component's variables hold what its code can put there. *)
PartsTypeOK ==
    /\ InstallTypeOK /\ TunnelTypeOK /\ OutputTypeOK /\ StreamTypeOK /\ TrafficTypeOK
    /\ word \in Words /\ line \in Lines /\ draw \in Draws
    /\ SetupTypeOK /\ panel \in Panels
==============================================================================
