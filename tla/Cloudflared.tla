----------------------------- MODULE Cloudflared -----------------------------
(***************************************************************************)
(* The supervision of the cloudflared process (cloudflared.rs              *)
(* CloudflaredProcess, ChildSupervisor in platform/unix.rs and             *)
(* platform/windows.rs): spawn, attach, the polls for its exit, shutdown,  *)
(* and what the two platforms do to the processes it has started itself.   *)
(* cloudflared is external: it may start one helper, and each of the two   *)
(* exits when it likes, or never.                                          *)
(***************************************************************************)
EXTENDS Naturals

CONSTANT MaxForks    \* bound: helpers cloudflared starts, one after the other

ASSUME ForksAssumption == MaxForks \in Nat

Member == {"child", "helper"}

VARIABLES
    tunnelPlatform,    \* "unix" or "windows"
    run,               \* where run() is with its CloudflaredProcess
    running,           \* the processes that run
    owned,             \* those in the process group or the job object the supervisor has recorded
    pipes,             \* those that hold the writing ends of stdout and stderr
    forks

tunnelVars == <<tunnelPlatform, run, running, owned, pipes, forks>>

RunLabel ==
    {"none", "spawned", "supervising", "asked", "forced", "reaped", "draining", "reported",
     "failed", "dropped", "crashed"}

TunnelTypeOK ==
    /\ tunnelPlatform \in {"unix", "windows"}
    /\ run \in RunLabel
    /\ running \subseteq Member /\ owned \subseteq Member /\ pipes \subseteq running
    /\ forks \in 0..MaxForks

TunnelInit ==
    /\ tunnelPlatform \in {"unix", "windows"}
    /\ run = "none" /\ running = {} /\ owned = {} /\ pipes = {} /\ forks = 0

------------------------------------------------------------------------------
(* cloudflared. *)

(* A helper is in its parent's process group; it is in the job object if its parent is. *)
Fork ==
    /\ "child" \in running /\ "helper" \notin running /\ forks < MaxForks
    /\ forks' = forks + 1
    /\ running' = running \cup {"helper"}
    /\ owned' = IF "child" \in owned THEN owned \cup {"helper"} ELSE owned \ {"helper"}
    /\ pipes' \in {pipes, pipes \cup {"helper"}}
    /\ UNCHANGED <<tunnelPlatform, run>>

Dies(processes) == running' = running \ processes /\ pipes' = pipes \ processes

Exits(p) ==
    /\ p \in running /\ Dies({p})
    /\ UNCHANGED <<tunnelPlatform, run, owned, forks>>

------------------------------------------------------------------------------
(* The daemon. *)

TunnelGoes(label) == run' = label /\ UNCHANGED <<tunnelPlatform, forks>>

Spawn ==
    /\ run = "none"
    /\ TunnelGoes("spawned")
    /\ running' = {"child"} /\ pipes' = {"child"} /\ UNCHANGED owned

(* The group is the child's since before its exec; a helper it had before it was put into the job  *)
(* object is not in it.  A child that cannot be attached is killed and waited for.                 *)
Attach ==
    /\ run = "spawned"
    /\ \/ /\ TunnelGoes("supervising") /\ UNCHANGED <<running, pipes>>
          /\ owned' = IF tunnelPlatform = "unix" THEN running ELSE {"child"} \cap running
       \/ /\ TunnelGoes("failed") /\ Dies({"child"}) /\ UNCHANGED owned

(* stabilize, try_wait_exit, or shutdown on a child that is gone already. *)
SeeExit ==
    /\ run = "supervising" /\ "child" \notin running
    /\ TunnelGoes("reaped") /\ UNCHANGED <<running, owned, pipes>>

(* shutdown: SIGTERM to the group on unix, nothing on windows. *)
BeginShutdown ==
    /\ run = "supervising" /\ "child" \in running
    /\ TunnelGoes("asked") /\ UNCHANGED <<running, owned, pipes>>

ChildIsReaped ==
    /\ run \in {"asked", "forced"} /\ "child" \notin running
    /\ TunnelGoes("reaped") /\ UNCHANGED <<running, owned, pipes>>

(* Mutant: the timeout asks once more. *)
AskAgain ==
    /\ run = "asked" /\ "child" \in running
    /\ TunnelGoes("asked") /\ UNCHANGED <<running, owned, pipes>>

(* CHILD_SHUTDOWN_TIMEOUT: SIGKILL to the group, or the job object is terminated. *)
ForceShutdown ==
    /\ run = "asked" /\ "child" \in running
    /\ TunnelGoes("forced") /\ Dies(owned) /\ UNCHANGED owned

(* Mutant: on unix only the child is taken care of. *)
LeaveTheGroup ==
    /\ run = "reaped"
    /\ TunnelGoes("draining") /\ UNCHANGED <<running, owned, pipes>>

(* SIGKILL to what is left of the group on unix, nothing on windows. *)
FinishShutdown ==
    /\ run = "reaped"
    /\ TunnelGoes("draining")
    /\ IF tunnelPlatform = "unix" THEN Dies(owned) ELSE UNCHANGED <<running, pipes>>
    /\ UNCHANGED owned

(* finish_output_tasks: both streams end when nobody holds the pipes any more. *)
OutputEnds ==
    /\ run = "draining" /\ pipes = {}
    /\ TunnelGoes("reported") /\ UNCHANGED <<running, owned, pipes>>

(* A call to the system fails and its error is passed on. *)
CallFails ==
    /\ run \in {"supervising", "asked", "forced", "reaped"}
    /\ TunnelGoes("failed") /\ UNCHANGED <<running, owned, pipes>>

(* Drop kills the group; the last handle of the job object kills what is in it. *)
DropSupervisor ==
    /\ run \in {"reported", "failed"}
    /\ TunnelGoes("dropped") /\ Dies(owned) /\ UNCHANGED owned

(* The daemon is killed: nothing is dropped, but handles are closed. *)
DaemonIsKilled ==
    /\ run \in {"spawned", "supervising", "asked", "forced", "reaped", "draining"}
    /\ TunnelGoes("crashed") /\ UNCHANGED owned
    /\ IF tunnelPlatform = "windows" THEN Dies(owned) ELSE UNCHANGED <<running, pipes>>

SupervisorStep ==
    Attach \/ SeeExit \/ ChildIsReaped \/ ForceShutdown \/ FinishShutdown \/ OutputEnds
    \/ DropSupervisor

TunnelNext ==
    \/ Fork \/ (\E p \in Member : Exits(p))
    \/ Spawn \/ SupervisorStep \/ BeginShutdown \/ CallFails \/ DaemonIsKilled

TunnelSafety == TunnelInit /\ [][TunnelNext]_tunnelVars

(* The daemon polls, its timeout fires; nobody has to stop it, and cloudflared need not exit. *)
TunnelFairness == WF_tunnelVars(SupervisorStep)

------------------------------------------------------------------------------
(* Nothing in cloudflared's process group or job object runs once run() has let go of it, nor, on  *)
(* unix, once its exit or its shutdown is reported (the next daemon's may then start); a daemon    *)
(* that is killed takes it along on windows.  A helper that was never in either is not meant.      *)
GoneWhenReported ==
    \/ run = "dropped"
    \/ run = "reported" /\ tunnelPlatform = "unix"
    \/ run = "crashed" /\ tunnelPlatform = "windows"
    => running \cap owned = {}

(* A shutdown ends, whatever cloudflared does with SIGTERM and whoever holds its pipes; on windows  *)
(* a helper that has kept them keeps the daemon waiting until it exits.                             *)
ShutdownEnds ==
    run = "asked" ~>
        \/ run \in {"dropped", "crashed"}
        \/ tunnelPlatform = "windows" /\ "helper" \in pipes
==============================================================================
