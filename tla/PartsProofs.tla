----------------------------- MODULE PartsProofs -----------------------------
(***************************************************************************)
(* The components that share no state with the daemon's: the supervision   *)
(* of cloudflared, the installation of its configuration, the launcher of  *)
(* the setup script, the proxy's counters, the slugs and the selectors of  *)
(* the command line, the widths of the start view.  What the runs check on *)
(* small instances holds for every value of their constants.               *)
(***************************************************************************)
EXTENDS Components, RegistryProofs, StreamProofs

------------------------------------------------------------------------------
(* Cloudflared. *)

(* Once the group has been killed for good nothing in it runs, and nothing outside it puts a       *)
(* helper into it.                                                                                 *)
TunnelInv ==
    /\ running \subseteq Member
    /\ run \in {"draining", "reported"} /\ tunnelPlatform = "unix" => running \cap owned = {}
    /\ run = "dropped" => running \cap owned = {}
    /\ run = "crashed" /\ tunnelPlatform = "windows" => running \cap owned = {}

(* The invariant is inductive: after the last kill nothing inside forks. *)
LEMMA TunnelInvNext == TunnelInv /\ [TunnelNext]_tunnelVars => TunnelInv'
<1> SUFFICES ASSUME TunnelInv, [TunnelNext]_tunnelVars PROVE TunnelInv'
  OBVIOUS
<1> USE DEF TunnelInv, Dies, TunnelGoes, Member
<1>1. CASE Fork
  BY <1>1 DEF Fork
<1>2. ASSUME NEW p \in Member, Exits(p) PROVE TunnelInv'
  BY <1>2 DEF Exits
<1>3. CASE Spawn \/ BeginShutdown \/ CallFails \/ DaemonIsKilled
  BY <1>3 DEF Spawn, BeginShutdown, CallFails, DaemonIsKilled
<1>4. CASE SupervisorStep
  BY <1>4 DEF SupervisorStep, Attach, SeeExit, ChildIsReaped, ForceShutdown, FinishShutdown,
              OutputEnds, DropSupervisor
<1>5. CASE UNCHANGED tunnelVars
  BY <1>5 DEF tunnelVars
<1> QED BY <1>1, <1>2, <1>3, <1>4, <1>5 DEF TunnelNext

(* In every behaviour nothing that is recorded as cloudflared's runs once the supervisor is        *)
(* dropped, or on unix once the end is reported, or on windows once the daemon is killed; helpers  *)
(* started at any moment included, and however many (platform/unix.rs and platform/windows.rs      *)
(* ChildSupervisor).                                                                               *)
THEOREM NothingOutlivesItsSupervisor == TunnelSafety => []GoneWhenReported
<1>1. TunnelInit => TunnelInv
  BY DEF TunnelInit, TunnelInv
<1>2. TunnelInv => GoneWhenReported
  BY DEF TunnelInv, GoneWhenReported
<1> QED BY <1>1, <1>2, TunnelInvNext, PTL DEF TunnelSafety

------------------------------------------------------------------------------
(* SetupLauncher. *)

Holding == {"writing", "verifying", "launching", "running"}
Alone(l) == \A k \in Launchers \ {l} : setups[k].at = "idle"

SetupTyped ==
    /\ setups \in [Launchers -> [at : SetupLabel, handle : Files \cup {NoScript},
                                 outcome : {"none", "done", "failed", "killed"}]]
    /\ contents \in [Files -> {"none", "partial", "good", "bad"}]
    /\ script \in Files \cup {NoScript}

(* A handle is held between opening and closing, of a file that exists. *)
HandlesAreOpen ==
    /\ script # NoScript => contents[script] # "none"
    /\ \A l \in Launchers :
          /\ setups[l].at \in Holding <=> setups[l].handle # NoScript
          /\ setups[l].handle # NoScript => contents[setups[l].handle] # "none"

(* Windows' sharing modes: who reads a script has it to itself and its likes. *)
ReadersKeepWritersOut ==
    setupPlatform = "windows" =>
        \A k, l \in Launchers :
            setups[k].handle = setups[l].handle /\ setups[k].at = "writing" =>
                setups[l].at = "writing" \/ setups[l].handle = NoScript

VerifiedStaysGood ==
    \A l \in Launchers :
        /\ setups[l].at \in {"launching", "running"}
        /\ setupPlatform = "windows" \/ Alone(l)
        => contents[setups[l].handle] = "good"

(* The launcher that will complete the script or refuse and remove it. *)
WillSeeTo(l) ==
    \/ setups[l].at \in {"opening", "removing"}
    \/ setups[l].at \in {"writing", "verifying"} /\ setups[l].handle = script

BadScriptsAreSeenTo ==
    kills = 0 /\ script # NoScript /\ contents[script] # "good" =>
        \E l \in Launchers : WillSeeTo(l)

SetupInv ==
    /\ SetupTyped /\ HandlesAreOpen /\ ReadersKeepWritersOut /\ VerifiedStaysGood
    /\ BadScriptsAreSeenTo
    /\ setupPlatform \in {"unix", "windows"} /\ kills \in Nat

(* What a step of one launcher leaves alone of the others. *)
LEMMA SetupStepFacts ==
    ASSUME SetupInv, NEW l \in Launchers, NEW new,
           setups' = [setups EXCEPT ![l] = new]
    PROVE  setups'[l] = new /\ \A k \in Launchers \ {l} : setups'[k] = setups[k]
BY DEF SetupInv, SetupTyped

(* A launcher that only moves on, or lets go of its handle, keeps the invariant if it still sees   *)
(* to what it saw to.                                                                              *)
LEMMA MovesOnKeeps ==
    ASSUME SetupInv, NEW l \in Launchers, NEW new,
           new \in [at : SetupLabel, handle : Files \cup {NoScript},
                    outcome : {"none", "done", "failed", "killed"}],
           setups' = [setups EXCEPT ![l] = new], UNCHANGED <<contents, setupPlatform>>,
           script' = script \/ script' = NoScript,
           kills' \in Nat,
           new.at \in Holding <=> new.handle # NoScript,
           new.handle \in {NoScript, setups[l].handle},
           new.at = "writing" => setups[l].at = "writing",
           setups[l].at = "writing" /\ new.at # "writing" => new.handle = NoScript,
           new.at \in {"launching", "running"} =>
               setups[l].at \in {"launching", "running"} \/ contents[setups[l].handle] = "good",
           kills' = 0 /\ script' = script /\ script # NoScript /\ contents[script] # "good" =>
               kills = 0 /\ \/ ~WillSeeTo(l)
                            \/ new.at \in {"opening", "removing"}
                            \/ new.at \in {"writing", "verifying"} /\ new.handle = script
                            \/ \E k \in Launchers \ {l} : WillSeeTo(k),
           new.at = "idle" => setups[l].at = "idle"
    PROVE  SetupInv'
<1>1. setups'[l] = new /\ \A k \in Launchers \ {l} : setups'[k] = setups[k]
  BY SetupStepFacts
<1>2. SetupTyped'
  BY DEF SetupInv, SetupTyped
<1>3. HandlesAreOpen'
  BY <1>1 DEF SetupInv, HandlesAreOpen
<1>4. ReadersKeepWritersOut'
  BY <1>1 DEF SetupInv, ReadersKeepWritersOut, HandlesAreOpen, Holding
<1>5. VerifiedStaysGood'
  <2> SUFFICES ASSUME NEW k \in Launchers, setups'[k].at \in {"launching", "running"},
                      setupPlatform = "windows" \/ Alone(k)'
               PROVE  contents[setups'[k].handle] = "good"
    BY DEF VerifiedStaysGood
  <2>1. setupPlatform = "windows" \/ Alone(k)
    BY <1>1 DEF Alone
  <2>2. new.at \in {"launching", "running"} => new.handle = setups[l].handle
    BY DEF Holding
  <2> QED BY <1>1, <2>1, <2>2 DEF SetupInv, VerifiedStaysGood
<1>6. BadScriptsAreSeenTo'
  <2> SUFFICES ASSUME kills' = 0, script' # NoScript, contents[script'] # "good"
               PROVE  \E k \in Launchers : WillSeeTo(k)'
    BY DEF BadScriptsAreSeenTo
  <2>1. script' = script /\ kills = 0
    OBVIOUS
  <2>2. PICK k \in Launchers : WillSeeTo(k)
    BY <2>1 DEF SetupInv, BadScriptsAreSeenTo
  <2>3. \A j \in Launchers \ {l} : WillSeeTo(j) => WillSeeTo(j)'
    BY <1>1, <2>1 DEF WillSeeTo
  <2>4. \/ new.at \in {"opening", "removing"}
        \/ new.at \in {"writing", "verifying"} /\ new.handle = script
        => WillSeeTo(l)'
    BY <1>1, <2>1 DEF WillSeeTo
  <2> QED BY <2>1, <2>2, <2>3, <2>4
<1> QED BY <1>2, <1>3, <1>4, <1>5, <1>6 DEF SetupInv

(* Every step but those that open, write or read the script. *)
LEMMA QuietSetupSteps ==
    ASSUME SetupInv, NEW l \in Launchers,
           \/ StartSetup(l) \/ CheckScript(l) \/ RemoveRefused(l) \/ VerifyScript(l)
           \/ LaunchScript(l) \/ ScriptEnds(l) \/ RemoveScript(l) \/ SetupKilled(l)
    PROVE  SetupInv'
<1> DEFINE old == setups[l]
           over(outcome) == [at |-> "over", handle |-> NoScript, outcome |-> outcome]
           at(label) == [setups[l] EXCEPT !.at = label]
           without(label) == [setups[l] EXCEPT !.at = label, !.handle = NoScript]
<1>1. /\ old \in [at : SetupLabel, handle : Files \cup {NoScript},
                  outcome : {"none", "done", "failed", "killed"}]
      /\ old.at \in Holding <=> old.handle # NoScript
      /\ kills \in Nat
  BY DEF SetupInv, SetupTyped, HandlesAreOpen
<1>2. \A label : /\ SetupGoes(l, label) <=> setups' = [setups EXCEPT ![l] = at(label)]
                 /\ setups' = [setups EXCEPT ![l].at = label, ![l].handle = NoScript] <=>
                        setups' = [setups EXCEPT ![l] = without(label)]
  BY DEF SetupGoes, SetupInv, SetupTyped
<1>3. \A outcome : Ends(l, outcome) <=> setups' = [setups EXCEPT ![l] = over(outcome)]
  BY DEF Ends
<1>4. \A label \in SetupLabel :
          /\ at(label) \in [at : SetupLabel, handle : Files \cup {NoScript},
                            outcome : {"none", "done", "failed", "killed"}]
          /\ at(label).at = label /\ at(label).handle = old.handle
          /\ without(label) \in [at : SetupLabel, handle : Files \cup {NoScript},
                                 outcome : {"none", "done", "failed", "killed"}]
          /\ without(label).at = label /\ without(label).handle = NoScript
  BY <1>1
<1>5. \A outcome \in {"none", "done", "failed", "killed"} :
          over(outcome) \in [at : SetupLabel, handle : Files \cup {NoScript},
                             outcome : {"none", "done", "failed", "killed"}]
  BY DEF SetupLabel
<1>6. WillSeeTo(l) => old.at \in {"opening", "removing", "writing", "verifying"}
  BY DEF WillSeeTo
<1> HIDE DEF at, without
<1>7. CASE StartSetup(l)
  <2> DEFINE new == [IdleSetup EXCEPT !.at = "checking"]
  <2>1. /\ setups' = [setups EXCEPT ![l] = new] /\ old.at \in {"idle", "over"}
        /\ UNCHANGED <<setupPlatform, contents, script, kills>>
    BY <1>7 DEF StartSetup
  <2>2. /\ new \in [at : SetupLabel, handle : Files \cup {NoScript},
                    outcome : {"none", "done", "failed", "killed"}]
        /\ new.at = "checking" /\ new.handle = NoScript
    BY DEF IdleSetup, SetupLabel
  <2> HIDE DEF new
  <2> QED BY <1>1, <1>6, <2>1, <2>2, MovesOnKeeps DEF Holding
<1>8. CASE CheckScript(l)
  <2>1. PICK label \in {"downloading", "opening"} : setups' = [setups EXCEPT ![l] = at(label)]
    BY <1>2, <1>8 DEF CheckScript
  <2>2. old.at = "checking" /\ UNCHANGED <<setupPlatform, contents, script, kills>>
    BY <1>8 DEF CheckScript, Kept
  <2> DEFINE new == at(label)
  <2>3. /\ new \in [at : SetupLabel, handle : Files \cup {NoScript},
                    outcome : {"none", "done", "failed", "killed"}]
        /\ new.at = label /\ new.handle = NoScript
    BY <1>1, <1>4, <2>2 DEF SetupLabel, Holding
  <2> HIDE DEF new
  <2> QED BY <1>1, <1>6, <2>1, <2>2, <2>3, MovesOnKeeps DEF Holding, new
<1>9. CASE VerifyScript(l)
  <2>1. /\ old.at = "verifying" /\ UNCHANGED <<setupPlatform, contents, script, kills>>
        /\ old.handle # NoScript
    BY <1>1, <1>9 DEF VerifyScript, Kept, Holding
  <2>2. CASE contents[old.handle] = "good"
    <3>1. setups' = [setups EXCEPT ![l] = at("launching")]
      BY <1>2, <1>9, <2>2 DEF VerifyScript
    <3> DEFINE new == at("launching")
    <3>2. /\ new \in [at : SetupLabel, handle : Files \cup {NoScript},
                      outcome : {"none", "done", "failed", "killed"}]
          /\ new.at = "launching" /\ new.handle = old.handle
      BY <1>4 DEF SetupLabel
    <3>3. script # NoScript /\ contents[script] # "good" => ~WillSeeTo(l)
      BY <2>1, <2>2 DEF WillSeeTo
    <3> HIDE DEF new
    <3> QED BY <1>1, <2>1, <2>2, <3>1, <3>2, <3>3, MovesOnKeeps DEF Holding, new
  <2>3. CASE contents[old.handle] # "good"
    <3>1. setups' = [setups EXCEPT ![l] = without("removing")]
      BY <1>2, <1>9, <2>3 DEF VerifyScript
    <3> DEFINE new == without("removing")
    <3>2. /\ new \in [at : SetupLabel, handle : Files \cup {NoScript},
                      outcome : {"none", "done", "failed", "killed"}]
          /\ new.at = "removing" /\ new.handle = NoScript
      BY <1>4 DEF SetupLabel
    <3> HIDE DEF new
    <3> QED BY <1>1, <2>1, <3>1, <3>2, MovesOnKeeps DEF Holding, new
  <2> QED BY <2>2, <2>3
<1>10. CASE RemoveRefused(l)
  <2> DEFINE new == over("failed")
  <2>1. /\ old.at = "removing" /\ setups' = [setups EXCEPT ![l] = new]
        /\ UNCHANGED <<setupPlatform, contents, kills>>
        /\ script' = IF script # NoScript /\ Locked(script) THEN script ELSE NoScript
    BY <1>3, <1>10 DEF RemoveRefused, Kept
  <2>2. new.at = "over" /\ new.handle = NoScript
    OBVIOUS
  <2>3. ASSUME script # NoScript, Locked(script), contents[script] # "good"
        PROVE  \E k \in Launchers \ {l} : WillSeeTo(k)
    <3>1. PICK k \in Launchers : setups[k].handle = script /\ setups[k].at # "writing"
      BY <2>3 DEF Locked, OpenHandles
    <3>2. setupPlatform = "windows" /\ setups[k].at \in Holding
      BY <2>3, <3>1 DEF Locked, SetupInv, HandlesAreOpen
    <3>3. setups[k].at = "verifying"
      BY <2>3, <3>1, <3>2 DEF SetupInv, VerifiedStaysGood, Holding
    <3> QED BY <2>1, <3>1, <3>3 DEF WillSeeTo
  <2>4. script' = script \/ script' = NoScript
    BY <2>1
  <2>5. script' = script /\ script # NoScript => Locked(script)
    BY <2>1
  <2>6. new \in [at : SetupLabel, handle : Files \cup {NoScript},
                 outcome : {"none", "done", "failed", "killed"}]
    BY <1>5
  <2> HIDE DEF new
  <2> QED BY <1>1, <2>1, <2>2, <2>3, <2>4, <2>5, <2>6, MovesOnKeeps DEF Holding
<1>11. ASSUME NEW outcome \in {"done", "failed", "killed"}, Ends(l, outcome),
              UNCHANGED <<setupPlatform, contents>>, script' \in {script, NoScript},
              \/ kills' = kills /\ old.at \notin {"opening", "removing", "writing", "verifying"}
              \/ kills' = kills + 1
       PROVE  SetupInv'
  <2> DEFINE new == over(outcome)
  <2>1. /\ setups' = [setups EXCEPT ![l] = new] /\ new.at = "over" /\ new.handle = NoScript
        /\ new \in [at : SetupLabel, handle : Files \cup {NoScript},
                    outcome : {"none", "done", "failed", "killed"}]
    BY <1>3, <1>5, <1>11
  <2>2. kills' \in Nat /\ (kills' = 0 => kills = 0 /\ ~WillSeeTo(l))
    BY <1>1, <1>6, <1>11
  <2> HIDE DEF new
  <2> QED BY <1>1, <1>11, <2>1, <2>2, MovesOnKeeps DEF Holding
<1>12. CASE LaunchScript(l)
  <2>1. old.at = "launching" /\ UNCHANGED <<setupPlatform, contents, script, kills>>
    BY <1>12 DEF LaunchScript, Kept
  <2>2. CASE SetupGoes(l, "running")
    <3> DEFINE new == at("running")
    <3>1. setups' = [setups EXCEPT ![l] = new]
      BY <2>2 DEF SetupGoes, SetupInv, SetupTyped, at
    <3>2. /\ new \in [at : SetupLabel, handle : Files \cup {NoScript},
                      outcome : {"none", "done", "failed", "killed"}]
          /\ new.at = "running" /\ new.handle = old.handle
      BY <1>4 DEF SetupLabel
    <3> HIDE DEF new
    <3> QED BY <1>1, <1>6, <2>1, <3>1, <3>2, MovesOnKeeps DEF Holding
  <2>3. CASE Ends(l, "failed")
    BY <1>11, <2>1, <2>3
  <2> QED BY <1>12, <2>2, <2>3 DEF LaunchScript
<1>13. CASE ScriptEnds(l)
  <2>1. old.at = "running" /\ UNCHANGED <<setupPlatform, contents, script, kills>>
    BY <1>13 DEF ScriptEnds, Kept
  <2>2. CASE setups' = [setups EXCEPT ![l].at = "finishing", ![l].handle = NoScript]
    <3> DEFINE new == without("finishing")
    <3>1. setups' = [setups EXCEPT ![l] = new]
      BY <2>2 DEF SetupInv, SetupTyped, without
    <3>2. /\ new \in [at : SetupLabel, handle : Files \cup {NoScript},
                      outcome : {"none", "done", "failed", "killed"}]
          /\ new.at = "finishing" /\ new.handle = NoScript
      BY <1>4 DEF SetupLabel
    <3> HIDE DEF new
    <3> QED BY <1>1, <1>6, <2>1, <3>1, <3>2, MovesOnKeeps DEF Holding
  <2>3. CASE Ends(l, "failed")
    BY <1>11, <2>1, <2>3
  <2> QED BY <1>13, <2>2, <2>3 DEF ScriptEnds
<1>14. CASE RemoveScript(l) \/ SetupKilled(l)
  BY <1>11, <1>14 DEF RemoveScript, SetupKilled, Kept
<1> QED BY <1>7, <1>8, <1>9, <1>10, <1>12, <1>13, <1>14

(* open_script_file: under windows' share mode nobody else can have the file open. *)
LEMMA OpensKeep ==
    ASSUME SetupInv, NEW l \in Launchers, OpenScript(l)
    PROVE  SetupInv'
<1>1. /\ setups[l].at = "opening" /\ setups[l].handle = NoScript
      /\ UNCHANGED <<setupPlatform, contents, script, kills>>
  BY DEF OpenScript, Kept, SetupInv, HandlesAreOpen, Holding
<1>2. CASE script = NoScript \/ (setupPlatform = "windows" /\ BeingWritten(script))
  <2> DEFINE new == [setups[l] EXCEPT !.at = "removing"]
  <2>1. setups' = [setups EXCEPT ![l] = new]
    BY <1>2 DEF OpenScript, SetupGoes, SetupInv, SetupTyped
  <2>2. /\ new \in [at : SetupLabel, handle : Files \cup {NoScript},
                    outcome : {"none", "done", "failed", "killed"}]
        /\ new.at = "removing" /\ new.handle = NoScript
    BY <1>1 DEF SetupInv, SetupTyped, SetupLabel
  <2>3. kills' \in Nat
    BY <1>1 DEF SetupInv
  <2> HIDE DEF new
  <2> QED BY <1>1, <2>1, <2>2, <2>3, MovesOnKeeps DEF Holding
<1>3. CASE script # NoScript /\ ~ (setupPlatform = "windows" /\ BeingWritten(script))
  <2> DEFINE new == [setups[l] EXCEPT !.at = "verifying", !.handle = script]
  <2>1. setups' = [setups EXCEPT ![l] = new]
    BY <1>3 DEF OpenScript, SetupInv, SetupTyped
  <2>2. /\ new \in [at : SetupLabel, handle : Files \cup {NoScript},
                    outcome : {"none", "done", "failed", "killed"}]
        /\ new.at = "verifying" /\ new.handle = script
    BY DEF SetupInv, SetupTyped, SetupLabel
  <2> HIDE DEF new
  <2>3. setups'[l] = new /\ \A k \in Launchers \ {l} : setups'[k] = setups[k]
    BY <2>1, SetupStepFacts
  <2>4. SetupTyped'
    BY <1>1, <2>1, <2>2 DEF SetupInv, SetupTyped
  <2>5. HandlesAreOpen'
    BY <1>1, <1>3, <2>2, <2>3 DEF SetupInv, HandlesAreOpen, Holding
  <2>6. ReadersKeepWritersOut'
    BY <1>1, <1>3, <2>2, <2>3
       DEF SetupInv, ReadersKeepWritersOut, BeingWritten, OpenHandles
  <2>7. VerifiedStaysGood'
    <3>1. \A k \in Launchers : Alone(k)' => Alone(k)
      BY <1>1, <2>2, <2>3 DEF Alone
    <3> QED BY <1>1, <2>2, <2>3, <3>1 DEF SetupInv, VerifiedStaysGood
  <2>8. BadScriptsAreSeenTo'
    BY <1>1, <2>2, <2>3 DEF BadScriptsAreSeenTo, WillSeeTo
  <2> QED BY <1>1, <2>4, <2>5, <2>6, <2>7, <2>8 DEF SetupInv
<1> QED BY <1>2, <1>3

(* The download ends, fails or finds what the user put there. *)
LEMMA DownloadsKeep ==
    ASSUME SetupInv, NEW l \in Launchers, Download(l)
    PROVE  SetupInv'
<1>1. /\ setups[l].at = "downloading" /\ setups[l].handle = NoScript
      /\ UNCHANGED <<setupPlatform, kills>>
  BY DEF Download, Kept, SetupInv, HandlesAreOpen, Holding
<1>2. CASE SetupGoes(l, "removing") /\ UNCHANGED <<contents, script>>
  <2> DEFINE new == [setups[l] EXCEPT !.at = "removing"]
  <2>1. setups' = [setups EXCEPT ![l] = new]
    BY <1>2 DEF SetupGoes, SetupInv, SetupTyped
  <2>2. /\ new \in [at : SetupLabel, handle : Files \cup {NoScript},
                    outcome : {"none", "done", "failed", "killed"}]
        /\ new.at = "removing" /\ new.handle = NoScript
    BY <1>1 DEF SetupInv, SetupTyped, SetupLabel
  <2>3. kills' \in Nat
    BY <1>1 DEF SetupInv
  <2> HIDE DEF new
  <2> QED BY <1>1, <1>2, <2>1, <2>2, <2>3, MovesOnKeeps DEF Holding
<1>3. ASSUME NEW f \in Files,
             IF script = NoScript THEN contents[f] = "none" ELSE f = script /\ ~Locked(f),
             script' = f, contents' = [contents EXCEPT ![f] = "partial"],
             setups' = [setups EXCEPT ![l].at = "writing", ![l].handle = f]
      PROVE  SetupInv'
  <2> DEFINE new == [setups[l] EXCEPT !.at = "writing", !.handle = f]
  <2>1. setups' = [setups EXCEPT ![l] = new]
    BY <1>3 DEF SetupInv, SetupTyped
  <2>2. /\ new \in [at : SetupLabel, handle : Files \cup {NoScript},
                    outcome : {"none", "done", "failed", "killed"}]
        /\ new.at = "writing" /\ new.handle = f /\ f # NoScript
    <3>1. f # NoScript
      BY SetupAssumption DEF Files, NoScript
    <3> QED BY <3>1 DEF SetupInv, SetupTyped, SetupLabel
  <2> HIDE DEF new
  <2>3. setups'[l] = new /\ \A k \in Launchers \ {l} : setups'[k] = setups[k]
    BY <2>1, SetupStepFacts
  <2>4. contents'[f] = "partial" /\ \A g \in Files \ {f} : contents'[g] = contents[g]
    BY <1>3 DEF SetupInv, SetupTyped
  <2>5. \A k \in Launchers \ {l} :
            setups[k].handle = f => script = f /\ (setupPlatform = "windows" => setups[k].at = "writing")
    <3> SUFFICES ASSUME NEW k \in Launchers, setups[k].handle = f
                 PROVE  script = f /\ (setupPlatform = "windows" => setups[k].at = "writing")
      OBVIOUS
    <3>1. contents[f] # "none"
      BY <2>2 DEF SetupInv, HandlesAreOpen
    <3>2. f = script /\ ~Locked(f)
      BY <1>3, <3>1
    <3> QED BY <3>2 DEF Locked, OpenHandles
  <2>6. SetupTyped'
    <3>1. contents' \in [Files -> {"none", "partial", "good", "bad"}]
      BY <1>3 DEF SetupInv, SetupTyped
    <3>2. setups' \in [Launchers -> [at : SetupLabel, handle : Files \cup {NoScript},
                                     outcome : {"none", "done", "failed", "killed"}]]
      BY <2>1, <2>2 DEF SetupInv, SetupTyped
    <3> QED BY <1>3, <3>1, <3>2 DEF SetupTyped
  <2>7. \A k \in Launchers : setups[k].handle \in Files \cup {NoScript}
    BY DEF SetupInv, SetupTyped
  <2>8. HandlesAreOpen'
    <3>1. \A k \in Launchers \ {l} :
              setups[k].handle # NoScript => contents'[setups[k].handle] # "none"
      BY <2>4, <2>7 DEF SetupInv, HandlesAreOpen
    <3>2. setups'[l].handle # NoScript /\ contents'[setups'[l].handle] # "none" /\ setups'[l].at \in Holding
      BY <2>2, <2>3, <2>4 DEF Holding
    <3>3. ASSUME NEW k \in Launchers \ {l}
          PROVE  /\ setups'[k].at \in Holding <=> setups'[k].handle # NoScript
                 /\ setups'[k].handle # NoScript => contents'[setups'[k].handle] # "none"
      BY <2>3, <3>1 DEF SetupInv, HandlesAreOpen
    <3> QED BY <1>3, <2>4, <3>2, <3>3 DEF HandlesAreOpen
  <2>9. ReadersKeepWritersOut'
    BY <1>1, <2>2, <2>3, <2>5 DEF SetupInv, ReadersKeepWritersOut
  <2>10. VerifiedStaysGood'
    <3> SUFFICES ASSUME NEW k \in Launchers \ {l}, setups[k].at \in {"launching", "running"},
                        setupPlatform = "windows" \/ Alone(k)'
                 PROVE  contents'[setups[k].handle] = "good"
      BY <1>1, <2>2, <2>3 DEF VerifiedStaysGood
    <3>1. ~Alone(k)'
      BY <2>2, <2>3 DEF Alone
    <3>2. setups[k].handle # f
      BY <2>5, <3>1
    <3>3. contents[setups[k].handle] = "good" /\ setups[k].handle # NoScript
      BY <3>1 DEF SetupInv, VerifiedStaysGood, HandlesAreOpen, Holding
    <3> QED BY <2>4, <2>7, <3>2, <3>3
  <2>11. BadScriptsAreSeenTo'
    BY <1>3, <2>2, <2>3 DEF BadScriptsAreSeenTo, WillSeeTo
  <2> QED BY <1>1, <2>6, <2>8, <2>9, <2>10, <2>11 DEF SetupInv
<1> QED BY <1>2, <1>3 DEF Download

(* Each portion goes to the file the launcher has open, which may no longer have the name. *)
LEMMA WritesKeep ==
    ASSUME SetupInv, NEW l \in Launchers, WriteScript(l)
    PROVE  SetupInv'
<1>1. /\ setups[l].at = "writing" /\ UNCHANGED <<setupPlatform, script, kills>>
      /\ setups[l].handle \in Files /\ setups[l].handle # NoScript
  BY DEF WriteScript, Kept, SetupInv, SetupTyped, HandlesAreOpen, Holding
<1>2. CASE /\ setups' = [setups EXCEPT ![l].at = "removing", ![l].handle = NoScript]
           /\ UNCHANGED contents
  <2> DEFINE new == [setups[l] EXCEPT !.at = "removing", !.handle = NoScript]
  <2>1. setups' = [setups EXCEPT ![l] = new]
    BY <1>2 DEF SetupInv, SetupTyped
  <2>2. /\ new \in [at : SetupLabel, handle : Files \cup {NoScript},
                    outcome : {"none", "done", "failed", "killed"}]
        /\ new.at = "removing" /\ new.handle = NoScript
    BY DEF SetupInv, SetupTyped, SetupLabel
  <2>3. kills' \in Nat
    BY <1>1 DEF SetupInv
  <2> HIDE DEF new
  <2> QED BY <1>1, <1>2, <2>1, <2>2, <2>3, MovesOnKeeps DEF Holding
<1>3. ASSUME NEW content \in {"good", "bad"},
             contents' = [contents EXCEPT ![setups[l].handle] = content],
             setups' = [setups EXCEPT ![l].at = "opening", ![l].handle = NoScript]
      PROVE  SetupInv'
  <2> DEFINE new == [setups[l] EXCEPT !.at = "opening", !.handle = NoScript]
  <2>1. setups' = [setups EXCEPT ![l] = new]
    BY <1>3 DEF SetupInv, SetupTyped
  <2>2. /\ new \in [at : SetupLabel, handle : Files \cup {NoScript},
                    outcome : {"none", "done", "failed", "killed"}]
        /\ new.at = "opening" /\ new.handle = NoScript
    BY DEF SetupInv, SetupTyped, SetupLabel
  <2> HIDE DEF new
  <2>3. setups'[l] = new /\ \A k \in Launchers \ {l} : setups'[k] = setups[k]
    BY <2>1, SetupStepFacts
  <2>4. /\ contents'[setups[l].handle] = content
        /\ \A g \in Files \ {setups[l].handle} : contents'[g] = contents[g]
    BY <1>1, <1>3 DEF SetupInv, SetupTyped
  <2>5. SetupTyped'
    BY <1>1, <1>3, <2>1, <2>2 DEF SetupInv, SetupTyped
  <2>6. \A k \in Launchers : setups[k].handle \in Files \cup {NoScript}
    BY DEF SetupInv, SetupTyped
  <2>7. \A g \in Files : contents[g] # "none" => contents'[g] # "none"
    BY <2>4
  <2>8. HandlesAreOpen'
    BY <1>1, <2>2, <2>3, <2>6, <2>7 DEF SetupInv, SetupTyped, HandlesAreOpen, Holding
  <2>9. ReadersKeepWritersOut'
    BY <1>1, <2>2, <2>3 DEF SetupInv, ReadersKeepWritersOut
  <2>10. VerifiedStaysGood'
    <3> SUFFICES ASSUME NEW k \in Launchers \ {l}, setups[k].at \in {"launching", "running"},
                        setupPlatform = "windows" \/ Alone(k)'
                 PROVE  contents'[setups[k].handle] = "good"
      BY <1>1, <2>2, <2>3 DEF VerifiedStaysGood
    <3>1. ~Alone(k)' /\ setups[k].handle # NoScript
      BY <2>2, <2>3 DEF Alone, SetupInv, HandlesAreOpen, Holding
    <3>2. setups[k].handle # setups[l].handle
      BY <1>1, <3>1 DEF SetupInv, ReadersKeepWritersOut
    <3>3. contents[setups[k].handle] = "good"
      BY <3>1 DEF SetupInv, VerifiedStaysGood
    <3> QED BY <2>4, <2>6, <3>1, <3>2, <3>3
  <2>11. BadScriptsAreSeenTo'
    BY <2>2, <2>3 DEF BadScriptsAreSeenTo, WillSeeTo
  <2> QED BY <1>1, <2>5, <2>8, <2>9, <2>10, <2>11 DEF SetupInv
<1> QED BY <1>2, <1>3 DEF WriteScript

(* The invariant of the setups holds in every behaviour. *)
LEMMA SetupInvariant == SetupSafety => []SetupInv
<1>1. SetupInit => SetupInv
  BY DEF SetupInit, IdleSetup, SetupInv, SetupTyped, HandlesAreOpen, ReadersKeepWritersOut,
         VerifiedStaysGood, BadScriptsAreSeenTo, Holding, SetupLabel
<1>2. SetupInv /\ [SetupNext]_setupVars => SetupInv'
  <2> SUFFICES ASSUME SetupInv, [SetupNext]_setupVars PROVE SetupInv'
    OBVIOUS
  <2>1. CASE UNCHANGED setupVars
    BY <2>1 DEF setupVars, SetupInv, SetupTyped, HandlesAreOpen, ReadersKeepWritersOut,
               VerifiedStaysGood, BadScriptsAreSeenTo, Alone, WillSeeTo
  <2> QED BY <2>1, QuietSetupSteps, OpensKeep, DownloadsKeep, WritesKeep DEF SetupNext
<1> QED BY <1>1, <1>2, PTL DEF SetupSafety

(* In every behaviour what the shell runs is the script that was verified, however many setups on  *)
(* windows share the file's name, and on unix as long as only one is started (setup.rs, platform   *)
(* open_locked_script).                                                                            *)
THEOREM VerifiedScriptsRun == SetupSafety => []RunsWhatItVerified
<1>1. SetupInv => RunsWhatItVerified
  BY DEF SetupInv, VerifiedStaysGood, RunsWhatItVerified, Alone
<1> QED BY <1>1, SetupInvariant, PTL

(* In every behaviour without a killed setup, once all of them are over the script that is left,   *)
(* if any, is whole: a partial or refused one always has somebody who will complete, refuse or     *)
(* remove it (setup.rs, remove_if_present).                                                        *)
THEOREM LeftScriptsAreGood == SetupSafety => []LeftoversAreGood
<1>1. SetupInv => LeftoversAreGood
  BY DEF SetupInv, BadScriptsAreSeenTo, WillSeeTo, LeftoversAreGood
<1> QED BY <1>1, SetupInvariant, PTL

------------------------------------------------------------------------------
(* ConfigInstall. *)

Installer == [at : {"idle", "creating", "writing", "validating", "replacing", "dropping", "done",
                    "failed"},
              pid : Pids \cup {0}, sequence : 0..MaxSequence + 1, attempts : 0..MaxAttempts]

Working == {i \in Installers :
               installers[i].at \in {"writing", "validating", "replacing", "dropping"}}
CandidateFiles == {n \in Names : candidates[n] # NoFile}

InstallTyped ==
    /\ installers \in [Installers -> Installer]
    /\ candidates \in [Names -> FileState \cup {NoFile}]
    /\ installFaults \in Nat

(* Processes that run have ids of their own, and with them names of their own. *)
ProcessesDiffer ==
    /\ \A i \in Installers : installers[i].pid = 0 <=> installers[i].at = "idle"
    /\ \A i, j \in Installers : i # j /\ installers[i].pid = installers[j].pid =>
                                    installers[i].pid = 0

AttemptsAreNumbered ==
    \A i \in Installers :
        /\ installers[i].sequence = installers[i].attempts
        /\ installers[i].at \in {"creating", "writing", "validating", "replacing", "dropping"} =>
               installers[i].attempts < MaxAttempts

(* Who works on a candidate has one, in the state it is supposed to be in. *)
CandidatesAreThere ==
    \A i \in Working :
        /\ candidates[NameOf(i)] # NoFile
        /\ installers[i].at = "replacing" => candidates[NameOf(i)] = "validated"

CandidatesAreCounted ==
    /\ IsFiniteSet(CandidateFiles) /\ IsFiniteSet(Working)
    /\ Cardinality(CandidateFiles) <= Cardinality(Working) + installFaults

InstallInv ==
    /\ InstallTyped /\ ProcessesDiffer /\ AttemptsAreNumbered /\ CandidatesAreThere
    /\ CandidatesAreCounted /\ ConfigIsAlwaysWhole

(* Installers that work have different names, and these are names the model has. *)
LEMMA NamesDiffer ==
    ASSUME InstallInv
    PROVE  /\ \A i \in Working : NameOf(i) \in Names
           /\ \A i \in Installers : installers[i].at = "creating" => NameOf(i) \in Names
           /\ \A i, j \in Working : i # j => NameOf(i) # NameOf(j)
           /\ \A i \in Installers, j \in Working :
                  i # j /\ installers[i].at = "creating" => NameOf(i) # NameOf(j)
<1>1. ASSUME NEW i \in Installers,
             installers[i].at \in {"creating", "writing", "validating", "replacing", "dropping"}
      PROVE  installers[i].pid \in Pids /\ installers[i].sequence \in 0..MaxSequence
  BY <1>1, InstallAssumption
     DEF InstallInv, InstallTyped, Installer, ProcessesDiffer, AttemptsAreNumbered
<1>2. ASSUME NEW i \in Installers, NEW j \in Installers, i # j, NameOf(i) = NameOf(j)
      PROVE  installers[i].at = "idle"
  BY <1>2 DEF InstallInv, ProcessesDiffer, NameOf
<1> QED BY <1>1, <1>2 DEF Working, NameOf, Names

(* A step of one installer changes its own candidate's name only. *)
LEMMA InstallerStepFacts ==
    ASSUME InstallInv, NEW i \in Installers, NEW new,
           installers' = [installers EXCEPT ![i] = new]
    PROVE  /\ installers'[i] = new /\ \A j \in Installers \ {i} : installers'[j] = installers[j]
           /\ NameOf(i)' = <<new.pid, new.sequence>>
           /\ \A j \in Installers \ {i} : NameOf(j)' = NameOf(j)
BY DEF InstallInv, InstallTyped, NameOf

(* What is asked of the new state of an installer by itself. *)
WellFormed(i, new) ==
    /\ new \in Installer /\ new.sequence = new.attempts
    /\ new.pid = 0 <=> new.at = "idle"
    /\ \/ new.pid \in {0, installers[i].pid}
       \/ \A j \in Installers : new.pid # installers[j].pid
    /\ new.at \in {"creating", "writing", "validating", "replacing", "dropping"} =>
           new.attempts < MaxAttempts

(* An installer that stays well-formed keeps processes apart and names in sequence. *)
LEMMA WellFormedKeeps ==
    ASSUME InstallInv, NEW i \in Installers, NEW new, WellFormed(i, new),
           installers' = [installers EXCEPT ![i] = new]
    PROVE  /\ installers' \in [Installers -> Installer]
           /\ ProcessesDiffer' /\ AttemptsAreNumbered'
<1>1. installers'[i] = new /\ \A j \in Installers \ {i} : installers'[j] = installers[j]
  BY InstallerStepFacts
<1>2. installers' \in [Installers -> Installer]
  BY DEF InstallInv, InstallTyped, WellFormed
<1>3. ProcessesDiffer'
  BY <1>1 DEF InstallInv, ProcessesDiffer, WellFormed
<1>4. AttemptsAreNumbered'
  BY <1>1 DEF InstallInv, AttemptsAreNumbered, WellFormed
<1> QED BY <1>2, <1>3, <1>4

(* An installer goes on without touching the files, is killed, or cannot remove its own. *)
LEMMA GoesOnKeeps ==
    ASSUME InstallInv, NEW i \in Installers, NEW new, WellFormed(i, new),
           installers' = [installers EXCEPT ![i] = new],
           UNCHANGED <<candidates, configFile>>,
           \/ installFaults' = installFaults /\ (i \in Working <=> i \in Working')
           \/ installFaults' = installFaults + 1 /\ i \notin Working',
           i \in Working' => /\ <<new.pid, new.sequence>> = NameOf(i)
                             /\ new.at = "replacing" => installers[i].at = "replacing"
    PROVE  InstallInv'
<1>1. /\ installers'[i] = new /\ \A j \in Installers \ {i} : installers'[j] = installers[j]
      /\ NameOf(i)' = <<new.pid, new.sequence>>
      /\ \A j \in Installers \ {i} : NameOf(j)' = NameOf(j)
  BY InstallerStepFacts
<1>2. installers' \in [Installers -> Installer] /\ ProcessesDiffer' /\ AttemptsAreNumbered'
  BY WellFormedKeeps
<1>3. InstallTyped' /\ ConfigIsAlwaysWhole'
  BY <1>2 DEF InstallInv, InstallTyped, ConfigIsAlwaysWhole
<1>4. CandidateFiles' = CandidateFiles /\ Working' \in {Working, Working \ {i}}
  BY <1>1 DEF CandidateFiles, Working
<1>5. CandidatesAreThere'
  <2>1. i \in Working' => i \in Working
    OBVIOUS
  <2>2. \A j \in Working' \ {i} : j \in Working /\ installers'[j] = installers[j]
    BY <1>1 DEF Working
  <2>3. ASSUME NEW j \in Working' PROVE j \in Working /\ NameOf(j)' = NameOf(j)
    BY <1>1, <2>1, <2>2 DEF Working
  <2>4. ASSUME NEW j \in Working', installers'[j].at = "replacing"
        PROVE  installers[j].at = "replacing"
    BY <1>1, <2>2, <2>4
  <2> QED BY <2>3, <2>4 DEF InstallInv, CandidatesAreThere
<1>6. CandidatesAreCounted'
  <2>1. /\ IsFiniteSet(Working) /\ IsFiniteSet(CandidateFiles) /\ installFaults \in Nat
        /\ Cardinality(CandidateFiles) <= Cardinality(Working) + installFaults
    BY DEF InstallInv, InstallTyped, CandidatesAreCounted
  <2>2. /\ IsFiniteSet(Working \ {i}) /\ Cardinality(Working) \in Nat
        /\ Cardinality(CandidateFiles) \in Nat
        /\ Cardinality(Working \ {i}) = IF i \in Working THEN Cardinality(Working) - 1
                                        ELSE Cardinality(Working)
    BY <2>1, FS_RemoveElement, FS_CardinalityType
  <2>3. CASE installFaults' = installFaults /\ (i \in Working <=> i \in Working')
    <3>1. Working' = Working
      BY <1>4, <2>3
    <3> QED BY <1>4, <2>1, <2>3, <3>1 DEF CandidatesAreCounted
  <2>4. CASE installFaults' = installFaults + 1
    <3>1. Cardinality(Working') >= Cardinality(Working) - 1 /\ IsFiniteSet(Working')
      <4>1. CASE Working' = Working
        BY <2>1, <2>2, <4>1
      <4>2. CASE Working' = Working \ {i}
        BY <2>1, <2>2, <4>2
      <4> QED BY <1>4, <4>1, <4>2
    <3>2. Cardinality(Working') \in Nat
      BY <3>1, FS_CardinalityType
    <3>3. IsFiniteSet(CandidateFiles') /\ Cardinality(CandidateFiles') = Cardinality(CandidateFiles)
      BY <1>4, <2>1
    <3>4. Cardinality(CandidateFiles') <= Cardinality(Working') + installFaults'
      BY <2>1, <2>2, <2>4, <3>1, <3>2, <3>3
    <3> QED BY <3>1, <3>3, <3>4 DEF CandidatesAreCounted
  <2> QED BY <2>3, <2>4
<1> QED BY <1>2, <1>3, <1>5, <1>6 DEF InstallInv

(* An installer makes, fills or removes its candidate. *)
LEMMA TouchesKeep ==
    ASSUME InstallInv, NEW i \in Installers, NEW new, NEW state \in FileState \cup {NoFile},
           WellFormed(i, new), installers[i].at = "creating" \/ i \in Working,
           installers' = [installers EXCEPT ![i] = new], Candidate(i, state),
           new.pid = installers[i].pid /\ new.sequence = installers[i].sequence,
           configFile' \in {configFile, "validated"}, UNCHANGED installFaults,
           candidates[NameOf(i)] # NoFile <=> i \in Working,
           state # NoFile <=> i \in Working',
           new.at = "replacing" => state = "validated"
    PROVE  InstallInv'
<1> DEFINE name == NameOf(i)
<1>1. /\ installers'[i] = new /\ \A j \in Installers \ {i} : installers'[j] = installers[j]
      /\ \A j \in Installers : NameOf(j)' = NameOf(j)
  <2>1. /\ installers'[i] = new /\ \A j \in Installers \ {i} : installers'[j] = installers[j]
        /\ NameOf(i)' = <<new.pid, new.sequence>>
        /\ \A j \in Installers \ {i} : NameOf(j)' = NameOf(j)
    BY InstallerStepFacts
  <2>2. NameOf(i) = <<new.pid, new.sequence>>
    BY DEF NameOf
  <2> QED BY <2>1, <2>2
<1>2. installers' \in [Installers -> Installer] /\ ProcessesDiffer' /\ AttemptsAreNumbered'
  BY WellFormedKeeps
<1>3. name \in Names /\ \A j \in Working \ {i} : NameOf(j) # name
  BY NamesDiffer DEF Working
<1>4. candidates' = [candidates EXCEPT ![name] = state]
  BY DEF Candidate
<1> HIDE DEF name
<1>5. /\ candidates' \in [Names -> FileState \cup {NoFile}] /\ candidates'[name] = state
      /\ \A n \in Names \ {name} : candidates'[n] = candidates[n]
  BY <1>3, <1>4 DEF InstallInv, InstallTyped
<1>6. InstallTyped' /\ ConfigIsAlwaysWhole'
  BY <1>2, <1>5 DEF InstallInv, InstallTyped, ConfigIsAlwaysWhole
<1>7. /\ CandidateFiles' = IF state # NoFile THEN CandidateFiles \cup {name}
                           ELSE CandidateFiles \ {name}
      /\ Working' = IF state # NoFile THEN Working \cup {i} ELSE Working \ {i}
      /\ name \in CandidateFiles <=> i \in Working
  BY <1>1, <1>3, <1>5 DEF CandidateFiles, Working, name
<1>8. CandidatesAreThere'
  <2> SUFFICES ASSUME NEW j \in Working'
               PROVE  /\ candidates'[NameOf(j)'] # NoFile
                      /\ installers'[j].at = "replacing" => candidates'[NameOf(j)'] = "validated"
    BY DEF CandidatesAreThere
  <2>1. CASE j = i
    BY <1>1, <1>5, <1>7, <2>1 DEF name
  <2>2. CASE j # i
    <3>1. j \in Working /\ installers'[j] = installers[j] /\ NameOf(j)' = NameOf(j)
      BY <1>1, <2>2 DEF Working
    <3>2. NameOf(j) \in Names \ {name}
      BY <1>3, <2>2, <3>1, NamesDiffer
    <3> QED BY <1>5, <3>1, <3>2 DEF InstallInv, CandidatesAreThere
  <2> QED BY <2>1, <2>2
<1>9. CandidatesAreCounted'
  <2>1. /\ IsFiniteSet(Working) /\ IsFiniteSet(CandidateFiles) /\ installFaults \in Nat
        /\ Cardinality(CandidateFiles) <= Cardinality(Working) + installFaults
    BY DEF InstallInv, InstallTyped, CandidatesAreCounted
  <2>2. Cardinality(Working) \in Nat /\ Cardinality(CandidateFiles) \in Nat
    BY <2>1, FS_CardinalityType
  <2>3. CASE state # NoFile
    <3>1. /\ IsFiniteSet(Working \cup {i}) /\ IsFiniteSet(CandidateFiles \cup {name})
          /\ Cardinality(Working \cup {i}) =
                IF i \in Working THEN Cardinality(Working) ELSE Cardinality(Working) + 1
          /\ Cardinality(CandidateFiles \cup {name}) =
                IF name \in CandidateFiles THEN Cardinality(CandidateFiles)
                ELSE Cardinality(CandidateFiles) + 1
      BY <2>1, FS_AddElement
    <3>2. Cardinality(CandidateFiles \cup {name}) <= Cardinality(Working \cup {i}) + installFaults
      BY <1>7, <2>1, <2>2, <3>1
    <3> QED BY <1>7, <2>3, <3>1, <3>2 DEF CandidatesAreCounted
  <2>4. CASE state = NoFile
    <3>1. /\ IsFiniteSet(Working \ {i}) /\ IsFiniteSet(CandidateFiles \ {name})
          /\ Cardinality(Working \ {i}) =
                IF i \in Working THEN Cardinality(Working) - 1 ELSE Cardinality(Working)
          /\ Cardinality(CandidateFiles \ {name}) =
                IF name \in CandidateFiles THEN Cardinality(CandidateFiles) - 1
                ELSE Cardinality(CandidateFiles)
      BY <2>1, FS_RemoveElement
    <3>2. Cardinality(CandidateFiles \ {name}) <= Cardinality(Working \ {i}) + installFaults
      BY <1>7, <2>1, <2>2, <3>1
    <3> QED BY <1>7, <2>4, <3>1, <3>2 DEF CandidatesAreCounted
  <2> QED BY <2>3, <2>4
<1> QED BY <1>2, <1>6, <1>8, <1>9 DEF InstallInv

(* Every step of an installer keeps the invariant. *)
LEMMA InstallerSteps ==
    ASSUME InstallInv, NEW i \in Installers,
           \/ ReadConfig(i) \/ CreateCandidate(i) \/ WriteCandidate(i) \/ ValidateCandidate(i)
           \/ ReplaceConfig(i) \/ DropCandidate(i) \/ InstallerCrashes(i) \/ InstallerEnds(i)
    PROVE  InstallInv'
<1> DEFINE old == installers[i]
           at(label) == [installers[i] EXCEPT !.at = label]
<1>1. /\ old \in Installer /\ old.sequence = old.attempts
      /\ old.pid = 0 <=> old.at = "idle"
      /\ old.at \in {"creating", "writing", "validating", "replacing", "dropping"} =>
             old.attempts < MaxAttempts
  BY DEF InstallInv, InstallTyped, ProcessesDiffer, AttemptsAreNumbered
<1>2. \A label : InstallGoes(i, label) <=> installers' = [installers EXCEPT ![i] = at(label)]
  BY DEF InstallGoes
<1>3. ASSUME NEW label \in {"creating", "writing", "validating", "replacing", "dropping", "done",
                            "failed"}, old.at \notin {"idle", "done", "failed"}
      PROVE  /\ WellFormed(i, at(label)) /\ at(label).at = label
             /\ at(label).pid = old.pid /\ at(label).sequence = old.sequence
  BY <1>1, <1>3 DEF WellFormed, Installer
<1>4. \A new : installers' = [installers EXCEPT ![i] = new] =>
          installers'[i] = new
  BY DEF InstallInv, InstallTyped
<1>5. /\ WellFormed(i, Idle) /\ Idle.at = "idle"
  BY InstallAssumption DEF WellFormed, Idle, Installer
<1> HIDE DEF at
<1>6. ASSUME NEW label \in {"dropping", "failed"},
             old.at \in {"creating", "writing", "validating", "replacing", "dropping"},
             InstallGoes(i, label), UNCHANGED <<candidates, configFile, installFaults>>,
             old.at = "creating" <=> label = "failed"
      PROVE  InstallInv'
  <2> DEFINE new == at(label)
  <2>1. /\ installers' = [installers EXCEPT ![i] = new] /\ WellFormed(i, new) /\ new.at = label
        /\ new.pid = old.pid /\ new.sequence = old.sequence
    BY <1>2, <1>3, <1>6
  <2>2. i \in Working <=> i \in Working'
    BY <1>4, <1>6, <2>1 DEF Working
  <2>3. <<new.pid, new.sequence>> = NameOf(i)
    BY <2>1 DEF NameOf
  <2> HIDE DEF new
  <2> QED BY <1>6, <2>1, <2>2, <2>3, GoesOnKeeps
<1>7. ASSUME NEW label \in {"writing", "validating", "replacing", "done", "failed"},
             old.at \in {"creating", "writing", "validating", "replacing", "dropping"},
             NEW state \in FileState \cup {NoFile},
             InstallGoes(i, label), Candidate(i, state),
             configFile' \in {configFile, "validated"}, UNCHANGED installFaults,
             old.at = "creating" => candidates[NameOf(i)] = NoFile,
             state # NoFile <=> label \in {"writing", "validating", "replacing"},
             label = "replacing" => state = "validated"
      PROVE  InstallInv'
  <2> DEFINE new == at(label)
  <2>1. /\ installers' = [installers EXCEPT ![i] = new] /\ WellFormed(i, new) /\ new.at = label
        /\ new.pid = old.pid /\ new.sequence = old.sequence
    BY <1>2, <1>3, <1>7
  <2>2. i \in Working' <=> state # NoFile
    BY <1>4, <1>7, <2>1 DEF Working
  <2>3. i \in Working <=> old.at # "creating"
    BY <1>7 DEF Working
  <2>4. candidates[NameOf(i)] # NoFile <=> i \in Working
    BY <1>7, <2>3 DEF InstallInv, CandidatesAreThere
  <2> HIDE DEF new
  <2> QED BY <1>7, <2>1, <2>2, <2>3, <2>4, TouchesKeep
<1>15. ASSUME old.at \in {"writing", "dropping"}, InstallGoes(i, "failed"), RemoveCandidate(i),
              UNCHANGED configFile
       PROVE  InstallInv'
  <2> DEFINE new == at("failed")
  <2>1. CASE Candidate(i, NoFile) /\ UNCHANGED installFaults
    BY <1>7, <1>15, <2>1
  <2>2. CASE installFaults' = installFaults + 1 /\ UNCHANGED candidates
    <3>1. /\ installers' = [installers EXCEPT ![i] = new] /\ WellFormed(i, new)
          /\ new.at = "failed"
      BY <1>2, <1>3, <1>15
    <3>2. i \notin Working'
      BY <1>4, <3>1 DEF Working
    <3> HIDE DEF new
    <3> QED BY <1>15, <2>2, <3>1, <3>2, GoesOnKeeps
  <2> QED BY <1>15, <2>1, <2>2 DEF RemoveCandidate
<1>8. CASE ReadConfig(i)
  <2>1. PICK pid \in Pids \ {installers[j].pid : j \in Installers}, label \in {"creating", "failed"} :
            installers' = [installers EXCEPT ![i] = [Idle EXCEPT !.pid = pid, !.at = label]]
    BY <1>8 DEF ReadConfig
  <2>2. old.at = "idle" /\ UNCHANGED <<configFile, candidates, installFaults>>
    BY <1>8 DEF ReadConfig
  <2> DEFINE new == [Idle EXCEPT !.pid = pid, !.at = label]
  <2>3. 0 \in 0..MaxSequence + 1 /\ 0 \in 0..MaxAttempts /\ 0 < MaxAttempts
    BY InstallAssumption
  <2>4. new.at = label /\ WellFormed(i, new)
    <3>1. pid \in Pids /\ 0 \notin Pids /\ \A j \in Installers : pid # installers[j].pid
      BY InstallAssumption
    <3>2. /\ new.at = label /\ new.pid = pid /\ new.sequence = 0 /\ new.attempts = 0
          /\ new \in Installer
      BY <2>3, <3>1 DEF Idle, Installer
    <3> HIDE DEF new
    <3> QED BY <2>3, <3>1, <3>2 DEF WellFormed
  <2>5. i \notin Working /\ i \notin Working'
    BY <1>4, <2>1, <2>2, <2>4 DEF Working, new
  <2> QED BY <2>1, <2>2, <2>4, <2>5, GoesOnKeeps DEF new
<1>9. CASE CreateCandidate(i)
  <2>1. old.at = "creating" /\ UNCHANGED <<configFile, installFaults>>
    BY <1>9 DEF CreateCandidate
  <2>2. CASE /\ candidates[NameOf(i)] # NoFile /\ UNCHANGED candidates
             /\ installers' = [installers EXCEPT
                    ![i].sequence = @ + 1, ![i].attempts = @ + 1,
                    ![i].at = IF installers[i].attempts + 1 = MaxAttempts THEN "failed" ELSE @]
    <3> DEFINE new == [installers[i] EXCEPT
                          !.sequence = @ + 1, !.attempts = @ + 1,
                          !.at = IF installers[i].attempts + 1 = MaxAttempts THEN "failed" ELSE @]
    <3>1. installers' = [installers EXCEPT ![i] = new]
      BY <2>2 DEF InstallInv, InstallTyped
    <3>2. new.at \in {"failed", "creating"} /\ WellFormed(i, new)
      <4>1. /\ old.attempts + 1 \in 0..MaxAttempts /\ old.sequence + 1 \in 0..MaxSequence + 1
            /\ old.attempts + 1 # MaxAttempts => old.attempts + 1 < MaxAttempts
        BY <1>1, <2>1, InstallAssumption DEF Installer
      <4>2. /\ new.at = IF old.attempts + 1 = MaxAttempts THEN "failed" ELSE "creating"
            /\ new.pid = old.pid /\ new.sequence = old.sequence + 1
            /\ new.attempts = old.attempts + 1
        BY <1>1, <2>1 DEF Installer
      <4>3. new \in Installer
        BY <1>1, <4>1, <4>2 DEF Installer
      <4> HIDE DEF new
      <4> QED BY <1>1, <2>1, <4>1, <4>2, <4>3 DEF WellFormed
    <3> HIDE DEF new
    <3>3. i \notin Working /\ i \notin Working'
      BY <1>4, <2>1, <3>1, <3>2 DEF Working
    <3> QED BY <2>1, <2>2, <3>1, <3>2, <3>3, GoesOnKeeps
  <2>3. CASE /\ candidates[NameOf(i)] = NoFile
             /\ InstallGoes(i, "writing") /\ Candidate(i, "partial")
    <3>1. "partial" \in FileState \cup {NoFile} /\ "partial" # NoFile
      BY DEF FileState, NoFile
    <3> QED BY <1>7, <2>1, <2>3, <3>1
  <2>4. CASE InstallGoes(i, "failed") /\ UNCHANGED candidates
    <3>1. UNCHANGED <<candidates, configFile, installFaults>>
      BY <2>1, <2>4
    <3> QED BY <1>6, <2>1, <2>4, <3>1
  <2> QED BY <1>9, <2>2, <2>3, <2>4 DEF CreateCandidate
<1>10. CASE WriteCandidate(i)
  <2>1. old.at = "writing" /\ UNCHANGED configFile
    BY <1>10 DEF WriteCandidate
  <2>2. CASE InstallGoes(i, "validating") /\ Candidate(i, "written") /\ UNCHANGED installFaults
    BY <1>7, <2>1, <2>2 DEF FileState, NoFile
  <2>3. CASE InstallGoes(i, "failed") /\ RemoveCandidate(i)
    BY <1>15, <2>1, <2>3
  <2> QED BY <1>10, <2>2, <2>3 DEF WriteCandidate
<1>11. CASE ValidateCandidate(i)
  <2>1. old.at = "validating" /\ UNCHANGED <<configFile, installFaults>>
    BY <1>11 DEF ValidateCandidate
  <2>2. CASE InstallGoes(i, "replacing") /\ Candidate(i, "validated")
    BY <1>7, <2>1, <2>2 DEF FileState, NoFile
  <2>3. CASE InstallGoes(i, "dropping") /\ UNCHANGED candidates
    BY <1>6, <2>1, <2>3
  <2> QED BY <1>11, <2>2, <2>3 DEF ValidateCandidate
<1>12. CASE ReplaceConfig(i)
  <2>1. old.at = "replacing" /\ UNCHANGED installFaults
    BY <1>12 DEF ReplaceConfig
  <2>2. candidates[NameOf(i)] = "validated"
    BY <2>1 DEF InstallInv, CandidatesAreThere, Working
  <2>3. CASE /\ configFile' = candidates[NameOf(i)]
             /\ Candidate(i, NoFile) /\ InstallGoes(i, "done")
    BY <1>7, <2>1, <2>2, <2>3
  <2>4. CASE InstallGoes(i, "dropping") /\ UNCHANGED <<configFile, candidates>>
    BY <1>6, <2>1, <2>4
  <2> QED BY <1>12, <2>3, <2>4 DEF ReplaceConfig
<1>13. CASE DropCandidate(i)
  BY <1>13, <1>15 DEF DropCandidate
<1>14. CASE InstallerCrashes(i) \/ InstallerEnds(i)
  <2>1. installers' = [installers EXCEPT ![i] = Idle] /\ UNCHANGED <<configFile, candidates>>
    BY <1>14 DEF InstallerCrashes, InstallerEnds
  <2>2. i \notin Working'
    BY <1>4, <1>5, <2>1 DEF Working
  <2>3. \/ installFaults' = installFaults /\ i \notin Working
        \/ installFaults' = installFaults + 1
    BY <1>14 DEF InstallerCrashes, InstallerEnds, Working
  <2> QED BY <1>5, <2>1, <2>2, <2>3, GoesOnKeeps
<1> QED BY <1>8, <1>9, <1>10, <1>11, <1>12, <1>13, <1>14

(* The invariant of the installers holds in every behaviour. *)
LEMMA InstallInvariant == InstallSafety => []InstallInv
<1>1. InstallInit => InstallInv
  <2> SUFFICES ASSUME InstallInit PROVE InstallInv
    OBVIOUS
  <2>1. InstallTyped /\ ProcessesDiffer /\ AttemptsAreNumbered /\ ConfigIsAlwaysWhole
    <3>1. 0 \in 0..MaxSequence + 1 /\ 0 \in 0..MaxAttempts
      BY InstallAssumption
    <3> QED BY <3>1
            DEF InstallInit, InstallTyped, Installer, Idle, ProcessesDiffer, AttemptsAreNumbered,
                ConfigIsAlwaysWhole
  <2>2. Working = {} /\ CandidateFiles = {} /\ installFaults = 0
    BY DEF InstallInit, Idle, Working, CandidateFiles
  <2>3. CandidatesAreThere
    BY <2>2 DEF CandidatesAreThere
  <2>4. CandidatesAreCounted
    BY <2>2, FS_EmptySet DEF CandidatesAreCounted
  <2> QED BY <2>1, <2>3, <2>4 DEF InstallInv
<1>2. InstallInv /\ [InstallNext]_installVars => InstallInv'
  <2> SUFFICES ASSUME InstallInv, [InstallNext]_installVars PROVE InstallInv'
    OBVIOUS
  <2>1. CASE TakeDocument \/ UNCHANGED installVars
    <3>1. UNCHANGED <<installers, configFile, candidates, installFaults>>
      BY <2>1 DEF TakeDocument, installVars
    <3>2. Working' = Working /\ CandidateFiles' = CandidateFiles
      BY <3>1 DEF Working, CandidateFiles
    <3> QED BY <3>1, <3>2
            DEF InstallInv, InstallTyped, ProcessesDiffer, AttemptsAreNumbered,
                CandidatesAreThere, CandidatesAreCounted, ConfigIsAlwaysWhole, NameOf
  <2> QED BY <2>1, InstallerSteps DEF InstallNext
<1> QED BY <1>1, <1>2, PTL DEF InstallSafety

(* In every behaviour, whatever fails and whoever is killed, and with any number of installers in  *)
(* the same directory, config.yml is the user's or a candidate cloudflared has accepted            *)
(* (cloudflare_config.rs normalize_validate_and_replace).                                          *)
THEOREM ConfigStaysWhole == InstallSafety => []ConfigIsAlwaysWhole
BY InstallInvariant, PTL DEF InstallInv

(* In every behaviour there are no more candidate files than installers at work, processes that    *)
(* were killed and removals the system refused: process ids that come back meet names that are     *)
(* taken and pass over them (cloudflare_config.rs TempCandidate).                                  *)
THEOREM NoCandidateIsLeft == InstallSafety => []CandidatesAreRemoved
<1>1. InstallInv => CandidatesAreRemoved
  BY DEF InstallInv, CandidatesAreCounted, CandidateFiles, Working, CandidatesAreRemoved
<1> QED BY <1>1, InstallInvariant, PTL

------------------------------------------------------------------------------
(* Traffic. *)

(* A request goes to a route that was issued under its slug, and counts for it. *)
Agrees(request) ==
    request.target # NoTarget =>
        \E route \in Issued : /\ route.slug = request.slug
                              /\ route.port = request.target
                              /\ route.session = request.metrics

RequestState ==
    [at : {"idle", "routing", "waiting", "body", "bridge", "over"}, slug : Slugs \cup {NoSlug},
     upgrade : BOOLEAN, target : Ports \cup {NoTarget}, metrics : 0..MaxSession, answer : Answer]

(* The registry is consistent, and every request that has a target agrees with a route. *)
RouteInv ==
    /\ forwards \in Registry /\ Consistent(forwards) /\ sessions \in 0..MaxSession
    /\ requests \in [Requests -> RequestState]
    /\ \A r \in Requests :
          /\ Agrees(requests[r])
          /\ requests[r].at = "routing" => requests[r].slug \in Slugs
          /\ requests[r].at \in {"waiting", "body", "bridge"} => requests[r].target # NoTarget
    /\ ended \subseteq Route

(* The counters never fall, and a sampler's last totals are what they once were. *)
SampleInv ==
    /\ counters \in [Sessions -> [Direction -> Nat]]
    /\ samplers \in [Sessions -> [at : {"none", "running", "ended"}, from : [Direction -> Nat],
                                  sum : [Direction -> Nat], totals : [Direction -> Nat]]]
    /\ \A n \in Sessions, direction \in Direction :
          /\ samplers[n].totals[direction] <= counters[n][direction]
          /\ samplers[n].from[direction] + samplers[n].sum[direction] =
                 samplers[n].totals[direction]

(* A route stays issued when another is registered and when its session goes. *)
LEMMA IssuedStays ==
    ASSUME RouteInv, OwnerRegisters \/ OwnerLeaves
    PROVE  /\ Issued \subseteq Issued' /\ forwards' \in Registry /\ Consistent(forwards)'
           /\ ended' \subseteq Route /\ sessions' \in 0..MaxSession
<1>1. CASE OwnerRegisters
  <2>1. PICK port \in Ports, wanted \in Slugs \cup {NoSlug} :
            \E slug \in SlugChoices(forwards, port, wanted) :
                forwards' = AddRoute(forwards, [slug |-> slug, port |-> port, session |-> sessions + 1])
    BY <1>1 DEF OwnerRegisters
  <2>2. PICK slug \in SlugChoices(forwards, port, wanted) :
            forwards' = AddRoute(forwards, [slug |-> slug, port |-> port, session |-> sessions + 1])
    BY <2>1
  <2> DEFINE route == [slug |-> slug, port |-> port, session |-> sessions + 1]
  <2>3. sessions + 1 \in Sessions /\ sessions' \in 0..MaxSession /\ UNCHANGED ended
    BY <1>1, MaxSessionAssumption DEF OwnerRegisters, RouteInv, Sessions
  <2>4. /\ slug \in Slugs /\ forwards.bySlug[slug] = NoRoute
        /\ forwards.slugByPort[port] = NoSlug
    BY SlugChoicesAreFree DEF RouteInv
  <2>5. route \in Route /\ route.slug = slug /\ route.port = port
    BY <2>3, <2>4 DEF Route
  <2> HIDE DEF route
  <2>6. forwards' \in Registry /\ Consistent(forwards')
    BY <2>2, <2>4, <2>5, AddRouteType, AddRouteConsistent DEF RouteInv, route
  <2>7. forwards'.bySlug = [forwards.bySlug EXCEPT ![slug] = route]
    BY <2>2, <2>5 DEF AddRoute, route
  <2>8. \A s \in Slugs : forwards.bySlug[s] # NoRoute => forwards'.bySlug[s] = forwards.bySlug[s]
    BY <2>4, <2>7 DEF RouteInv, Registry
  <2>9. Routes(forwards) \subseteq Routes(forwards')
    BY <2>8 DEF Routes
  <2> QED BY <2>3, <2>6, <2>9 DEF Issued, RouteInv
<1>2. CASE OwnerLeaves
  <2>1. PICK n \in Sessions :
            /\ forwards' = RemoveSession(forwards, n)
            /\ ended' = ended \cup {route \in Routes(forwards) : route.session = n}
    BY <1>2 DEF OwnerLeaves
  <2>2. forwards' \in Registry /\ Consistent(forwards')
    BY <2>1, RemoveSessionType, RemoveSessionConsistent DEF RouteInv
  <2>3. \A s \in Slugs : forwards.bySlug[s] # NoRoute =>
            forwards.bySlug[s].session = n \/ forwards'.bySlug[s] = forwards.bySlug[s]
    BY <2>1 DEF RemoveSession, RouteInv, Consistent, SessionIndexAgrees
  <2>4. Routes(forwards) \subseteq Routes(forwards') \cup ended'
    BY <2>1, <2>3 DEF Routes
  <2>5. Routes(forwards) \subseteq Route
    BY DEF Routes, RouteInv, Registry
  <2> QED BY <1>2, <2>1, <2>2, <2>4, <2>5 DEF Issued, RouteInv, OwnerLeaves
<1> QED BY <1>1, <1>2

(* The invariant is inductive: a session that has ended keeps its entry in `ended`. *)
LEMMA RouteInvNext == RouteInv /\ [TrafficNext]_trafficVars => RouteInv'
<1> SUFFICES ASSUME RouteInv, [TrafficNext]_trafficVars PROVE RouteInv'
  OBVIOUS
<1>1. CASE OwnerRegisters \/ OwnerLeaves
  <2>1. /\ Issued \subseteq Issued' /\ forwards' \in Registry /\ Consistent(forwards)'
        /\ ended' \subseteq Route /\ sessions' \in 0..MaxSession
    BY <1>1, IssuedStays
  <2>2. UNCHANGED requests
    BY <1>1 DEF OwnerRegisters, OwnerLeaves
  <2>3. \A r \in Requests : Agrees(requests[r]) => Agrees(requests[r])'
    BY <2>1, <2>2 DEF Agrees
  <2> QED BY <2>1, <2>2, <2>3 DEF RouteInv
<1>2. ASSUME UNCHANGED <<forwards, sessions, ended>>, NEW r \in Requests,
             NEW new \in RequestState, Step(r, new), Agrees(new),
             new.at = "routing" => new.slug \in Slugs,
             new.at \in {"waiting", "body", "bridge"} => new.target # NoTarget
      PROVE  RouteInv'
  <2>1. /\ requests'[r] = new /\ \A q \in Requests \ {r} : requests'[q] = requests[q]
        /\ requests' \in [Requests -> RequestState]
    BY <1>2 DEF Step, RouteInv
  <2>2. Issued' = Issued
    BY <1>2 DEF Issued
  <2>3. \A q \in Requests : Agrees(requests'[q])
    BY <1>2, <2>1 DEF RouteInv
  <2>4. \A q \in Requests : Agrees(requests[q])'
    BY <2>2, <2>3 DEF Agrees
  <2> QED BY <1>2, <2>1, <2>4 DEF RouteInv
<1>3. CASE UNCHANGED <<forwards, sessions, requests, ended>>
  BY <1>3 DEF RouteInv, Agrees, Issued
<1>4. ASSUME NEW r \in Requests,
             NEW new \in [at : {"waiting", "body", "bridge", "over"}, answer : Answer],
             Step(r, [requests[r] EXCEPT !.at = new.at, !.answer = new.answer]),
             new.at = "over" \/ requests[r].at = "waiting",
             UNCHANGED <<forwards, sessions, ended>>
      PROVE  RouteInv'
  <2> DEFINE next == [requests[r] EXCEPT !.at = new.at, !.answer = new.answer]
  <2>1. /\ next \in RequestState /\ next.at = new.at /\ next.slug = requests[r].slug
        /\ next.target = requests[r].target /\ next.metrics = requests[r].metrics
    BY DEF RouteInv, RequestState
  <2>2. Step(r, next)
    BY <1>4
  <2> HIDE DEF next
  <2>3. next.at \in {"waiting", "body", "bridge"} => next.target # NoTarget
    BY <1>4, <2>1 DEF RouteInv
  <2>4. Agrees(next) /\ next.at # "routing"
    BY <2>1 DEF RouteInv, Agrees
  <2> QED BY <1>2, <1>4, <2>1, <2>2, <2>3, <2>4
<1>5. ASSUME NEW r \in Requests, NEW answer \in Answer, Answers(r, answer),
             UNCHANGED <<forwards, sessions, ended>>
      PROVE  RouteInv'
  <2>1. [at |-> "over", answer |-> answer] \in
            [at : {"waiting", "body", "bridge", "over"}, answer : Answer]
    OBVIOUS
  <2> QED BY <1>4, <1>5, <2>1 DEF Answers
<1>6. ASSUME NEW r \in Requests, Arrive(r) \/ NextRequest(r) PROVE RouteInv'
  <2>1. UNCHANGED <<forwards, sessions, ended>>
    BY <1>6 DEF Arrive, NextRequest, OnlyRequests
  <2>2. CASE NextRequest(r)
    <3>1. /\ Unrouted \in RequestState /\ Unrouted.at = "idle" /\ Unrouted.target = NoTarget
      BY MaxSessionAssumption DEF Unrouted, RequestState, Answer, NoSession
    <3> QED BY <1>2, <2>1, <2>2, <3>1 DEF NextRequest, Agrees
  <2>3. ASSUME NEW slug \in Slugs, NEW upgrade \in BOOLEAN,
               Step(r, [Unrouted EXCEPT !.at = "routing", !.slug = slug, !.upgrade = upgrade])
        PROVE  RouteInv'
    <3> DEFINE new == [Unrouted EXCEPT !.at = "routing", !.slug = slug, !.upgrade = upgrade]
    <3>1. /\ new \in RequestState /\ new.slug = slug /\ new.target = NoTarget
          /\ new.at = "routing"
      <4>1. 0 \in 0..MaxSession
        BY MaxSessionAssumption
      <4> QED BY <4>1 DEF Unrouted, RequestState, Answer, NoSession
    <3>2. Step(r, new)
      BY <2>3
    <3> HIDE DEF new
    <3> QED BY <1>2, <2>1, <3>1, <3>2 DEF Agrees
  <2>4. CASE Answers(r, "400")
    BY <1>5, <2>1, <2>4 DEF Answer
  <2> QED BY <1>6, <2>2, <2>3, <2>4 DEF Arrive
<1>7. ASSUME NEW r \in Requests, RouteRequest(r) PROVE RouteInv'
  <2> DEFINE route == forwards.bySlug[requests[r].slug]
  <2>1. requests[r].slug \in Slugs /\ UNCHANGED <<forwards, sessions, ended>>
    BY <1>7 DEF RouteRequest, OnlyRequests, RouteInv
  <2>2. requests[r] \in RequestState
    BY DEF RouteInv
  <2>3. CASE Answers(r, "404")
    BY <1>5, <2>1, <2>3 DEF Answer
  <2>4. CASE /\ route # NoRoute
             /\ Step(r, [requests[r] EXCEPT !.at = "waiting", !.target = route.port,
                                            !.metrics = route.session])
    <3> DEFINE new == [requests[r] EXCEPT !.at = "waiting", !.target = route.port,
                                          !.metrics = route.session]
    <3>1. /\ route \in Routes(forwards) /\ route \in Route /\ route.slug = requests[r].slug
      BY <2>1, <2>4 DEF RouteInv, Registry, Routes, Consistent, SlugIndexAgrees
    <3>2. route.port \in Ports /\ route.session \in 0..MaxSession
      BY <3>1, MaxSessionAssumption DEF Route, Sessions
    <3>5. Step(r, new)
      BY <2>4
    <3> HIDE DEF route
    <3>3. /\ new \in RequestState /\ new.at = "waiting" /\ new.target = route.port
          /\ new.metrics = route.session /\ new.slug = requests[r].slug
      BY <2>2, <3>2 DEF RequestState
    <3> HIDE DEF new
    <3>4. Agrees(new)
      BY <3>1, <3>3 DEF Agrees, Issued
    <3>6. new.target # NoTarget
      BY <3>2, <3>3, TargetAssumption
    <3> QED BY <1>2, <2>1, <3>3, <3>4, <3>5, <3>6
  <2> QED BY <1>7, <2>3, <2>4 DEF RouteRequest, LookUp
<1>8. ASSUME NEW r \in Requests, UpstreamResponds(r) \/ BodyEnds(r) PROVE RouteInv'
  <2>1. UNCHANGED <<forwards, sessions, ended>>
    BY <1>8 DEF UpstreamResponds, BodyEnds, OnlyRequests
  <2>2. CASE UpstreamResponds(r)
    <3>1. PICK at \in {"bridge", "body"}, answer \in {"switching", "upstream"} :
              Step(r, [requests[r] EXCEPT !.at = at, !.answer = answer])
      BY <2>2 DEF UpstreamResponds
    <3>2. [at |-> at, answer |-> answer] \in
              [at : {"waiting", "body", "bridge", "over"}, answer : Answer]
      BY DEF Answer
    <3>3. requests[r].at = "waiting"
      BY <2>2 DEF UpstreamResponds
    <3> QED BY <1>4, <2>1, <3>1, <3>2, <3>3
  <2>3. CASE BodyEnds(r)
    <3>1. /\ requests[r] \in RequestState
          /\ [requests[r] EXCEPT !.at = "over"] =
                 [requests[r] EXCEPT !.at = "over", !.answer = requests[r].answer]
          /\ [at |-> "over", answer |-> requests[r].answer] \in
                 [at : {"waiting", "body", "bridge", "over"}, answer : Answer]
      BY DEF RouteInv, RequestState
    <3> QED BY <1>4, <2>1, <2>3, <3>1 DEF BodyEnds
  <2> QED BY <1>8, <2>2, <2>3
<1>9. ASSUME NEW r \in Requests,
             RewriteFails(r) \/ UpstreamRefuses(r) \/ HeaderTimeout(r) \/ ClientGone(r)
      PROVE  RouteInv'
  <2>1. UNCHANGED <<forwards, sessions, ended>>
    BY <1>9 DEF RewriteFails, UpstreamRefuses, HeaderTimeout, ClientGone, OnlyRequests
  <2>2. PICK answer \in {"500", "502", "504", "dropped"} : Answers(r, answer)
    BY <1>9 DEF RewriteFails, UpstreamRefuses, HeaderTimeout, ClientGone
  <2> QED BY <1>5, <2>1, <2>2 DEF Answer
<1>10. CASE ProxyStops \/ \E r \in Requests, direction \in Direction : Carry(r, direction)
  BY <1>3, <1>10 DEF ProxyStops, Carry, OnlyRequests
<1>11. CASE \E n \in Sessions : StartSampler(n) \/ Tick(n) \/ SamplerLosesOwner(n)
  BY <1>3, <1>11 DEF StartSampler, Tick, SamplerLosesOwner
<1>12. CASE UNCHANGED trafficVars
  BY <1>3, <1>12 DEF trafficVars
<1> QED BY <1>1, <1>6, <1>7, <1>8, <1>9, <1>10, <1>11, <1>12 DEF TrafficNext, ForwardStep

(* The invariant holds before anybody has registered. *)
LEMMA RouteInvStarts == TrafficInit => RouteInv
<1> SUFFICES ASSUME TrafficInit PROVE RouteInv
  OBVIOUS
<1>1. /\ Unrouted \in RequestState /\ Unrouted.at = "idle" /\ Unrouted.target = NoTarget
  BY MaxSessionAssumption DEF Unrouted, RequestState, Answer, NoSession
<1> QED BY <1>1, EmptyRegistryConsistent, MaxSessionAssumption DEF TrafficInit, RouteInv, Agrees

(* In every behaviour a request goes to the port of the route whose owner it counts for, whoever   *)
(* registers and leaves between its lookup and its end, and whatever becomes of its slug           *)
(* (proxy/mod.rs RegistryLookup).                                                                  *)
THEOREM RequestsCountForTheirRoute == TrafficSafety => []TargetAndMetricsAgree
<1>1. RouteInv => TargetAndMetricsAgree
  BY DEF RouteInv, Agrees, TargetAndMetricsAgree
<1> QED BY <1>1, RouteInvStarts, RouteInvNext, PTL DEF TrafficSafety

(* A counter that is added to never decreases, at its limit either. *)
LEMMA CountsOnlyGrow ==
    ASSUME SampleInv, NEW r \in Requests, NEW direction \in Direction, Count(r, direction)
    PROVE  /\ counters' \in [Sessions -> [Direction -> Nat]]
           /\ \A n \in Sessions, d \in Direction : counters[n][d] <= counters'[n][d]
<1> DEFINE n == requests[r].metrics
<1>1. counters' = [counters EXCEPT ![n][direction] = SaturatingAdd(@)]
  BY DEF Count
<1>2. counters \in [Sessions -> [Direction -> Nat]]
  BY DEF SampleInv
<1> HIDE DEF n
<1>3. CASE n \in Sessions
  <2>1. SaturatingAdd(counters[n][direction]) \in Nat
        /\ counters[n][direction] <= SaturatingAdd(counters[n][direction])
    BY <1>2, <1>3 DEF SaturatingAdd
  <2>2. /\ counters'[n] = [counters[n] EXCEPT ![direction] = SaturatingAdd(counters[n][direction])]
        /\ \A m \in Sessions \ {n} : counters'[m] = counters[m]
        /\ DOMAIN counters' = Sessions
    BY <1>1, <1>2, <1>3
  <2>3. counters'[n] \in [Direction -> Nat]
    BY <1>2, <1>3, <2>1, <2>2
  <2>4. \A m \in Sessions : counters'[m] \in [Direction -> Nat]
    BY <1>2, <2>2, <2>3
  <2>5. counters' \in [Sessions -> [Direction -> Nat]]
    BY <1>1, <1>2, <2>1
  <2> QED BY <1>2, <1>3, <2>1, <2>2, <2>5
<1>4. CASE n \notin Sessions
  <2>1. counters' = counters
    BY <1>1, <1>2, <1>4
  <2>2. \A m \in Sessions, d \in Direction : counters[m][d] \in Nat
    BY <1>2
  <2> QED BY <1>2, <2>1, <2>2
<1> QED BY <1>3, <1>4

(* The invariant holds in every behaviour. *)
LEMMA SampleInvariant == TrafficSafety => []SampleInv
<1>1. TrafficInit => SampleInv
  BY DEF TrafficInit, SampleInv, ZeroCount
<1>2. SampleInv /\ [TrafficNext]_trafficVars => SampleInv'
  <2> SUFFICES ASSUME SampleInv, [TrafficNext]_trafficVars PROVE SampleInv'
    OBVIOUS
  <2>1. CASE UNCHANGED <<counters, samplers>>
    BY <2>1 DEF SampleInv
  <2>2. ASSUME NEW r \in Requests, NEW direction \in Direction, Carry(r, direction)
        PROVE  SampleInv'
    <3>1. /\ counters' \in [Sessions -> [Direction -> Nat]] /\ UNCHANGED samplers
          /\ \A n \in Sessions, d \in Direction : counters[n][d] <= counters'[n][d]
      BY <2>2, CountsOnlyGrow DEF Carry, OnlyRequests
    <3>2. \A n \in Sessions, d \in Direction :
              samplers[n].totals[d] \in Nat /\ counters[n][d] \in Nat /\ counters'[n][d] \in Nat
      BY <3>1 DEF SampleInv
    <3> QED BY <3>1, <3>2 DEF SampleInv
  <2>3. ASSUME NEW n \in Sessions, NEW new \in [at : {"none", "running", "ended"},
                   from : [Direction -> Nat], sum : [Direction -> Nat], totals : [Direction -> Nat]],
               samplers' = [samplers EXCEPT ![n] = new], UNCHANGED counters,
               \A d \in Direction : /\ new.totals[d] <= counters[n][d]
                                    /\ new.from[d] + new.sum[d] = new.totals[d]
        PROVE  SampleInv'
    BY <2>3 DEF SampleInv
  <2>4. ASSUME NEW n \in Sessions, StartSampler(n) PROVE SampleInv'
    <3> DEFINE new == [at |-> "running", from |-> counters[n], sum |-> ZeroCount,
                       totals |-> counters[n]]
    <3>1. counters[n] \in [Direction -> Nat] /\ ZeroCount \in [Direction -> Nat]
      BY DEF SampleInv, ZeroCount
    <3>2. /\ new \in [at : {"none", "running", "ended"}, from : [Direction -> Nat],
                     sum : [Direction -> Nat], totals : [Direction -> Nat]]
          /\ \A d \in Direction : /\ new.totals[d] <= counters[n][d]
                                  /\ new.from[d] + new.sum[d] = new.totals[d]
      BY <3>1 DEF ZeroCount
    <3>3. samplers' = [samplers EXCEPT ![n] = new] /\ UNCHANGED counters
      BY <2>4 DEF StartSampler
    <3> HIDE DEF new
    <3> QED BY <2>3, <3>2, <3>3
  <2>5. ASSUME NEW n \in Sessions, samplers' = [samplers EXCEPT ![n].at = "ended"],
               UNCHANGED counters
        PROVE  SampleInv'
    <3> DEFINE new == [samplers[n] EXCEPT !.at = "ended"]
    <3>1. samplers' = [samplers EXCEPT ![n] = new]
      BY <2>5 DEF SampleInv
    <3>2. /\ new \in [at : {"none", "running", "ended"}, from : [Direction -> Nat],
                     sum : [Direction -> Nat], totals : [Direction -> Nat]]
          /\ new.from = samplers[n].from /\ new.sum = samplers[n].sum
          /\ new.totals = samplers[n].totals
      BY DEF SampleInv
    <3>3. \A d \in Direction : /\ samplers[n].totals[d] <= counters[n][d]
                               /\ samplers[n].from[d] + samplers[n].sum[d] = samplers[n].totals[d]
      BY DEF SampleInv
    <3>4. UNCHANGED counters
      BY <2>5
    <3> HIDE DEF new
    <3>5. \A d \in Direction : /\ new.totals[d] <= counters[n][d]
                               /\ new.from[d] + new.sum[d] = new.totals[d]
      BY <3>2, <3>3
    <3> QED BY <2>3, <3>1, <3>2, <3>4, <3>5
  <2>6. ASSUME NEW n \in Sessions, UNCHANGED counters,
               samplers' = [samplers EXCEPT
                   ![n].totals = counters[n],
                   ![n].sum = [direction \in Direction |-> @[direction] + Delta(n, direction)]]
        PROVE  SampleInv'
    <3> DEFINE old == samplers[n]
               sum == [direction \in Direction |-> old.sum[direction] + Delta(n, direction)]
               new == [samplers[n] EXCEPT !.totals = counters[n], !.sum = sum]
    <3>1. /\ old \in [at : {"none", "running", "ended"}, from : [Direction -> Nat],
                     sum : [Direction -> Nat], totals : [Direction -> Nat]]
          /\ counters[n] \in [Direction -> Nat]
          /\ \A d \in Direction : /\ old.totals[d] <= counters[n][d]
                                  /\ old.from[d] + old.sum[d] = old.totals[d]
      BY DEF SampleInv
    <3>2. samplers' = [samplers EXCEPT ![n] = new]
      BY <2>6, <3>1 DEF SampleInv
    <3>3. \A d \in Direction : /\ Delta(n, d) = counters[n][d] - old.totals[d]
                               /\ Delta(n, d) \in Nat
      BY <3>1 DEF Delta
    <3>4. /\ sum \in [Direction -> Nat]
          /\ \A d \in Direction : old.from[d] + sum[d] = counters[n][d]
      <4>1. ASSUME NEW d \in Direction
            PROVE  /\ old.from[d] \in Nat /\ old.sum[d] \in Nat /\ old.totals[d] \in Nat
                   /\ counters[n][d] \in Nat
        BY <3>1
      <4> HIDE DEF old
      <4>2. ASSUME NEW d \in Direction
            PROVE  old.sum[d] + Delta(n, d) \in Nat
                   /\ old.from[d] + (old.sum[d] + Delta(n, d)) = counters[n][d]
        BY <3>1, <3>3, <4>1
      <4>3. \A d \in Direction : sum[d] = old.sum[d] + Delta(n, d)
        OBVIOUS
      <4> QED BY <4>2, <4>3
    <3> HIDE DEF sum
    <3>5. /\ new \in [at : {"none", "running", "ended"}, from : [Direction -> Nat],
                     sum : [Direction -> Nat], totals : [Direction -> Nat]]
          /\ new.from = old.from /\ new.sum = sum /\ new.totals = counters[n]
      BY <3>1, <3>4
    <3> HIDE DEF new, old
    <3> QED BY <2>3, <2>6, <3>1, <3>2, <3>4, <3>5
  <2>7. CASE \E n \in Sessions : Tick(n) \/ SamplerLosesOwner(n)
    BY <2>5, <2>6, <2>7 DEF Tick, SamplerLosesOwner
  <2>8. ASSUME NEW r \in Requests,
               \/ Arrive(r) \/ ForwardStep(r) \/ RewriteFails(r) \/ UpstreamResponds(r)
               \/ UpstreamRefuses(r) \/ BodyEnds(r) \/ ClientGone(r) \/ NextRequest(r)
        PROVE  UNCHANGED <<counters, samplers>>
    BY <2>8
       DEF Arrive, ForwardStep, RouteRequest, HeaderTimeout, RewriteFails, UpstreamResponds,
           UpstreamRefuses, BodyEnds, ClientGone, NextRequest, OnlyRequests
  <2>9. CASE OwnerRegisters \/ OwnerLeaves \/ ProxyStops \/ UNCHANGED trafficVars
    BY <2>1, <2>9 DEF OwnerRegisters, OwnerLeaves, ProxyStops, trafficVars
  <2> QED BY <2>1, <2>2, <2>4, <2>7, <2>8, <2>9 DEF TrafficNext
<1> QED BY <1>1, <1>2, PTL DEF TrafficSafety

(* In every behaviour the deltas an owner is shown add up to its totals: samples that are late,    *)
(* counters at their limit and a slug that has changed hands included (metrics.rs sample_at).      *)
THEOREM SamplesAddUpToTotals == TrafficSafety => []SamplesAddUp
<1>1. SampleInv => SamplesAddUp
  BY DEF SampleInv, SamplesAddUp
<1> QED BY <1>1, SampleInvariant, PTL

------------------------------------------------------------------------------
(* Terminal. *)

(* The panel is no wider than the terminal, also where the margins are wider than it. *)
LEMMA PanelWidthFits ==
    ASSUME NEW p \in [destination : Nat, source : Nat, statistics : Nat, terminal : Nat]
    PROVE  PanelWidth(p) \in Nat /\ PanelWidth(p) <= p.terminal
<1>1. ASSUME NEW x \in Nat, NEW y \in Nat, NEW z \in Nat PROVE Max({x, y, z}) \in Nat
  <2>1. \E m \in {x, y, z} : \A n \in {x, y, z} : m >= n
    BY <1>1
  <2> QED BY <2>1 DEF Max
<1>2. ASSUME NEW x \in Nat, NEW y \in Nat PROVE Max({x, y}) \in Nat
  <2>1. {x, y} = {x, y, y}
    OBVIOUS
  <2> QED BY <1>1, <2>1
<1>3. Max({p.destination, p.source + ArrowWidth, p.statistics}) \in Nat
  BY <1>1 DEF ArrowWidth
<1>4. Max({Max({p.destination, p.source + ArrowWidth, p.statistics}) + HorizontalMargin,
           MinPanelWidth}) \in Nat
  BY <1>2, <1>3, PanelAssumption
<1> QED BY <1>4 DEF PanelWidth

(* Of whatever length: a row that is cut to the panel's width, or to less, and centred fills it. *)
LEMMA CutAndCentred ==
    ASSUME NEW row \in Nat, NEW limit \in Nat, NEW width \in Nat, limit <= width
    PROVE  Center(TruncateToWidth(row, limit), width) = width
BY DEF Center, TruncateToWidth

(* The row with the source is cut and padded to exactly the panel's width. *)
LEMMA SourceRowFits ==
    ASSUME NEW p \in [destination : Nat, source : Nat, statistics : Nat, terminal : Nat]
    PROVE  SourceRow(p) = PanelWidth(p)
<1> DEFINE width == PanelWidth(p)
           cut == SourceWidth(p)
<1>1. width \in Nat
  BY PanelWidthFits
<1>2. CASE width < ArrowWidth
  <2>1. ArrowWidth \in Nat
    BY DEF ArrowWidth
  <2> QED BY <1>1, <1>2, <2>1, CutAndCentred DEF SourceRow
<1>3. CASE ~(width < ArrowWidth)
  <2>1. cut \in Nat /\ ArrowWidth + cut <= width
    <3>1. Sub(Sub(width, HorizontalMargin), ArrowWidth) \in Nat
          /\ ArrowWidth + Sub(Sub(width, HorizontalMargin), ArrowWidth) <= width
      BY <1>1, <1>3, PanelAssumption DEF Sub, ArrowWidth
    <3> HIDE DEF width
    <3>2. cut = TruncateToWidth(p.source, Sub(Sub(width, HorizontalMargin), ArrowWidth))
      BY DEF SourceWidth, width
    <3> HIDE DEF cut
    <3> QED BY <1>1, <3>1, <3>2 DEF TruncateToWidth, ArrowWidth
  <2> DEFINE content == ArrowWidth + cut
             left == Sub(width, content) \div 2
             right == Sub(Sub(width, content), left)
  <2>2. SourceRow(p) = left + content + right
    BY <1>3 DEF SourceRow
  <2> HIDE DEF width, cut
  <2>3. content \in Nat /\ content <= width
    BY <2>1 DEF ArrowWidth
  <2> HIDE DEF content
  <2>4. Sub(width, content) = width - content
    BY <1>1, <2>3 DEF Sub
  <2>5. left \in Nat /\ left <= width - content
    BY <1>1, <2>3, <2>4
  <2> HIDE DEF left
  <2>6. right = width - content - left
    BY <1>1, <2>3, <2>4, <2>5 DEF Sub
  <2> HIDE DEF right
  <2> QED BY <1>1, <2>2, <2>3, <2>5, <2>6 DEF width
<1> QED BY <1>2, <1>3

(* In every behaviour the rows of the start view are as wide as the panel, and the panel is no     *)
(* wider than the terminal: for URLs, statistics and terminals of every width, down to none        *)
(* (ui.rs PanelLayout).                                                                            *)
THEOREM RowsFitEveryTerminal == TerminalSafety => []PanelRowsFit
<1> DEFINE Inv == panel \in [destination : Nat, source : Nat, statistics : Nat, terminal : Nat]
<1>1. TerminalInit => Inv
  BY DEF TerminalInit, NoPanel
<1>2. Inv /\ [ShowPanel]_panel => Inv'
  BY DEF ShowPanel, Panels
<1>3. Inv => PanelRowsFit
  <2> SUFFICES ASSUME Inv PROVE PanelRowsFit
    OBVIOUS
  <2>1. /\ PanelWidth(panel) \in Nat /\ PanelWidth(panel) <= panel.terminal
        /\ SourceRow(panel) = PanelWidth(panel)
    BY PanelWidthFits, SourceRowFits
  <2>2. /\ Sub(PanelWidth(panel), HorizontalMargin) \in Nat
        /\ Sub(PanelWidth(panel), HorizontalMargin) <= PanelWidth(panel)
    BY <2>1, PanelAssumption DEF Sub
  <2>3. DestinationRow(panel) = PanelWidth(panel) /\ StatisticsRow(panel) = PanelWidth(panel)
    BY <2>1, <2>2, CutAndCentred DEF DestinationRow, StatisticsRow
  <2> QED BY <2>1, <2>3 DEF PanelRowsFit
<1> QED BY <1>1, <1>2, <1>3, PTL DEF TerminalSafety

------------------------------------------------------------------------------
(* CommandLine. *)

(* Lower-casing keeps the length, and a word of digits stays one. *)
LEMMA LowercaseType ==
    ASSUME NEW w \in Seq(Character)
    PROVE  /\ Lowercase(w) \in Seq(Character) /\ Len(Lowercase(w)) = Len(w)
           /\ Chars(w) \subseteq Digits => Chars(Lowercase(w)) \subseteq Digits
<1>1. DOMAIN w = 1..Len(w) /\ Len(w) \in Nat /\ \A i \in 1..Len(w) : w[i] \in Character
  OBVIOUS
<1>2. Lowercase(w) \in [1..Len(w) -> Character]
  BY <1>1 DEF Lowercase, Character, Letter
<1>3. Lowercase(w) \in Seq(Character) /\ Len(Lowercase(w)) = Len(w)
  BY <1>1, <1>2
<1>4. ASSUME Chars(w) \subseteq Digits PROVE Chars(Lowercase(w)) \subseteq Digits
  BY <1>4 DEF Chars, Lowercase, Digits
<1> QED BY <1>3, <1>4

(* Only the empty word has no bytes. *)
LEMMA BytesFacts ==
    ASSUME NEW w \in Seq(Character)
    PROVE  Bytes(w) \in Nat /\ (Bytes(w) = 0 <=> w = <<>>)
<1> DEFINE accented == {i \in DOMAIN w : w[i] = Accented}
<1>1. Len(w) \in Nat /\ DOMAIN w = 1..Len(w) /\ (Len(w) = 0 <=> w = <<>>)
  OBVIOUS
<1>2. IsFiniteSet(1..Len(w)) /\ accented \in SUBSET (1..Len(w))
  BY <1>1, FS_Interval
<1>3. Cardinality(accented) \in Nat /\ IsFiniteSet(accented)
  BY <1>2, FS_Subset, FS_CardinalityType
<1>4. Len(w) = 0 => Cardinality(accented) = 0
  <2>1. Len(w) = 0 => accented = {}
    BY <1>1
  <2> QED BY <2>1, FS_EmptySet
<1>5. Bytes(w) = Len(w) + Cardinality(accented)
  BY DEF Bytes
<1> HIDE DEF accented
<1> QED BY <1>1, <1>3, <1>4, <1>5

(* The three copies of the rule, each for the others. *)
LEMMA SlugRules ==
    ASSUME NEW w \in Seq(Character)
    PROVE  /\ CliSlugReason(w) = DaemonSlugReason(Lowercase(w))
           /\ ProxyAccepts(Lowercase(w)) <=> CliSlugReason(w) = "none"
<1> DEFINE slug == Lowercase(w)
           allowed == {"a", Hyphen} \cup Digits
<1>1. slug \in Seq(Character)
  BY LowercaseType
<1>2. CliSlugReason(w) =
          CASE slug = <<>> \/ Bytes(slug) > MaxSlugBytes -> "length"
            [] Accented \in Chars(slug) -> "characters"
            [] StartsOrEnds(slug, Hyphen) -> "hyphen"
            [] ~ Chars(slug) \subseteq allowed -> "characters"
            [] Chars(slug) \subseteq Digits -> "numeric"
            [] OTHER -> "none"
  BY DEF CliSlugReason
<1> HIDE DEF slug
<1>3. /\ Chars(slug) \subseteq allowed <=> ~ \E i \in DOMAIN slug : slug[i] \notin allowed
      /\ Chars(slug) \subseteq Digits <=> \A i \in DOMAIN slug : slug[i] \in Digits
  BY DEF Chars
<1>4. CliSlugReason(w) = DaemonSlugReason(slug)
  BY <1>2, <1>3 DEF DaemonSlugReason
<1>5. CliSlugReason(w) = "none" <=>
          /\ slug # <<>> /\ ~(Bytes(slug) > MaxSlugBytes) /\ Accented \notin Chars(slug)
          /\ ~StartsOrEnds(slug, Hyphen) /\ Chars(slug) \subseteq allowed
          /\ ~ Chars(slug) \subseteq Digits
  BY <1>2
<1>6. Chars(slug) \subseteq allowed => Accented \notin Chars(slug)
  BY DEF Accented, Hyphen, Digits
<1>7. slug # <<>> /\ ~(Bytes(slug) > MaxSlugBytes) <=> Bytes(slug) \in 1..MaxSlugBytes
  BY <1>1, BytesFacts, SlugBytesAssumption
<1>8. slug # <<>> =>
          (~StartsOrEnds(slug, Hyphen) <=> slug[1] # Hyphen /\ slug[Len(slug)] # Hyphen)
  BY DEF StartsOrEnds
<1>9. Bytes(slug) \in 1..MaxSlugBytes => slug # <<>>
  BY <1>7
<1>10. ProxyAccepts(slug) <=> CliSlugReason(w) = "none"
  BY <1>5, <1>6, <1>7, <1>8, <1>9 DEF ProxyAccepts
<1> QED BY <1>4, <1>10 DEF slug

(* What parses as a port and does not begin with a plus sign is all digits. *)
LEMMA PortsAreDigits ==
    ASSUME NEW w, ParsePort(w) # InvalidPort, w[1] # "+"
    PROVE  w # <<>> /\ Chars(w) \subseteq Digits
BY DEF ParsePort

(* Whatever is typed is a word over the characters that the rules tell apart. *)
LEMMA CommandInvariant == CommandSafety => [](word \in Seq(Character))
<1>1. CommandInit => word \in Seq(Character)
  BY DEF CommandInit
<1>2. word \in Seq(Character) /\ [CommandNext]_commandVars => (word \in Seq(Character))'
  <2> SUFFICES ASSUME word \in Seq(Character), [CommandNext]_commandVars
               PROVE  word' \in Seq(Character)
    OBVIOUS
  <2>1. CASE word' \in Words
    <3>1. PICK n \in 0..MaxWord : word' \in [1..n -> Character]
      BY <2>1 DEF Words
    <3> QED BY <3>1
  <2> QED BY <2>1 DEF CommandNext, TypeWord, TypeLine, DrawSlug, commandVars
<1> QED BY <1>1, <1>2, PTL DEF CommandSafety

(* In every behaviour the command line, the daemon and the proxy take the same slugs, and the      *)
(* first two refuse one for the same reason: words of every length, over the characters that the   *)
(* rules tell apart (cli.rs, slug.rs, headers.rs).                                                 *)
THEOREM OneRuleForSlugs == CommandSafety => []SlugRulesAgree
<1>1. word \in Seq(Character) => SlugRulesAgree
  BY SlugRules DEF SlugRulesAgree
<1> QED BY <1>1, CommandInvariant, PTL

(* In every behaviour `fw stop` takes a slug that a start takes for that slug, a port typed in     *)
(* digits for that port, and nothing else for either; a port typed with a plus sign, which a start *)
(* takes, it refuses (cli.rs parse_stop_selector, parse_port).                                     *)
THEOREM StopMeansWhatStartMeant == CommandSafety => []SelectorsAreUnambiguous
<1>1. word \in Seq(Character) => SelectorsAreUnambiguous
  <2> SUFFICES ASSUME word \in Seq(Character) PROVE SelectorsAreUnambiguous
    OBVIOUS
  <2> DEFINE allowed == {"a", Hyphen} \cup Digits
  <2>1. CliSlugReason(word) = "none" =>
            /\ ~ Chars(Lowercase(word)) \subseteq Digits
            /\ Chars(Lowercase(word)) \subseteq allowed
    BY SlugRules DEF ProxyAccepts
  <2>2. CliSlugReason(word) = "none" => ~ Chars(word) \subseteq Digits
    BY <2>1, LowercaseType
  <2>3. ParsePort(word) # InvalidPort /\ word[1] # "+" =>
            word # <<>> /\ Chars(word) \subseteq Digits
    BY PortsAreDigits
  <2>4. word # <<>> /\ Chars(word) \subseteq Digits => word[1] # "+"
    BY DEF Chars, Digits
  <2>5. ASSUME ParsePort(word) # InvalidPort, word[1] = "+"
        PROVE  CliSlugReason(word) # "none" /\ ~ Chars(word) \subseteq Digits
    <3>1. word # <<>>
      BY <2>5 DEF ParsePort
    <3>2. 1 \in DOMAIN word /\ Lowercase(word)[1] = "+" /\ 1 \in DOMAIN Lowercase(word)
      BY <2>5, <3>1 DEF Lowercase
    <3>3. "+" \in Chars(Lowercase(word)) /\ "+" \notin allowed
      BY <3>2 DEF Chars, Hyphen, Digits
    <3> QED BY <2>1, <2>4, <2>5, <3>1, <3>3
  <2> HIDE DEF allowed
  <2>6. CASE CliSlugReason(word) = "none"
    BY <2>2, <2>3, <2>5, <2>6 DEF SelectorsAreUnambiguous, ParseStopSelector
  <2>7. CASE CliSlugReason(word) # "none"
    BY <2>3, <2>4, <2>5, <2>7 DEF SelectorsAreUnambiguous, ParseStopSelector
  <2> QED BY <2>6, <2>7
<1> QED BY <1>1, CommandInvariant, PTL

------------------------------------------------------------------------------
(* What a scan of the rules finds, and what is made of it (Ingress.tla). *)

(* The members of a document and of a scan. *)
Service == {"user", "port", "next_port"}
Rule == [kind : RuleKind, line : Nat, service : Service]
Scans == [error : {"none", "ambiguous"} \cup Refused, specific : Seq(Rule),
          managed : Rule \cup {NoRule}, fallback : Rule \cup {NoRule}]

(* A turn of the filter in RulesOf. *)
Keep(kept, rule, kinds) == IF rule.kind \in kinds THEN Append(kept, rule) ELSE kept

(* The two loops over the rules as functions that are folded. *)
Keeping(kinds) == [p \in Seq(Rule) \X Rule |-> Keep(p[1], p[2], kinds)]
Scanning(port) == [p \in Scans \X Rule |-> ScanRule(port, p[1], p[2])]

(* RulesOf goes over the rules one by one. *)
LEMMA RulesGo ==
    ASSUME NEW d, d.rules \in Seq(Rule), NEW kinds
    PROVE  /\ \E t : Goes(t, Seq(Rule), Keeping(kinds), <<>>, d.rules)
           /\ \A t : Goes(t, Seq(Rule), Keeping(kinds), <<>>, d.rules)
                       => RulesOf(d, kinds) = t[Len(d.rules)]
<1> DEFINE D == DOMAIN d.rules
           Rec(iter) == [s \in SUBSET D |-> IF s = {} THEN <<>>
                                            ELSE IF d.rules[Max(s)].kind \in kinds
                                                 THEN Append(iter[s \ {Max(s)}], d.rules[Max(s)])
                                                 ELSE iter[s \ {Max(s)}]]
<1>1. RulesOf(d, kinds) = (CHOOSE iter : iter = Rec(iter))[D]
  BY Zenon DEF RulesOf, FoldLeft, MapThenFoldSet
<1> DEFINE F == Keeping(kinds)
<1>2. F \in [Seq(Rule) \X Rule -> Seq(Rule)]
  <2>1. ASSUME NEW k \in Seq(Rule), NEW r \in Rule PROVE Keep(k, r, kinds) \in Seq(Rule)
    BY DEF Keep
  <2> QED BY <2>1 DEF Keeping
<1>3. \A k \in Seq(Rule), r \in Rule :
         F[<<k, r>>] = IF r.kind \in kinds THEN Append(k, r) ELSE k
  BY DEF Keeping, Keep
<1> HIDE DEF F
<1>4. PICK rules : rules = d.rules
  OBVIOUS
<1>5. rules \in Seq(Rule) /\ Len(rules) \in Nat /\ DOMAIN rules = 1..Len(rules) /\ D = DOMAIN rules
  BY <1>4
<1>6. <<>> \in Seq(Rule)
  OBVIOUS
<1>7. PICK g : FoldsBy(g, Seq(Rule), F, <<>>, rules)
  BY <1>2, <1>5, <1>6, FoldExists
<1>8. g = Rec(g)
  <2>1. ASSUME NEW s \in SUBSET D
        PROVE  g[s] = IF s = {} THEN <<>>
                      ELSE IF d.rules[Max(s)].kind \in kinds
                           THEN Append(g[s \ {Max(s)}], d.rules[Max(s)]) ELSE g[s \ {Max(s)}]
    <3>1. CASE s = {}
      BY <1>5, <1>7, <3>1 DEF FoldsBy
    <3>2. CASE s # {}
      <4>1. Max(s) \in s
        BY <1>5, <3>2, MaxIsThere
      <4>2. s \ {Max(s)} \in SUBSET D /\ rules[Max(s)] \in Rule
        BY <1>5, <4>1
      <4>3. g[s] = F[<<g[s \ {Max(s)}], rules[Max(s)]>>] /\ g[s \ {Max(s)}] \in Seq(Rule)
        BY <1>5, <1>7, <3>2, <4>2 DEF FoldsBy
      <4> QED BY <1>3, <1>4, <3>2, <4>2, <4>3
    <3> QED BY <3>1, <3>2
  <2>2. g \in [SUBSET D -> Seq(Rule)]
    BY <1>5, <1>7 DEF FoldsBy
  <2> QED BY <2>1, <2>2
<1> DEFINE it == CHOOSE iter : iter = Rec(iter)
<1>9. it = Rec(it)
  BY <1>8
<1> HIDE DEF it
<1>10. PICK f : f = it
  OBVIOUS
<1>11. \A s \in SUBSET D :
          f[s] = IF s = {} THEN <<>>
                 ELSE IF d.rules[Max(s)].kind \in kinds
                      THEN Append(f[s \ {Max(s)}], d.rules[Max(s)]) ELSE f[s \ {Max(s)}]
  BY <1>9, <1>10
<1>12. f[{}] = <<>>
  BY <1>11
<1>13. ASSUME NEW k \in 1..Len(rules), f[1..(k - 1)] \in Seq(Rule)
       PROVE  f[1..k] = F[<<f[1..(k - 1)], rules[k]>>]
  <2>1. /\ Max(1..k) = k /\ (1..k) \ {k} = 1..(k - 1) /\ 1..k # {}
        /\ 1..k \in SUBSET D
    BY <1>5, Segment
  <2>2. f[1..k] = IF rules[k].kind \in kinds THEN Append(f[1..(k - 1)], rules[k])
                  ELSE f[1..(k - 1)]
    BY <1>4, <1>11, <2>1
  <2>3. rules[k] \in Rule
    BY <1>5
  <2> QED BY <1>3, <1>13, <2>2, <2>3
<1>14. Recurs(f, Seq(Rule), F, <<>>, rules)
  BY <1>12, <1>13 DEF Recurs
<1>15. Folds(Seq(Rule), Rule, F, <<>>, rules)
  BY <1>2, <1>5, <1>6 DEF Folds
<1>16. ASSUME NEW t, Goes(t, Seq(Rule), F, <<>>, rules) PROVE f[D] = t[Len(rules)]
  <2>1. f[1..Len(rules)] = t[Len(rules)]
    BY <1>14, <1>15, <1>16, SegmentsGo
  <2> QED BY <1>5, <2>1
<1>17. \E t : Goes(t, Seq(Rule), F, <<>>, rules)
  BY <1>2, <1>5, <1>6, FoldGoes
<1>18. RulesOf(d, kinds) = f[D]
  BY <1>1, <1>10 DEF it
<1> QED BY <1>4, <1>16, <1>17, <1>18 DEF F

(* The rules there are. *)
LEMMA RuleFacts ==
    /\ NoRule.kind = "none" /\ NoRule \notin Rule /\ FallbackRule \in Rule
    /\ FallbackRule.kind = "not_found"
    /\ \A r \in Rule : r.kind \in RuleKind /\ r # NoRule
<1>1. NoRule.kind = "none" /\ "none" \notin RuleKind
  BY DEF NoRule, RuleKind
<1>2. \A r \in Rule : r.kind \in RuleKind
  BY DEF Rule
<1>3. FallbackRule \in Rule /\ FallbackRule.kind = "not_found"
  BY DEF FallbackRule, Rule, RuleKind, Service
<1> QED BY <1>1, <1>2, <1>3

(* A rule for another port stays a rule of its kind; the last port stays. *)
LEMMA Relabelled ==
    ASSUME NEW rule \in Rule, NEW port \in Service
    PROVE  /\ [rule EXCEPT !.service = port] \in Rule
           /\ [rule EXCEPT !.service = port].kind = rule.kind
           /\ \A next \in Service :
                 [[rule EXCEPT !.service = port] EXCEPT !.service = next]
                    = [rule EXCEPT !.service = next]
BY DEF Rule

(* The cases of a turn of the loop. *)
LEMMA ScanTurns ==
    ASSUME NEW scan \in Scans, NEW rule \in Rule, NEW port \in Service
    PROVE  /\ ScanRule(port, scan, rule) \in Scans
           /\ scan.error # "none" => ScanRule(port, scan, rule) = scan
           /\ scan.error = "none" /\ rule.kind \in Refused
                => ScanRule(port, scan, rule).error # "none"
           /\ scan.error = "none" /\ rule.kind = "not_found"
                => LET new == ScanRule(port, scan, rule)
                   IN  /\ new.error = "none" /\ new.specific = scan.specific
                       /\ new.managed = scan.managed
                       /\ new.fallback = IF scan.fallback = NoRule THEN rule ELSE scan.fallback
           /\ scan.error = "none" /\ rule.kind \in {"host", "wildcard_path"}
                => LET new == ScanRule(port, scan, rule)
                   IN  /\ new.error = "none" /\ new.specific = Append(scan.specific, rule)
                       /\ new.managed = scan.managed /\ new.fallback = scan.fallback
           /\ scan.error = "none" /\ rule.kind = "wildcard" /\ scan.managed # NoRule
                => ScanRule(port, scan, rule).error # "none"
           /\ scan.error = "none" /\ rule.kind = "wildcard" /\ scan.managed = NoRule
                => LET new == ScanRule(port, scan, rule)
                   IN  /\ new.error = "none" /\ new.specific = scan.specific
                       /\ new.managed = [rule EXCEPT !.service = port]
                       /\ new.fallback = scan.fallback
<1>1. PICK new : new = ScanRule(port, scan, rule)
  OBVIOUS
<1>2. /\ scan.error \in {"none", "ambiguous"} \cup Refused /\ scan.specific \in Seq(Rule)
      /\ scan.managed \in Rule \cup {NoRule} /\ scan.fallback \in Rule \cup {NoRule}
  BY DEF Scans
<1>3. Append(scan.specific, rule) \in Seq(Rule) /\ [rule EXCEPT !.service = port] \in Rule
  <2>1. Append(scan.specific, rule) \in Seq(Rule)
    BY <1>2
  <2>2. [rule EXCEPT !.service = port] \in Rule
    BY Relabelled
  <2> QED BY <2>1, <2>2
<1>4. rule.kind \in RuleKind
  BY RuleFacts
<1>5. CASE scan.error # "none"
  BY <1>5 DEF ScanRule
<1>6. CASE scan.error = "none" /\ rule.kind \in Refused
  <2>1. new = [scan EXCEPT !.error = rule.kind]
    BY <1>1, <1>6 DEF ScanRule
  <2>2. new \in Scans /\ new.error = rule.kind
    BY <1>6, <2>1 DEF Scans
  <2> QED BY <1>1, <1>6, <2>2 DEF Refused
<1>7. CASE scan.error = "none" /\ rule.kind = "not_found"
  <2>1. new = IF scan.fallback = NoRule THEN [scan EXCEPT !.fallback = rule] ELSE scan
    BY <1>1, <1>7 DEF ScanRule, Refused
  <2>2. CASE scan.fallback = NoRule
    <3>1. new = [scan EXCEPT !.fallback = rule]
      BY <2>1, <2>2
    <3>2. new \in Scans
      BY <3>1 DEF Scans
    <3>3. /\ new.error = scan.error /\ new.specific = scan.specific
          /\ new.managed = scan.managed /\ new.fallback = rule
      BY <3>1 DEF Scans
    <3> QED BY <1>1, <1>7, <2>2, <3>2, <3>3 DEF Refused
  <2>3. CASE scan.fallback # NoRule
    BY <1>1, <1>7, <2>1, <2>3 DEF Refused
  <2> QED BY <2>2, <2>3
<1>8. CASE scan.error = "none" /\ rule.kind \in {"host", "wildcard_path"}
  <2>1. new = [scan EXCEPT !.specific = Append(scan.specific, rule)]
    BY <1>1, <1>8 DEF ScanRule, Refused
  <2>2. new \in Scans
    BY <1>3, <2>1 DEF Scans
  <2>3. /\ new.error = scan.error /\ new.specific = Append(scan.specific, rule)
        /\ new.managed = scan.managed /\ new.fallback = scan.fallback
    BY <2>1 DEF Scans
  <2> QED BY <1>1, <1>8, <2>2, <2>3 DEF Refused
<1>9. CASE scan.error = "none" /\ rule.kind = "wildcard" /\ scan.managed # NoRule
  <2>1. new = [scan EXCEPT !.error = "ambiguous"]
    BY <1>1, <1>9 DEF ScanRule, Refused
  <2>2. new \in Scans /\ new.error = "ambiguous"
    BY <2>1 DEF Scans
  <2> QED BY <1>1, <1>9, <2>2 DEF Refused
<1>10. CASE scan.error = "none" /\ rule.kind = "wildcard" /\ scan.managed = NoRule
  <2>1. new = [scan EXCEPT !.managed = [rule EXCEPT !.service = port]]
    BY <1>1, <1>10 DEF ScanRule, Refused
  <2>2. PICK m : m = [rule EXCEPT !.service = port]
    OBVIOUS
  <2>3. new = [scan EXCEPT !.managed = m] /\ m \in Rule
    BY <1>3, <2>1, <2>2
  <2>4. new \in Scans
    BY <2>3 DEF Scans
  <2>5. /\ new.error = scan.error /\ new.specific = scan.specific
        /\ new.managed = m /\ new.fallback = scan.fallback
    BY <2>3 DEF Scans
  <2> QED BY <1>1, <1>10, <2>2, <2>4, <2>5 DEF Refused
<1>11. rule.kind \in Refused \cup {"not_found", "host", "wildcard_path", "wildcard"}
  BY <1>4 DEF RuleKind, Refused
<1> QED BY <1>5, <1>6, <1>7, <1>8, <1>9, <1>10, <1>11

(* ScanAll goes over the rules one by one. *)
LEMMA ScanGoes ==
    ASSUME NEW d, d.rules \in Seq(Rule), NEW port \in Service
    PROVE  /\ \E t : Goes(t, Scans, Scanning(port), Scan, d.rules)
           /\ \A t : Goes(t, Scans, Scanning(port), Scan, d.rules)
                       => ScanAll(d, port) = t[Len(d.rules)]
<1> DEFINE D == DOMAIN d.rules
           Rec(iter) == [s \in SUBSET D |-> IF s = {} THEN Scan
                                            ELSE ScanRule(port, iter[s \ {Max(s)}], d.rules[Max(s)])]
<1>1. ScanAll(d, port) = (CHOOSE iter : iter = Rec(iter))[D]
  BY Zenon DEF ScanAll, FoldLeft, MapThenFoldSet
<1> DEFINE F == Scanning(port)
<1>2. F \in [Scans \X Rule -> Scans]
  <2>1. ASSUME NEW k \in Scans, NEW r \in Rule PROVE ScanRule(port, k, r) \in Scans
    BY ScanTurns
  <2> QED BY <2>1 DEF Scanning
<1>3. \A k \in Scans, r \in Rule : F[<<k, r>>] = ScanRule(port, k, r)
  BY DEF Scanning
<1> HIDE DEF F
<1>4. PICK rules : rules = d.rules
  OBVIOUS
<1>5. rules \in Seq(Rule) /\ Len(rules) \in Nat /\ DOMAIN rules = 1..Len(rules) /\ D = DOMAIN rules
  BY <1>4
<1>6. Scan \in Scans
  <2>1. <<>> \in Seq(Rule)
    OBVIOUS
  <2> QED BY <2>1 DEF Scan, Scans
<1>7. PICK g : FoldsBy(g, Scans, F, Scan, rules)
  BY <1>2, <1>5, <1>6, FoldExists
<1>8. g = Rec(g)
  <2>1. ASSUME NEW s \in SUBSET D
        PROVE  g[s] = IF s = {} THEN Scan
                      ELSE ScanRule(port, g[s \ {Max(s)}], d.rules[Max(s)])
    <3>1. CASE s = {}
      BY <1>5, <1>7, <3>1 DEF FoldsBy
    <3>2. CASE s # {}
      <4>1. Max(s) \in s
        BY <1>5, <3>2, MaxIsThere
      <4>2. s \ {Max(s)} \in SUBSET D /\ rules[Max(s)] \in Rule
        BY <1>5, <4>1
      <4>3. g[s] = F[<<g[s \ {Max(s)}], rules[Max(s)]>>] /\ g[s \ {Max(s)}] \in Scans
        BY <1>5, <1>7, <3>2, <4>2 DEF FoldsBy
      <4> QED BY <1>3, <1>4, <3>2, <4>2, <4>3
    <3> QED BY <3>1, <3>2
  <2>2. g \in [SUBSET D -> Scans]
    BY <1>5, <1>7 DEF FoldsBy
  <2> QED BY <2>1, <2>2
<1> DEFINE it == CHOOSE iter : iter = Rec(iter)
<1>9. it = Rec(it)
  BY <1>8
<1> HIDE DEF it
<1>10. PICK f : f = it
  OBVIOUS
<1>11. \A s \in SUBSET D :
          f[s] = IF s = {} THEN Scan ELSE ScanRule(port, f[s \ {Max(s)}], d.rules[Max(s)])
  BY <1>9, <1>10
<1>12. f[{}] = Scan
  BY <1>11
<1>13. ASSUME NEW k \in 1..Len(rules), f[1..(k - 1)] \in Scans
       PROVE  f[1..k] = F[<<f[1..(k - 1)], rules[k]>>]
  <2>1. /\ Max(1..k) = k /\ (1..k) \ {k} = 1..(k - 1) /\ 1..k # {}
        /\ 1..k \in SUBSET D
    BY <1>5, Segment
  <2>2. f[1..k] = ScanRule(port, f[1..(k - 1)], rules[k])
    BY <1>4, <1>11, <2>1
  <2>3. rules[k] \in Rule
    BY <1>5
  <2> QED BY <1>3, <1>13, <2>2, <2>3
<1>14. Recurs(f, Scans, F, Scan, rules)
  BY <1>12, <1>13 DEF Recurs
<1>15. Folds(Scans, Rule, F, Scan, rules)
  BY <1>2, <1>5, <1>6 DEF Folds
<1>16. ASSUME NEW t, Goes(t, Scans, F, Scan, rules) PROVE f[D] = t[Len(rules)]
  <2>1. f[1..Len(rules)] = t[Len(rules)]
    BY <1>14, <1>15, <1>16, SegmentsGo
  <2> QED BY <1>5, <2>1
<1>17. \E t : Goes(t, Scans, F, Scan, rules)
  BY <1>2, <1>5, <1>6, FoldGoes
<1>18. ScanAll(d, port) = f[D]
  BY <1>1, <1>10 DEF it
<1> QED BY <1>4, <1>16, <1>17, <1>18 DEF F

(* What a turn of the filter does to its list. *)
LEMMA KeepFacts ==
    ASSUME NEW kept \in Seq(Rule), NEW rule \in Rule, NEW kinds
    PROVE  /\ Keep(kept, rule, kinds) \in Seq(Rule)
           /\ rule.kind \notin kinds => Keep(kept, rule, kinds) = kept
           /\ rule.kind \in kinds =>
                 /\ Keep(kept, rule, kinds) # <<>>
                 /\ Keep(kept, rule, kinds)[1] = IF kept = <<>> THEN rule ELSE kept[1]
                 /\ Len(Keep(kept, rule, kinds)) = Len(kept) + 1
                 /\ Keep(kept, rule, kinds) = Append(kept, rule)
<1>1. rule.kind \notin kinds => Keep(kept, rule, kinds) = kept
  BY DEF Keep
<1>2. rule.kind \in kinds => Keep(kept, rule, kinds) = Append(kept, rule)
  BY DEF Keep
<1>3. PICK new : new = Append(kept, rule)
  OBVIOUS
<1>4. Len(kept) \in Nat /\ (kept = <<>> <=> Len(kept) = 0)
  OBVIOUS
<1>5. new \in Seq(Rule) /\ Len(new) = Len(kept) + 1 /\ new[Len(kept) + 1] = rule
  BY <1>3
<1>6. \A i \in 1..Len(kept) : new[i] = kept[i]
  BY <1>3
<1>7. new # <<>>
  BY <1>4, <1>5
<1>8. new[1] = IF kept = <<>> THEN rule ELSE kept[1]
  <2>1. CASE Len(kept) = 0
    BY <1>4, <1>5, <2>1
  <2>2. CASE Len(kept) # 0
    BY <1>4, <1>6, <2>2
  <2> QED BY <2>1, <2>2
<1> QED BY <1>1, <1>2, <1>3, <1>5, <1>7, <1>8

(* The loop's state beside the rules of each kind it has seen. *)
ScanMatches(s, refused, wild, missing, specific, port) ==
    /\ s.error = "none" <=> (refused = <<>> /\ Len(wild) <= 1)
    /\ s.error = "none" =>
          /\ s.specific = specific
          /\ s.managed = IF wild = <<>> THEN NoRule ELSE [wild[1] EXCEPT !.service = port]
          /\ s.fallback = IF missing = <<>> THEN NoRule ELSE missing[1]

(* The rules of the user that stay as they are. *)
Specific == {"host", "wildcard_path"}

(* A turn of the loop of normalize_value keeps the agreement with the rules the reference filters. *)
LEMMA TurnsAgree ==
    ASSUME NEW s \in Scans, NEW port \in Service, NEW rule \in Rule,
           NEW refused \in Seq(Rule), NEW wild \in Seq(Rule), NEW missing \in Seq(Rule),
           NEW specific \in Seq(Rule),
           ScanMatches(s, refused, wild, missing, specific, port)
    PROVE  ScanMatches(ScanRule(port, s, rule), Keep(refused, rule, Refused),
                  Keep(wild, rule, {"wildcard"}), Keep(missing, rule, {"not_found"}),
                  Keep(specific, rule, Specific), port)
<1>1. PICK new, r, w, m, h :
         /\ new = ScanRule(port, s, rule) /\ r = Keep(refused, rule, Refused)
         /\ w = Keep(wild, rule, {"wildcard"}) /\ m = Keep(missing, rule, {"not_found"})
         /\ h = Keep(specific, rule, Specific)
  OBVIOUS
<1>2. Len(wild) \in Nat /\ (wild = <<>> <=> Len(wild) = 0)
  OBVIOUS
<1>3. wild # <<>> => wild[1] \in Rule
  BY <1>2
<1>4. s.error = "none" => (s.managed = NoRule <=> wild = <<>>)
  <2>1. wild # <<>> => [wild[1] EXCEPT !.service = port] # NoRule
    BY <1>3, Relabelled, RuleFacts
  <2> QED BY <2>1 DEF ScanMatches
<1>5. missing # <<>> => missing[1] # NoRule
  <2>1. missing # <<>> => missing[1] \in Rule
    OBVIOUS
  <2> QED BY <2>1, RuleFacts
<1>a. PICK W, N : W = {"wildcard"} /\ N = {"not_found"}
  OBVIOUS
<1>b. w = Keep(wild, rule, W) /\ m = Keep(missing, rule, N)
  BY <1>1, <1>a
<1>c. (rule.kind \notin Refused => r = refused) /\ (rule.kind \in Refused => r # <<>>)
  BY <1>1, KeepFacts
<1>d. /\ rule.kind \notin W => w = wild
      /\ rule.kind \in W => /\ w # <<>> /\ Len(w) = Len(wild) + 1
                            /\ w[1] = IF wild = <<>> THEN rule ELSE wild[1]
  BY <1>b, KeepFacts
<1>e. /\ rule.kind \notin N => m = missing
      /\ rule.kind \in N => m # <<>> /\ m[1] = IF missing = <<>> THEN rule ELSE missing[1]
  BY <1>b, KeepFacts
<1>f. /\ rule.kind \notin Specific => h = specific
      /\ rule.kind \in Specific => h = Append(specific, rule)
  BY <1>1, KeepFacts
<1>g. PICK kind : kind = rule.kind
  OBVIOUS
<1>h. /\ kind \in Refused => kind \notin W /\ kind \notin N /\ kind \notin Specific
      /\ kind = "not_found" => kind \notin Refused /\ kind \notin W /\ kind \in N /\ kind \notin Specific
      /\ kind \in Specific => kind \notin Refused /\ kind \notin W /\ kind \notin N
      /\ kind = "wildcard" => kind \notin Refused /\ kind \in W /\ kind \notin N /\ kind \notin Specific
  BY <1>a DEF Refused, Specific
<1>6. rule.kind \in Refused =>
         /\ r # <<>> /\ w = wild /\ m = missing /\ h = specific
  BY <1>c, <1>d, <1>e, <1>f, <1>g, <1>h
<1>7. rule.kind = "not_found" =>
         /\ r = refused /\ w = wild /\ h = specific
         /\ m # <<>> /\ m[1] = IF missing = <<>> THEN rule ELSE missing[1]
  BY <1>c, <1>d, <1>e, <1>f, <1>g, <1>h
<1>8. rule.kind \in Specific =>
         /\ r = refused /\ w = wild /\ m = missing /\ h = Append(specific, rule)
  BY <1>c, <1>d, <1>e, <1>f, <1>g, <1>h
<1>9. rule.kind = "wildcard" =>
         /\ r = refused /\ h = specific /\ m = missing
         /\ w # <<>> /\ Len(w) = Len(wild) + 1 /\ w[1] = IF wild = <<>> THEN rule ELSE wild[1]
  BY <1>c, <1>d, <1>e, <1>f, <1>g, <1>h
<1>10. r = <<>> => refused = <<>>
  <2>1. \/ rule.kind \in Refused /\ r # <<>>
        \/ rule.kind \notin Refused /\ r = refused
    BY <1>1, <1>6, KeepFacts
  <2> QED BY <2>1
<1>11. Len(w) <= 1 => Len(wild) <= 1
  <2>1. rule.kind # "wildcard" => w = wild
    BY <1>1, KeepFacts
  <2> QED BY <1>2, <1>9, <2>1
<1>12. rule.kind \in Refused \cup {"not_found", "wildcard"} \cup Specific
  BY RuleFacts DEF RuleKind, Refused, Specific
<1>13. ScanMatches(new, r, w, m, h, port)
  <2>1. CASE s.error # "none"
    <3>1. new = s
      BY <1>1, <2>1, ScanTurns
    <3>2. ~ (r = <<>> /\ Len(w) <= 1)
      BY <1>10, <1>11, <2>1 DEF ScanMatches
    <3> QED BY <2>1, <3>1, <3>2 DEF ScanMatches
  <2>2. CASE s.error = "none" /\ rule.kind \in Refused
    <3>1. new.error # "none"
      BY <1>1, <2>2, ScanTurns
    <3> QED BY <1>6, <2>2, <3>1 DEF ScanMatches
  <2>3. CASE s.error = "none" /\ rule.kind = "not_found"
    <3>1. /\ new.error = "none" /\ new.specific = s.specific /\ new.managed = s.managed
          /\ new.fallback = IF s.fallback = NoRule THEN rule ELSE s.fallback
      BY <1>1, <2>3, ScanTurns
    <3> QED BY <1>5, <1>7, <2>3, <3>1 DEF ScanMatches
  <2>4. CASE s.error = "none" /\ rule.kind \in Specific
    <3>1. /\ new.error = "none" /\ new.specific = Append(s.specific, rule)
          /\ new.managed = s.managed /\ new.fallback = s.fallback
      BY <1>1, <2>4, ScanTurns DEF Specific
    <3>2. s.specific = specific
      BY <2>4 DEF ScanMatches
    <3> QED BY <1>8, <2>4, <3>1, <3>2 DEF ScanMatches
  <2>5. CASE s.error = "none" /\ rule.kind = "wildcard" /\ s.managed # NoRule
    <3>1. new.error # "none"
      BY <1>1, <2>5, ScanTurns
    <3>2. ~ (Len(w) <= 1)
      BY <1>2, <1>4, <1>9, <2>5
    <3> QED BY <3>1, <3>2 DEF ScanMatches
  <2>6. CASE s.error = "none" /\ rule.kind = "wildcard" /\ s.managed = NoRule
    <3>1. /\ new.error = "none" /\ new.specific = s.specific
          /\ new.managed = [rule EXCEPT !.service = port] /\ new.fallback = s.fallback
      BY <1>1, <2>6, ScanTurns
    <3>2. Len(w) <= 1 /\ w[1] = rule
      <4>1. wild = <<>>
        BY <1>4, <2>6
      <4>2. Len(wild) = 0
        BY <1>2, <4>1
      <4>3. Len(w) = Len(wild) + 1 /\ w[1] = rule
        BY <1>9, <2>6, <4>1
      <4> QED BY <4>2, <4>3
    <3>3. [w[1] EXCEPT !.service = port] = [rule EXCEPT !.service = port]
      BY <3>2
    <3> QED BY <1>9, <2>6, <3>1, <3>2, <3>3 DEF ScanMatches
  <2> QED BY <1>12, <2>1, <2>2, <2>3, <2>4, <2>5, <2>6
<1> QED BY <1>1, <1>13

(* A filter's list, turn by turn. *)
Filters(t, kinds, rules) == Goes(t, Seq(Rule), Keeping(kinds), <<>>, rules)

(* A turn of a filter. *)
LEMMA FilterTurns ==
    ASSUME NEW rules \in Seq(Rule), NEW kinds, NEW t, Filters(t, kinds, rules),
           NEW k \in 1..Len(rules)
    PROVE  /\ t[k - 1] \in Seq(Rule) /\ t[k] \in Seq(Rule)
           /\ t[k] = Keep(t[k - 1], rules[k], kinds)
<1>1. /\ Len(rules) \in Nat /\ k \in 0..Len(rules) /\ k - 1 \in 0..Len(rules)
      /\ rules[k] \in Rule
  OBVIOUS
<1>2. t[k - 1] \in Seq(Rule) /\ t[k] \in Seq(Rule)
  BY <1>1 DEF Filters, Goes
<1>3. t[k] = Keeping(kinds)[<<t[k - 1], rules[k]>>]
  BY DEF Filters, Goes
<1> QED BY <1>1, <1>2, <1>3 DEF Keeping

(* A turn of the loop. *)
LEMMA ScanSteps ==
    ASSUME NEW rules \in Seq(Rule), NEW port \in Service, NEW t,
           Goes(t, Scans, Scanning(port), Scan, rules), NEW k \in 1..Len(rules)
    PROVE  /\ t[k - 1] \in Scans
           /\ t[k] = ScanRule(port, t[k - 1], rules[k])
<1>1. /\ Len(rules) \in Nat /\ k \in 0..Len(rules) /\ k - 1 \in 0..Len(rules)
      /\ rules[k] \in Rule
  OBVIOUS
<1>2. t[k - 1] \in Scans /\ t[k] \in Scans
  BY <1>1 DEF Goes
<1>3. t[k] = Scanning(port)[<<t[k - 1], rules[k]>>]
  BY DEF Goes
<1> QED BY <1>1, <1>2, <1>3 DEF Scanning

(* The loop against the reference. *)
LEMMA ScanAgrees ==
    ASSUME NEW d, d.rules \in Seq(Rule), NEW port \in Service
    PROVE  ScanMatches(ScanAll(d, port), RulesOf(d, Refused), RulesOf(d, {"wildcard"}),
                  RulesOf(d, {"not_found"}), RulesOf(d, Specific), port)
<1>1. PICK rules : rules = d.rules
  OBVIOUS
<1>2. rules \in Seq(Rule) /\ Len(rules) \in Nat
  BY <1>1
<1>3. PICK t : Goes(t, Scans, Scanning(port), Scan, rules) /\ ScanAll(d, port) = t[Len(rules)]
  BY <1>1, ScanGoes
<1>4. PICK r : Filters(r, Refused, rules) /\ RulesOf(d, Refused) = r[Len(rules)]
  BY <1>1, RulesGo DEF Filters
<1>5. PICK w : Filters(w, {"wildcard"}, rules) /\ RulesOf(d, {"wildcard"}) = w[Len(rules)]
  BY <1>1, RulesGo DEF Filters
<1>6. PICK m : Filters(m, {"not_found"}, rules) /\ RulesOf(d, {"not_found"}) = m[Len(rules)]
  BY <1>1, RulesGo DEF Filters
<1>7. PICK h : Filters(h, Specific, rules) /\ RulesOf(d, Specific) = h[Len(rules)]
  BY <1>1, RulesGo DEF Filters
<1> DEFINE Agree == {k \in Nat : k <= Len(rules) => ScanMatches(t[k], r[k], w[k], m[k], h[k], port)}
<1>8. 0 \in Agree
  <2>1. t[0] = Scan /\ r[0] = <<>> /\ w[0] = <<>> /\ m[0] = <<>> /\ h[0] = <<>>
    BY <1>3, <1>4, <1>5, <1>6, <1>7 DEF Goes, Filters
  <2>2. /\ Scan.error = "none" /\ Scan.specific = <<>> /\ Scan.managed = NoRule
        /\ Scan.fallback = NoRule
    BY DEF Scan
  <2>3. Len(<<>>) = 0
    OBVIOUS
  <2>4. ScanMatches(Scan, <<>>, <<>>, <<>>, <<>>, port)
    BY <2>2, <2>3 DEF ScanMatches
  <2> QED BY <2>1, <2>4
<1>9. ASSUME NEW k \in Nat, k \in Agree PROVE k + 1 \in Agree
  <2> SUFFICES ASSUME k + 1 <= Len(rules)
               PROVE  ScanMatches(t[k + 1], r[k + 1], w[k + 1], m[k + 1], h[k + 1], port)
    OBVIOUS
  <2>1. PICK n : n = k + 1
    OBVIOUS
  <2>2. n \in 1..Len(rules) /\ n - 1 = k /\ k <= Len(rules) /\ rules[n] \in Rule
    BY <1>2, <2>1
  <2>3. ScanMatches(t[k], r[k], w[k], m[k], h[k], port)
    BY <1>9, <2>2
  <2>4. t[k] \in Scans /\ t[n] = ScanRule(port, t[k], rules[n])
    BY <1>2, <1>3, <2>2, ScanSteps
  <2>5. r[k] \in Seq(Rule) /\ r[n] = Keep(r[k], rules[n], Refused)
    BY <1>2, <1>4, <2>2, FilterTurns
  <2>6. w[k] \in Seq(Rule) /\ w[n] = Keep(w[k], rules[n], {"wildcard"})
    BY <1>2, <1>5, <2>2, FilterTurns
  <2>7. m[k] \in Seq(Rule) /\ m[n] = Keep(m[k], rules[n], {"not_found"})
    BY <1>2, <1>6, <2>2, FilterTurns
  <2>8. h[k] \in Seq(Rule) /\ h[n] = Keep(h[k], rules[n], Specific)
    BY <1>2, <1>7, <2>2, FilterTurns
  <2>9. PICK a, b, c, e, f, x :
           a = t[k] /\ b = r[k] /\ c = w[k] /\ e = m[k] /\ f = h[k] /\ x = rules[n]
    OBVIOUS
  <2>10. ScanMatches(ScanRule(port, a, x), Keep(b, x, Refused), Keep(c, x, {"wildcard"}),
                Keep(e, x, {"not_found"}), Keep(f, x, Specific), port)
    BY <2>2, <2>3, <2>4, <2>5, <2>6, <2>7, <2>8, <2>9, TurnsAgree
  <2> QED BY <2>1, <2>4, <2>5, <2>6, <2>7, <2>8, <2>9, <2>10
<1> HIDE DEF Agree
<1>10. Len(rules) \in Agree
  BY <1>2, <1>8, <1>9, InductionOverNat
<1> QED BY <1>2, <1>3, <1>4, <1>5, <1>6, <1>7, <1>10 DEF Agree

(* A filter keeps rules of its kinds only. *)
LEMMA RulesKept ==
    ASSUME NEW d, d.rules \in Seq(Rule), NEW kinds
    PROVE  /\ RulesOf(d, kinds) \in Seq(Rule)
           /\ \A i \in 1..Len(RulesOf(d, kinds)) : RulesOf(d, kinds)[i].kind \in kinds
<1> DEFINE Right == {q \in Seq(Rule) : \A i \in 1..Len(q) : q[i].kind \in kinds}
<1>1. PICK rules : rules = d.rules
  OBVIOUS
<1>2. rules \in Seq(Rule) /\ Len(rules) \in Nat
  BY <1>1
<1>3. PICK t : Filters(t, kinds, rules) /\ RulesOf(d, kinds) = t[Len(rules)]
  BY <1>1, RulesGo DEF Filters
<1> DEFINE AllRight == {k \in Nat : k <= Len(rules) => t[k] \in Right}
<1>4. 0 \in AllRight
  <2>1. t[0] = <<>>
    BY <1>3 DEF Filters, Goes
  <2>2. <<>> \in Right
    OBVIOUS
  <2> QED BY <2>1, <2>2
<1>5. ASSUME NEW k \in Nat, k \in AllRight PROVE k + 1 \in AllRight
  <2> SUFFICES ASSUME k + 1 <= Len(rules) PROVE t[k + 1] \in Right
    OBVIOUS
  <2>1. PICK n : n = k + 1
    OBVIOUS
  <2>2. n \in 1..Len(rules) /\ n - 1 = k /\ k <= Len(rules) /\ rules[n] \in Rule
    BY <1>2, <2>1
  <2>3. t[k] \in Right
    BY <1>5, <2>2
  <2>4. t[n] = Keep(t[k], rules[n], kinds)
    BY <1>2, <1>3, <2>2, FilterTurns
  <2>5. ASSUME NEW q \in Right, NEW r \in Rule PROVE Keep(q, r, kinds) \in Right
    <3>1. CASE r.kind \in kinds
      <4>1. PICK a : a = Append(q, r)
        OBVIOUS
      <4>2. /\ a \in Seq(Rule) /\ Len(a) = Len(q) + 1 /\ a[Len(q) + 1] = r
            /\ \A i \in 1..Len(q) : a[i] = q[i]
        BY <4>1
      <4>3. ASSUME NEW i \in 1..Len(a) PROVE a[i].kind \in kinds
        <5>1. Len(q) \in Nat
          OBVIOUS
        <5>2. i \in 1..Len(q) \/ i = Len(q) + 1
          BY <4>2, <5>1
        <5> QED BY <3>1, <4>2, <5>2
      <4> QED BY <3>1, <4>1, <4>2, <4>3 DEF Keep
    <3>2. CASE r.kind \notin kinds
      BY <3>2 DEF Keep
    <3> QED BY <3>1, <3>2
  <2> HIDE DEF Right
  <2> QED BY <2>1, <2>2, <2>3, <2>4, <2>5
<1> HIDE DEF AllRight
<1>6. Len(rules) \in AllRight
  BY <1>2, <1>4, <1>5, InductionOverNat
<1>7. t[Len(rules)] \in Right
  BY <1>2, <1>6 DEF AllRight
<1> QED BY <1>3, <1>7

(* Document e has the rules of document d and then this one. *)
Longer(d, rule, e) ==
    d.rules \in Seq(Rule) /\ rule \in Rule /\ e.rules = Append(d.rules, rule)

(* A filter comes to one rule more at the end. *)
LEMMA RulesOfLonger ==
    ASSUME NEW d, NEW rule, NEW e, Longer(d, rule, e), NEW kinds
    PROVE  RulesOf(e, kinds) = Keep(RulesOf(d, kinds), rule, kinds)
<1>0. d.rules \in Seq(Rule) /\ rule \in Rule /\ e.rules = Append(d.rules, rule)
  BY DEF Longer
<1>1. PICK rules, all : rules = d.rules /\ all = e.rules
  OBVIOUS
<1>2. /\ rules \in Seq(Rule) /\ Len(rules) \in Nat
      /\ all \in Seq(Rule) /\ Len(all) = Len(rules) + 1 /\ all[Len(rules) + 1] = rule
      /\ \A i \in 1..Len(rules) : all[i] = rules[i]
  BY <1>0, <1>1
<1>3. PICK t : Filters(t, kinds, all) /\ RulesOf(e, kinds) = t[Len(all)]
  BY <1>1, <1>2, RulesGo DEF Filters
<1> DEFINE r == [k \in 0..Len(rules) |-> t[k]]
<1>4. Filters(r, kinds, rules)
  <2>1. \A k \in 0..Len(rules) : t[k] \in Seq(Rule)
    <3>1. \A k \in 0..Len(rules) : k \in 0..Len(all)
      BY <1>2
    <3> QED BY <1>3, <3>1 DEF Filters, Goes
  <2>2. r \in [0..Len(rules) -> Seq(Rule)]
    BY <2>1
  <2>3. r[0] = <<>>
    BY <1>2, <1>3 DEF Filters, Goes
  <2>4. ASSUME NEW k \in 1..Len(rules) PROVE r[k] = Keeping(kinds)[<<r[k - 1], rules[k]>>]
    <3>1. k \in 0..Len(rules) /\ k - 1 \in 0..Len(rules) /\ k \in 1..Len(all)
      BY <1>2
    <3>2. t[k] = Keeping(kinds)[<<t[k - 1], all[k]>>]
      BY <1>3, <3>1 DEF Filters, Goes
    <3> QED BY <1>2, <3>1, <3>2
  <2> HIDE DEF r
  <2> QED BY <2>2, <2>3, <2>4 DEF Filters, Goes
<1>5. r[Len(rules)] = t[Len(rules)]
  BY <1>2
<1> HIDE DEF r
<1>6. RulesOf(d, kinds) = t[Len(rules)]
  BY <1>1, <1>2, <1>4, <1>5, RulesGo DEF Filters
<1>7. Len(all) \in 1..Len(all) /\ Len(all) - 1 = Len(rules)
  BY <1>2
<1>8. t[Len(all)] = Keep(t[Len(rules)], all[Len(all)], kinds)
  BY <1>2, <1>3, <1>7, FilterTurns
<1> QED BY <1>2, <1>3, <1>6, <1>8

(* The first rules, and one more. *)
LEMMA OneRuleMore ==
    ASSUME NEW rules \in Seq(Rule), NEW k \in Nat, k + 1 <= Len(rules)
    PROVE  /\ SubSeq(rules, 1, k) \in Seq(Rule)
           /\ SubSeq(rules, 1, k + 1) = Append(SubSeq(rules, 1, k), rules[k + 1])
<1>1. Len(rules) \in Nat
  OBVIOUS
<1>2. PICK a, b : a = SubSeq(rules, 1, k) /\ b = SubSeq(rules, 1, k + 1)
  OBVIOUS
<1>3. a \in Seq(Rule) /\ Len(a) = k /\ \A i \in 1..k : a[i] = rules[i]
  BY <1>1, <1>2
<1>4. b \in Seq(Rule) /\ Len(b) = k + 1 /\ \A i \in 1..(k + 1) : b[i] = rules[i]
  BY <1>1, <1>2
<1>5. PICK c : c = Append(a, rules[k + 1])
  OBVIOUS
<1>6. rules[k + 1] \in Rule
  BY <1>1
<1>7. /\ c \in Seq(Rule) /\ Len(c) = k + 1 /\ c[k + 1] = rules[k + 1]
      /\ \A i \in 1..k : c[i] = rules[i]
  BY <1>3, <1>5, <1>6
<1>8. \A i \in 1..(k + 1) : b[i] = c[i]
  BY <1>4, <1>7
<1>9. b = c
  BY <1>4, <1>7, <1>8
<1> QED BY <1>2, <1>3, <1>5, <1>9

(* A filter keeps all rules if all are of its kinds, and none if none is. *)
LEMMA AllOrNone ==
    ASSUME NEW d, d.rules \in Seq(Rule), NEW kinds
    PROVE  /\ (\A i \in 1..Len(d.rules) : d.rules[i].kind \in kinds) => RulesOf(d, kinds) = d.rules
           /\ (\A i \in 1..Len(d.rules) : d.rules[i].kind \notin kinds) => RulesOf(d, kinds) = <<>>
<1>1. PICK rules : rules = d.rules
  OBVIOUS
<1>2. rules \in Seq(Rule) /\ Len(rules) \in Nat
  BY <1>1
<1>3. PICK t : Filters(t, kinds, rules) /\ RulesOf(d, kinds) = t[Len(rules)]
  BY <1>1, RulesGo DEF Filters
<1>4. t[0] = <<>>
  BY <1>3 DEF Filters, Goes
<1>5. ASSUME \A i \in 1..Len(rules) : rules[i].kind \in kinds PROVE t[Len(rules)] = rules
  <2> DEFINE All == {k \in Nat : k <= Len(rules) => t[k] = SubSeq(rules, 1, k)}
  <2>1. 0 \in All
    <3>1. SubSeq(rules, 1, 0) = <<>>
      BY <1>2
    <3> QED BY <1>4, <3>1
  <2>2. ASSUME NEW k \in Nat, k \in All PROVE k + 1 \in All
    <3> SUFFICES ASSUME k + 1 <= Len(rules) PROVE t[k + 1] = SubSeq(rules, 1, k + 1)
      OBVIOUS
    <3>1. PICK n : n = k + 1
      OBVIOUS
    <3>2. n \in 1..Len(rules) /\ n - 1 = k /\ k <= Len(rules)
      BY <1>2, <3>1
    <3>3. t[k] = SubSeq(rules, 1, k)
      BY <2>2, <3>2
    <3>4. t[n] = Keep(t[k], rules[n], kinds)
      BY <1>2, <1>3, <3>2, FilterTurns
    <3>5. t[n] = Append(t[k], rules[n])
      BY <1>5, <3>2, <3>4 DEF Keep
    <3>6. SubSeq(rules, 1, k + 1) = Append(SubSeq(rules, 1, k), rules[k + 1])
      BY <1>2, OneRuleMore
    <3> QED BY Zenon, <3>1, <3>3, <3>5, <3>6
  <2> HIDE DEF All
  <2>3. Len(rules) \in All
    BY <1>2, <2>1, <2>2, InductionOverNat
  <2>4. SubSeq(rules, 1, Len(rules)) = rules
    BY <1>2
  <2>5. Len(rules) <= Len(rules)
    BY <1>2
  <2> QED BY <2>3, <2>4, <2>5 DEF All
<1>6. ASSUME \A i \in 1..Len(rules) : rules[i].kind \notin kinds PROVE t[Len(rules)] = <<>>
  <2> DEFINE Empty == {k \in Nat : k <= Len(rules) => t[k] = <<>>}
  <2>1. 0 \in Empty
    BY <1>4
  <2>2. ASSUME NEW k \in Nat, k \in Empty PROVE k + 1 \in Empty
    <3> SUFFICES ASSUME k + 1 <= Len(rules) PROVE t[k + 1] = <<>>
      OBVIOUS
    <3>1. PICK n : n = k + 1
      OBVIOUS
    <3>2. n \in 1..Len(rules) /\ n - 1 = k /\ k <= Len(rules)
      BY <1>2, <3>1
    <3>3. t[n] = Keep(t[k], rules[n], kinds)
      BY <1>2, <1>3, <3>2, FilterTurns
    <3> QED BY <1>6, <2>2, <3>1, <3>2, <3>3 DEF Keep
  <2> HIDE DEF Empty
  <2>3. Len(rules) \in Empty
    BY <1>2, <2>1, <2>2, InductionOverNat
  <2> QED BY <1>2, <2>3 DEF Empty
<1> QED BY <1>1, <1>3, <1>5, <1>6

(* Two rules put behind others. *)
LEMMA RulesConcatenate ==
    ASSUME NEW h \in Seq(Rule), NEW a \in Rule, NEW b \in Rule
    PROVE  /\ h \o <<a, b>> = Append(Append(h, a), b)
           /\ (h \o <<a>>) \o <<b>> = Append(Append(h, a), b)
OBVIOUS

(* What the loop and the reference make of a sequence of rules. *)
Result(h, m, f) == Append(Append(h, m), f)
(* The last rule: the user's, or the one that answers 404. *)
Fallback(missing) == IF missing = <<>> THEN FallbackRule ELSE missing[1]

(* normalize_value: a manageable document becomes what the reference makes of it, any other is     *)
(* refused.                                                                                        *)
LEMMA NormalizeMeets ==
    ASSUME NEW d, d.rules \in Seq(Rule), d.root = "rules", NEW port \in Service
    PROVE  IF Manageable(d)
           THEN /\ Normalize(d, port).error = "none"
                /\ Normalize(d, port).rules = Managed(d, port)
                /\ RulesOf(d, {"wildcard"})[1] \in Rule
                /\ Fallback(RulesOf(d, {"not_found"})) \in Rule
                /\ Managed(d, port) = Result(RulesOf(d, Specific),
                                             [RulesOf(d, {"wildcard"})[1] EXCEPT !.service = port],
                                             Fallback(RulesOf(d, {"not_found"})))
           ELSE Normalize(d, port).error # "none"
<1>1. PICK s, r, w, n, h :
         /\ s = ScanAll(d, port) /\ r = RulesOf(d, Refused) /\ w = RulesOf(d, {"wildcard"})
         /\ n = RulesOf(d, {"not_found"}) /\ h = RulesOf(d, Specific)
  OBVIOUS
<1>2. ScanMatches(s, r, w, n, h, port)
  BY <1>1, ScanAgrees
<1>3. w \in Seq(Rule) /\ n \in Seq(Rule) /\ h \in Seq(Rule)
  BY <1>1, RulesKept
<1>4. Manageable(d) <=> r = <<>> /\ Len(w) = 1
  BY <1>1 DEF Manageable
<1>5. Normalize(d, port) =
         IF s.error # "none" THEN Error(s.error)
         ELSE IF s.managed = NoRule THEN Error("no_wildcard")
         ELSE [error |-> "none",
               rules |-> s.specific \o
                   <<s.managed, IF s.fallback = NoRule THEN FallbackRule ELSE s.fallback>>]
  BY <1>1 DEF Normalize
<1>6. Len(w) \in Nat /\ (w = <<>> <=> Len(w) = 0)
  BY <1>3
<1>7. CASE ~ Manageable(d)
  <2>1. CASE s.error # "none"
    BY <1>5, <1>7, <2>1 DEF Error
  <2>2. CASE s.error = "none"
    <3>1. r = <<>> /\ Len(w) <= 1 /\ s.managed = IF w = <<>> THEN NoRule ELSE [w[1] EXCEPT !.service = port]
      BY <1>2, <2>2 DEF ScanMatches
    <3>2. w = <<>>
      <4>1. Len(w) # 1
        BY Zenon, <1>4, <1>7, <3>1
      <4>a. Len(w) <= 1 /\ Len(w) \in Nat
        BY Zenon, <1>6, <3>1
      <4>2. Len(w) = 0
        <5>1. PICK len : len = Len(w)
          OBVIOUS
        <5>2. len # 1 /\ len <= 1 /\ len \in Nat
          BY Zenon, <4>1, <4>a, <5>1
        <5>3. len = 0
          BY <5>2
        <5> QED BY <5>1, <5>3
      <4> QED BY Zenon, <1>6, <4>2
    <3>3. s.managed = NoRule
      BY <3>1, <3>2
    <3>4. Normalize(d, port) = Error("no_wildcard")
      BY <1>5, <2>2, <3>3
    <3> QED BY <1>7, <3>4 DEF Error
  <2> QED BY <2>1, <2>2
<1>8. CASE Manageable(d)
  <2>1. r = <<>> /\ Len(w) = 1 /\ w # <<>>
    <3>1. r = <<>> /\ Len(w) = 1
      BY Zenon, <1>4, <1>8
    <3>2. Len(w) # 0
      BY <3>1
    <3> QED BY Zenon, <1>6, <3>1, <3>2
  <2>2. s.error = "none"
    BY <1>2, <2>1 DEF ScanMatches
  <2>3. PICK m, f : m = [w[1] EXCEPT !.service = port] /\ f = Fallback(n)
    OBVIOUS
  <2>4. w[1] \in Rule
    BY <1>3, <2>1
  <2>5. m \in Rule /\ m # NoRule
    BY <2>3, <2>4, Relabelled, RuleFacts
  <2>6. f \in Rule
    <3>1. n # <<>> => n[1] \in Rule
      BY <1>3
    <3> QED BY <2>3, <3>1, RuleFacts DEF Fallback
  <2>7. s.specific = h /\ s.managed = m
    BY <1>2, <2>1, <2>2, <2>3 DEF ScanMatches
  <2>8. (IF s.fallback = NoRule THEN FallbackRule ELSE s.fallback) = f
    <3>1. s.fallback = IF n = <<>> THEN NoRule ELSE n[1]
      BY <1>2, <2>2 DEF ScanMatches
    <3>2. n # <<>> => n[1] # NoRule
      <4>1. n # <<>> => n[1] \in Rule
        BY <1>3
      <4> QED BY <4>1, RuleFacts
    <3> QED BY <2>3, <3>1, <3>2 DEF Fallback
  <2>9. h \o <<m, f>> = Result(h, m, f) /\ (h \o <<m>>) \o <<f>> = Result(h, m, f)
    BY <1>3, <2>5, <2>6, RulesConcatenate DEF Result
  <2>10. Normalize(d, port) = [error |-> "none", rules |-> h \o <<m, f>>]
    BY Zenon, <1>5, <2>2, <2>5, <2>7, <2>8
  <2>11. Normalize(d, port).error = "none" /\ Normalize(d, port).rules = Result(h, m, f)
    BY <2>9, <2>10
  <2>12. Managed(d, port) = (h \o <<m>>) \o <<f>>
    BY Zenon, <1>1, <2>3 DEF Managed, Specific, Fallback
  <2>13. Managed(d, port) = Result(h, m, f)
    BY Zenon, <2>9, <2>12
  <2> QED BY <1>1, <1>8, <2>3, <2>4, <2>6, <2>11, <2>13
<1> QED BY <1>7, <1>8

(* What the reference makes of a result. *)
HasResult(e, h, m, f) ==
    /\ h \in Seq(Rule) /\ \A i \in 1..Len(h) : h[i].kind \in Specific
    /\ m \in Rule /\ m.kind = "wildcard" /\ f \in Rule /\ f.kind = "not_found"
    /\ e.root = "rules" /\ e.rules = Result(h, m, f)

(* The result is a manageable document with the same specific rules. *)
LEMMA ResultIsManageable ==
    ASSUME NEW e, NEW h, NEW m, NEW f, HasResult(e, h, m, f)
    PROVE  /\ e.rules \in Seq(Rule) /\ Manageable(e) /\ RulesOf(e, Specific) = h
           /\ RulesOf(e, {"wildcard"}) = <<m>> /\ RulesOf(e, {"not_found"}) = <<f>>
<1>a. /\ h \in Seq(Rule) /\ \A i \in 1..Len(h) : h[i].kind \in Specific
      /\ m \in Rule /\ m.kind = "wildcard" /\ f \in Rule /\ f.kind = "not_found"
      /\ e.root = "rules" /\ e.rules = Result(h, m, f)
  BY DEF HasResult
<1>1. PICK d : d = WithRules(h)
  OBVIOUS
<1>2. PICK c : c = WithRules(Append(h, m))
  OBVIOUS
<1>3. d.rules = h /\ c.rules = Append(h, m) /\ e.rules = Append(c.rules, f)
  BY <1>a, <1>1, <1>2 DEF WithRules, Result
<1>4. d.rules \in Seq(Rule) /\ c.rules \in Seq(Rule) /\ e.rules \in Seq(Rule)
  BY <1>a, <1>3
<1>b. Longer(d, m, c) /\ Longer(c, f, e)
  BY <1>a, <1>3, <1>4, Zenon DEF Longer
<1>5. ASSUME NEW kinds
      PROVE  RulesOf(e, kinds) = Keep(Keep(RulesOf(d, kinds), m, kinds), f, kinds)
  <2>1. RulesOf(c, kinds) = Keep(RulesOf(d, kinds), m, kinds)
    BY <1>b, RulesOfLonger, Zenon
  <2>2. RulesOf(e, kinds) = Keep(RulesOf(c, kinds), f, kinds)
    BY <1>b, RulesOfLonger, Zenon
  <2> QED BY <2>1, <2>2
<1>6. \A i \in 1..Len(d.rules) : d.rules[i].kind \in Specific
  BY <1>a, <1>3
<1>7. RulesOf(d, Specific) = h
  BY <1>3, <1>4, <1>6, AllOrNone
<1>8. ASSUME NEW kinds, kinds \cap Specific = {} PROVE RulesOf(d, kinds) = <<>>
  <2>1. \A i \in 1..Len(d.rules) : d.rules[i].kind \notin kinds
    BY <1>6, <1>8
  <2> QED BY <1>4, <2>1, AllOrNone
<1>9. RulesOf(e, Specific) = h
  <2>1. "wildcard" \notin Specific /\ "not_found" \notin Specific
    BY DEF Specific
  <2> QED BY <1>a, <1>5, <1>7, <2>1 DEF Keep
<1>10. RulesOf(e, Refused) = <<>>
  <2>1. Refused \cap Specific = {} /\ "wildcard" \notin Refused /\ "not_found" \notin Refused
    BY DEF Specific, Refused
  <2>2. RulesOf(d, Refused) = <<>>
    BY <1>8, <2>1
  <2> QED BY <1>a, <1>5, <2>1, <2>2 DEF Keep
<1>11. Append(<<>>, m) = <<m>> /\ Append(<<>>, f) = <<f>> /\ Len(<<m>>) = 1
  OBVIOUS
<1>12. RulesOf(e, {"wildcard"}) = <<m>>
  <2>1. {"wildcard"} \cap Specific = {}
    BY DEF Specific
  <2>2. RulesOf(d, {"wildcard"}) = <<>>
    BY <1>8, <2>1
  <2>3. RulesOf(e, {"wildcard"}) = Keep(Keep(<<>>, m, {"wildcard"}), f, {"wildcard"})
    BY <1>5, <2>2
  <2>4. Keep(<<>>, m, {"wildcard"}) = <<m>>
    BY <1>a, <1>11 DEF Keep
  <2>5. Keep(<<m>>, f, {"wildcard"}) = <<m>>
    BY <1>a DEF Keep
  <2> QED BY <2>3, <2>4, <2>5
<1>13. RulesOf(e, {"not_found"}) = <<f>>
  <2>1. {"not_found"} \cap Specific = {}
    BY DEF Specific
  <2>2. RulesOf(d, {"not_found"}) = <<>>
    BY <1>8, <2>1
  <2>3. RulesOf(e, {"not_found"}) = Keep(Keep(<<>>, m, {"not_found"}), f, {"not_found"})
    BY <1>5, <2>2
  <2>4. Keep(<<>>, m, {"not_found"}) = <<>>
    BY <1>a DEF Keep
  <2>5. Keep(<<>>, f, {"not_found"}) = <<f>>
    BY <1>a, <1>11 DEF Keep
  <2> QED BY <2>3, <2>4, <2>5
<1>14. Manageable(e)
  BY <1>a, <1>10, <1>11, <1>12 DEF Manageable
<1> QED BY <1>4, <1>9, <1>12, <1>13, <1>14

(* A document that has rules, or none that could be read. *)
Normalizable(d) ==
    /\ d.rules \in Seq(Rule)
    /\ d.root = "rules" \/ (d.root \in BareRoot /\ d.rules = <<>>)

(* What NormalizedIsManaged says, for any document of rules: normalized for one port and then for  *)
(* the next it is what the reference makes of it for the next.                                     *)
LEMMA DocumentIsManaged ==
    ASSUME NEW d, Normalizable(d)
    PROVE  LET result == Normalize(d, "port")
           IN  IF Manageable(d)
               THEN /\ result.error = "none" /\ result.rules = Managed(d, "port")
                    /\ Normalize(WithRules(result.rules), "next_port").rules = Managed(d, "next_port")
               ELSE result.error # "none"
<1>1. d.rules \in Seq(Rule) /\ "port" \in Service /\ "next_port" \in Service
  BY DEF Normalizable, Service
<1>2. PICK result : result = Normalize(d, "port")
  OBVIOUS
<1>3. CASE d.root # "rules"
  <2>1. d.root \in BareRoot /\ d.rules = <<>> /\ ~ Manageable(d)
    BY <1>3 DEF Normalizable, Manageable
  <2>2. CASE d.root \in {"not_yaml", "no_mapping", "no_sequence"}
    <3>1. result = Error(d.root)
      BY <1>2, <2>2 DEF Normalize
    <3>2. result.error # "none"
      BY <2>2, <3>1 DEF Error
    <3> QED BY <1>2, <2>1, <3>2
  <2>3. CASE d.root \notin {"not_yaml", "no_mapping", "no_sequence"}
    <3>1. PICK s : s = ScanAll(d, "port")
      OBVIOUS
    <3>2. RulesOf(d, {"wildcard"}) = <<>> /\ RulesOf(d, Refused) = <<>>
      <4>1. Len(d.rules) = 0
        BY <2>1
      <4> QED BY <1>1, <4>1, AllOrNone
    <3>3. ScanMatches(s, RulesOf(d, Refused), RulesOf(d, {"wildcard"}), RulesOf(d, {"not_found"}),
                 RulesOf(d, Specific), "port")
      BY <1>1, <3>1, ScanAgrees
    <3>4. s.error = "none" => s.managed = NoRule
      BY <3>2, <3>3 DEF ScanMatches
    <3>5. result = IF s.error # "none" THEN Error(s.error) ELSE Error("no_wildcard")
      BY <1>2, <2>3, <3>1, <3>4 DEF Normalize
    <3>6. result.error # "none"
      BY <3>5 DEF Error
    <3> QED BY <1>2, <2>1, <3>6
  <2> QED BY <2>2, <2>3
<1>4. CASE d.root = "rules" /\ ~ Manageable(d)
  BY <1>1, <1>2, <1>4, NormalizeMeets
<1>5. CASE d.root = "rules" /\ Manageable(d)
  <2>1. PICK h, w, n : /\ h = RulesOf(d, Specific) /\ w = RulesOf(d, {"wildcard"})
                       /\ n = RulesOf(d, {"not_found"})
    OBVIOUS
  <2>2. PICK rule, f : rule = w[1] /\ f = Fallback(n)
    OBVIOUS
  <2>3. /\ result.error = "none" /\ result.rules = Managed(d, "port")
        /\ rule \in Rule /\ f \in Rule
        /\ Managed(d, "port") = Result(h, [rule EXCEPT !.service = "port"], f)
    BY <1>1, <1>2, <1>5, <2>1, <2>2, NormalizeMeets
  <2>4. Managed(d, "next_port") = Result(h, [rule EXCEPT !.service = "next_port"], f)
    BY <1>1, <1>5, <2>1, <2>2, NormalizeMeets
  <2>5. PICK m : m = [rule EXCEPT !.service = "port"]
    OBVIOUS
  <2>6. /\ m \in Rule /\ m.kind = rule.kind
        /\ [m EXCEPT !.service = "next_port"] = [rule EXCEPT !.service = "next_port"]
    BY <1>1, <2>3, <2>5, Relabelled
  <2>7. h \in Seq(Rule) /\ \A i \in 1..Len(h) : h[i].kind \in Specific
    BY <1>1, <2>1, RulesKept
  <2>8. rule.kind = "wildcard"
    <3>1. w \in Seq(Rule) /\ \A i \in 1..Len(w) : w[i].kind \in {"wildcard"}
      BY <1>1, <2>1, RulesKept
    <3>2. Len(w) = 1
      BY <1>5, <2>1 DEF Manageable
    <3> QED BY <2>2, <3>1, <3>2
  <2>9. f.kind = "not_found"
    <3>1. n \in Seq(Rule) /\ \A i \in 1..Len(n) : n[i].kind \in {"not_found"}
      BY <1>1, <2>1, RulesKept
    <3>2. n # <<>> => n[1].kind = "not_found"
      BY <3>1
    <3> QED BY <2>2, <3>2, RuleFacts DEF Fallback
  <2>10. PICK e : e = WithRules(result.rules)
    OBVIOUS
  <2>11. e.root = "rules" /\ e.rules = Result(h, m, f)
    BY <2>3, <2>5, <2>10 DEF WithRules
  <2>12. /\ e.rules \in Seq(Rule) /\ Manageable(e) /\ RulesOf(e, Specific) = h
         /\ RulesOf(e, {"wildcard"}) = <<m>> /\ RulesOf(e, {"not_found"}) = <<f>>
    <3>1. HasResult(e, h, m, f)
      BY <2>3, <2>6, <2>7, <2>8, <2>9, <2>11 DEF HasResult
    <3> QED BY <3>1, ResultIsManageable
  <2>13. /\ Normalize(e, "next_port").rules = Managed(e, "next_port")
         /\ Managed(e, "next_port") = Result(RulesOf(e, Specific),
                                [RulesOf(e, {"wildcard"})[1] EXCEPT !.service = "next_port"],
                                Fallback(RulesOf(e, {"not_found"})))
    BY <1>1, <2>11, <2>12, NormalizeMeets
  <2>14. RulesOf(e, {"wildcard"})[1] = m /\ Fallback(RulesOf(e, {"not_found"})) = f
    <3>1. <<m>>[1] = m /\ <<f>>[1] = f /\ <<f>> # <<>>
      OBVIOUS
    <3> QED BY <2>12, <3>1 DEF Fallback
  <2>15. Normalize(e, "next_port").rules = Managed(d, "next_port")
    BY <2>4, <2>6, <2>12, <2>13, <2>14
  <2> QED BY <1>2, <1>5, <2>3, <2>10, <2>15
<1> QED BY <1>3, <1>4, <1>5

(* The documents of Ingress.tla are documents of rules. *)
LEMMA DocumentsAreNormalizable == \A d \in Documents : Normalizable(d)
<1> SUFFICES ASSUME NEW d \in Documents PROVE Normalizable(d)
  OBVIOUS
<1>1. CASE d \in {Bare(root) : root \in BareRoot}
  <2>1. PICK root \in BareRoot : d = Bare(root)
    BY <1>1
  <2>2. d.root = root /\ d.rules = <<>> /\ <<>> \in Seq(Rule)
    BY <2>1 DEF Bare
  <2> QED BY <2>1, <2>2 DEF Normalizable
<1>2. CASE d \notin {Bare(root) : root \in BareRoot}
  <2>1. PICK kinds \in UNION {[1..n -> RuleKind] : n \in 0..MaxRules} :
           d = WithRules([i \in DOMAIN kinds |-> [kind |-> kinds[i], line |-> i, service |-> "user"]])
    BY <1>2 DEF Documents
  <2>2. PICK n \in 0..MaxRules : kinds \in [1..n -> RuleKind]
    BY <2>1
  <2>3. n \in Nat
    BY RulesAssumption
  <2>4. PICK rules : rules = [i \in DOMAIN kinds |-> [kind |-> kinds[i], line |-> i, service |-> "user"]]
    OBVIOUS
  <2>5. rules \in [1..n -> Rule]
    <3>1. DOMAIN kinds = 1..n
      BY <2>2
    <3>2. ASSUME NEW i \in 1..n
          PROVE  [kind |-> kinds[i], line |-> i, service |-> "user"] \in Rule
      BY <2>2, <2>3 DEF Rule, Service
    <3> QED BY <2>4, <3>1, <3>2
  <2>6. rules \in Seq(Rule)
    BY <2>3, <2>5
  <2>7. d.root = "rules" /\ d.rules = rules
    BY <2>1, <2>4 DEF WithRules
  <2> QED BY <2>6, <2>7 DEF Normalizable
<1> QED BY <1>1, <1>2

(* Every document is refused or becomes a managed one that keeps the user's rules in their order,  *)
(* and to normalize it for the next port changes the port and nothing else (cloudflare_config.rs   *)
(* normalize_value).                                                                               *)
THEOREM NormalizedStaysManaged == InstallSafety => []NormalizedIsManaged
<1>1. InstallInit => Normalizable(document)
  <2>1. Bare("no_ingress") \in Documents
    BY DEF Documents, BareRoot
  <2> QED BY <2>1, DocumentsAreNormalizable DEF InstallInit
<1>2. Normalizable(document) /\ [InstallNext]_installVars => Normalizable(document)'
  <2> SUFFICES ASSUME Normalizable(document), [InstallNext]_installVars
               PROVE  Normalizable(document')
    BY DEF Normalizable
  <2>1. document' \in Documents \/ document' = document
    BY DEF InstallNext, TakeDocument, installVars
  <2> QED BY <2>1, DocumentsAreNormalizable
<1>3. Normalizable(document) => NormalizedIsManaged
  <2> SUFFICES ASSUME Normalizable(document) PROVE NormalizedIsManaged
    OBVIOUS
  <2>1. PICK d : d = document
    OBVIOUS
  <2> QED BY <2>1, DocumentIsManaged DEF NormalizedIsManaged
<1> QED BY <1>1, <1>2, <1>3, PTL DEF InstallSafety

------------------------------------------------------------------------------
(* The bytes that are counted (Traffic.tla). *)

(* One more at one place is one more in the sum. *)
LEMMA SumBumped ==
    ASSUME NEW N \in Nat, NEW S \in SUBSET (1..N), NEW f \in [S -> Nat], NEW x \in S
    PROVE  SumFunction([f EXCEPT ![x] = f[x] + 1]) = SumFunction(f) + 1
<1> DEFINE h == [f EXCEPT ![x] = f[x] + 1]
<1>1. h \in [S -> Nat] /\ h[x] = f[x] + 1
  OBVIOUS
<1>2. [y \in S \ {x} |-> h[y]] = [y \in S \ {x} |-> f[y]]
  OBVIOUS
<1> HIDE DEF h
<1>3. SumFunction(h) = SumFunction([y \in S \ {x} |-> h[y]]) + h[x]
  BY <1>1, SumSplits
<1>4. SumFunction(f) = SumFunction([y \in S \ {x} |-> f[y]]) + f[x]
  BY SumSplits
<1>5. [y \in S \ {x} |-> f[y]] \in [S \ {x} -> Nat] /\ S \ {x} \in SUBSET (1..N)
  OBVIOUS
<1>6. SumFunction([y \in S \ {x} |-> f[y]]) \in Nat
  BY <1>5, SumSplits
<1>7. PICK rest, all, more : /\ rest = SumFunction([y \in S \ {x} |-> f[y]])
                             /\ all = SumFunction(f) /\ more = SumFunction(h)
  OBVIOUS
<1>8. rest \in Nat /\ all = rest + f[x] /\ more = rest + h[x]
  BY Zenon, <1>2, <1>3, <1>4, <1>6, <1>7
<1>9. f[x] \in Nat
  OBVIOUS
<1>10. more = all + 1
  BY <1>1, <1>8, <1>9
<1> QED BY <1>7, <1>10 DEF h

(* Place x of the first N is not one of S. *)
Beside(N, S, x) == N \in Nat /\ S \in SUBSET (1..N) /\ x \in (1..N) \ S

(* The part of f on S. *)
On(f, S) == [y \in S |-> f[y]]

(* A place with nothing in it adds nothing. *)
LEMMA SumJoined ==
    ASSUME NEW N, NEW S, NEW x, Beside(N, S, x),
           NEW f, f \in [S \cup {x} -> Nat], f[x] = 0
    PROVE  SumFunction(f) = SumFunction(On(f, S))
<1>a. N \in Nat /\ S \in SUBSET (1..N) /\ x \in (1..N) \ S
  BY DEF Beside
<1>1. S \cup {x} \in SUBSET (1..N) /\ (S \cup {x}) \ {x} = S /\ x \in S \cup {x}
  BY <1>a
<1>6. PICK T : T = S \cup {x}
  OBVIOUS
<1>7. T \in SUBSET (1..N) /\ f \in [T -> Nat] /\ x \in T
  BY <1>1, <1>6
<1>8. SumFunction(f) = SumFunction([y \in T \ {x} |-> f[y]]) + f[x]
  BY <1>a, <1>7, SumSplits
<1>2. SumFunction(f) = SumFunction([y \in (S \cup {x}) \ {x} |-> f[y]]) + f[x]
  BY Zenon, <1>6, <1>8
<1>3. [y \in S |-> f[y]] \in [S -> Nat]
  OBVIOUS
<1>4. SumFunction([y \in S |-> f[y]]) \in Nat
  BY <1>a, <1>3, SumSplits
<1>5. SumFunction(f) = SumFunction([y \in S |-> f[y]]) + 0
  BY Zenon, <1>1, <1>2
<1>9. SumFunction(f) = SumFunction([y \in S |-> f[y]])
  BY <1>4, <1>5
<1> QED BY <1>9, Zenon DEF On

------------------------------------------------------------------------------
(* What the counters of some owners show of the bytes that passed in one direction. *)
Shown(owners, counts, direction) == SumFunction([n \in owners |-> counts[n][direction]])

(* The owners account for what passed: all of it is shown, or a counter is at its limit. *)
Accounts(owners, counts, direction, passed) ==
    /\ owners \in SUBSET Sessions /\ counts \in [Sessions -> [Direction -> Nat]]
    /\ direction \in Direction /\ passed \in Nat
    /\ \/ Shown(owners, counts, direction) = passed
       \/ /\ Shown(owners, counts, direction) < passed
          /\ \E n \in owners : counts[n][direction] = MaxCount

(* What is shown is a number. *)
LEMMA ShownCounts ==
    ASSUME NEW owners, NEW counts, NEW direction, NEW passed,
           Accounts(owners, counts, direction, passed)
    PROVE  /\ [n \in owners |-> counts[n][direction]] \in [owners -> Nat]
           /\ Shown(owners, counts, direction) \in Nat
<1>1. [n \in owners |-> counts[n][direction]] \in [owners -> Nat]
  BY DEF Accounts
<1>2. owners \in SUBSET (1..MaxSession) /\ MaxSession \in Nat
  BY MaxSessionAssumption DEF Accounts, Sessions
<1>3. SumFunction([n \in owners |-> counts[n][direction]]) \in Nat
  BY <1>1, <1>2, SumSplits
<1> QED BY <1>1, <1>3 DEF Shown

(* Another owner that has counted nothing changes nothing. *)
LEMMA AccountsJoin ==
    ASSUME NEW owners, NEW counts, NEW direction, NEW passed,
           Accounts(owners, counts, direction, passed),
           NEW new \in Sessions \ owners, counts[new][direction] = 0
    PROVE  Accounts(owners \cup {new}, counts, direction, passed)
<1> DEFINE f == [n \in owners \cup {new} |-> counts[n][direction]]
<1>1. f \in [owners \cup {new} -> Nat] /\ f[new] = 0
  BY DEF Accounts
<1>2. owners \in SUBSET (1..MaxSession) /\ MaxSession \in Nat /\ new \in (1..MaxSession) \ owners
  BY MaxSessionAssumption DEF Accounts, Sessions
<1>3. [n \in owners |-> f[n]] = [n \in owners |-> counts[n][direction]]
  OBVIOUS
<1>4. SumFunction(f) = SumFunction([n \in owners |-> f[n]])
  <2> HIDE DEF f
  <2>1. Beside(MaxSession, owners, new)
    BY <1>2, Zenon DEF Beside
  <2>2. SumFunction(f) = SumFunction(On(f, owners))
    BY <1>1, <2>1, SumJoined, ZenonT(60)
  <2> QED BY <2>2, Zenon DEF On
<1>5. Shown(owners \cup {new}, counts, direction) = Shown(owners, counts, direction)
  BY Zenon, <1>3, <1>4 DEF Shown
<1>6. owners \cup {new} \in SUBSET Sessions
  BY DEF Accounts
<1> QED BY <1>5, <1>6 DEF Accounts

(* The counters after a byte of owner n passed in a direction. *)
Counted(counts, n, direction) ==
    [counts EXCEPT ![n][direction] = SaturatingAdd(@)]

(* A byte changes one counter. *)
LEMMA CountedChanges ==
    ASSUME NEW counts \in [Sessions -> [Direction -> Nat]], NEW n \in Sessions,
           NEW direction \in Direction
    PROVE  /\ Counted(counts, n, direction) \in [Sessions -> [Direction -> Nat]]
           /\ Counted(counts, n, direction)[n][direction] = SaturatingAdd(counts[n][direction])
           /\ \A m \in Sessions, other \in Direction : m # n \/ other # direction =>
                 Counted(counts, n, direction)[m][other] = counts[m][other]
BY CountAssumption DEF Counted, SaturatingAdd

(* The byte of an owner is counted, or its counter is at its limit. *)
LEMMA AccountsCount ==
    ASSUME NEW owners, NEW counts, NEW direction, NEW passed,
           Accounts(owners, counts, direction, passed), NEW n \in owners
    PROVE  Accounts(owners, Counted(counts, n, direction), direction, passed + 1)
<1> DEFINE after == Counted(counts, n, direction)
           f == [m \in owners |-> counts[m][direction]]
           h == [m \in owners |-> after[m][direction]]
<1>1. /\ owners \in SUBSET Sessions /\ counts \in [Sessions -> [Direction -> Nat]]
      /\ direction \in Direction /\ passed \in Nat /\ n \in Sessions
  BY DEF Accounts
<1>2. /\ after \in [Sessions -> [Direction -> Nat]]
      /\ after[n][direction] = SaturatingAdd(counts[n][direction])
      /\ \A m \in Sessions, other \in Direction : m # n \/ other # direction =>
            after[m][other] = counts[m][other]
  BY <1>1, CountedChanges
<1> HIDE DEF after
<1>3. owners \in SUBSET (1..MaxSession) /\ MaxSession \in Nat /\ f \in [owners -> Nat]
  BY <1>1, MaxSessionAssumption DEF Sessions
<1>4. SumFunction(f) \in Nat /\ SumFunction(f) = Shown(owners, counts, direction)
  BY ShownCounts DEF Shown
<1>5. SumFunction(h) = Shown(owners, after, direction)
  BY DEF Shown
<1>6. CASE counts[n][direction] = MaxCount
  <2>1. \A m \in owners : after[m][direction] = counts[m][direction]
    BY <1>1, <1>2, <1>6 DEF SaturatingAdd
  <2>2. h = f
    BY <2>1
  <2> HIDE DEF h, f
  <2>3. Shown(owners, after, direction) = Shown(owners, counts, direction)
    BY Zenon, <1>4, <1>5, <2>2
  <2>4. PICK shown : shown = Shown(owners, counts, direction)
    OBVIOUS
  <2>5. shown \in Nat /\ (shown = passed \/ shown < passed)
    BY <1>4, <2>4 DEF Accounts
  <2>6. shown < passed + 1 /\ passed + 1 \in Nat
    BY <1>1, <2>5
  <2>7. after[n][direction] = MaxCount
    BY <1>6, <2>1
  <2> QED BY <1>1, <1>2, <2>3, <2>4, <2>6, <2>7 DEF Accounts, after
<1>7. CASE counts[n][direction] # MaxCount
  <2>1. after[n][direction] = counts[n][direction] + 1
    BY <1>2, <1>7 DEF SaturatingAdd
  <2>2. h = [f EXCEPT ![n] = f[n] + 1]
    BY <1>1, <1>2, <2>1
  <2> HIDE DEF h, f
  <2>3. SumFunction([f EXCEPT ![n] = f[n] + 1]) = SumFunction(f) + 1
    BY <1>3, SumBumped
  <2>4. PICK shown, more : /\ shown = Shown(owners, counts, direction)
                           /\ more = Shown(owners, after, direction)
    OBVIOUS
  <2>5. shown \in Nat /\ more = shown + 1
    BY Zenon, <1>4, <1>5, <2>2, <2>3, <2>4
  <2>6. \/ shown = passed
        \/ shown < passed /\ \E m \in owners : counts[m][direction] = MaxCount
    BY <2>4 DEF Accounts
  <2>7. passed + 1 \in Nat /\ (shown = passed => more = passed + 1)
        /\ (shown < passed => more < passed + 1)
    BY <1>1, <2>5
  <2>8. (\E m \in owners : counts[m][direction] = MaxCount) =>
            \E m \in owners : after[m][direction] = MaxCount
    BY <1>1, <1>2, <1>7
  <2>9. \/ more = passed + 1
        \/ more < passed + 1 /\ \E m \in owners : after[m][direction] = MaxCount
    BY Zenon, <2>6, <2>7, <2>8
  <2> QED BY Zenon, <1>1, <1>2, <2>4, <2>7, <2>9 DEF Accounts, after
<1> QED BY <1>6, <1>7

(* It counts for nobody else and in no other direction. *)
LEMMA AccountsOthers ==
    ASSUME NEW owners, NEW counts, NEW direction, NEW passed,
           Accounts(owners, counts, direction, passed), NEW n \in Sessions,
           NEW other \in Direction, n \notin owners \/ other # direction
    PROVE  Accounts(owners, Counted(counts, n, other), direction, passed)
<1> DEFINE after == Counted(counts, n, other)
<1>1. /\ owners \in SUBSET Sessions /\ counts \in [Sessions -> [Direction -> Nat]]
      /\ direction \in Direction /\ passed \in Nat
  BY DEF Accounts
<1>2. /\ after \in [Sessions -> [Direction -> Nat]]
      /\ \A m \in Sessions, d \in Direction : m # n \/ d # other =>
            after[m][d] = counts[m][d]
  BY <1>1, CountedChanges
<1> HIDE DEF after
<1>3. \A m \in owners : after[m][direction] = counts[m][direction]
  BY <1>1, <1>2
<1>4. [m \in owners |-> after[m][direction]] = [m \in owners |-> counts[m][direction]]
  BY <1>3
<1>5. Shown(owners, after, direction) = Shown(owners, counts, direction)
  BY Zenon, <1>4 DEF Shown
<1>6. (\E m \in owners : counts[m][direction] = MaxCount) =>
          \E m \in owners : after[m][direction] = MaxCount
  BY <1>3
<1> QED BY <1>1, <1>2, <1>5, <1>6 DEF Accounts, after

(* The sessions whose route had this port. *)
OwnersOf(port) == {route.session : route \in {x \in Issued : x.port = port}}

(* A session has one route for good, an unused session no bytes, and the bytes of every port are in *)
(* the accounts of its owners.                                                                      *)
ByteInv ==
    /\ RouteInv
    /\ counters \in [Sessions -> [Direction -> Nat]]
    /\ carried \in [Ports -> [Direction -> Nat]]
    /\ \A route \in Issued : route.session <= sessions
    /\ \A one, other \in Issued : one.session = other.session => one = other
    /\ \A n \in Sessions, direction \in Direction : n > sessions => counters[n][direction] = 0
    /\ \A port \in Ports, direction \in Direction :
          Accounts(OwnersOf(port), counters, direction, carried[port][direction])

(* What was issued is a route. *)
LEMMA IssuedAreRoutes == RouteInv => Issued \subseteq Route
BY DEF RouteInv, Issued, Routes, Registry

(* A session brings one route, under a number nobody had. *)
LEMMA IssuedGrows ==
    ASSUME RouteInv, OwnerRegisters
    PROVE  \E route \in Route : /\ route.session = sessions + 1 /\ sessions + 1 \in Sessions
                                /\ Issued' = Issued \cup {route}
<1>1. PICK port \in Ports, wanted \in Slugs \cup {NoSlug} :
          \E slug \in SlugChoices(forwards, port, wanted) :
              forwards' = AddRoute(forwards, [slug |-> slug, port |-> port, session |-> sessions + 1])
  BY DEF OwnerRegisters
<1>2. PICK slug \in SlugChoices(forwards, port, wanted) :
          forwards' = AddRoute(forwards, [slug |-> slug, port |-> port, session |-> sessions + 1])
  BY <1>1
<1>3. PICK route : route = [slug |-> slug, port |-> port, session |-> sessions + 1]
  OBVIOUS
<1>4. sessions + 1 \in Sessions /\ UNCHANGED ended
  BY MaxSessionAssumption DEF OwnerRegisters, RouteInv, Sessions
<1>5. slug \in Slugs /\ forwards.bySlug[slug] = NoRoute
  BY SlugChoicesAreFree DEF RouteInv
<1>6. route \in Route /\ route.slug = slug /\ route.session = sessions + 1
  BY <1>3, <1>4, <1>5 DEF Route
<1>7. Routes(AddRoute(forwards, route)) = Routes(forwards) \cup {route}
  BY <1>5, <1>6, RoutesAfterAdd DEF RouteInv
<1>8. Routes(forwards') = Routes(forwards) \cup {route}
  BY Zenon, <1>2, <1>3, <1>7
<1>9. Issued' = Issued \cup {route}
  BY <1>4, <1>8 DEF Issued
<1> QED BY <1>4, <1>6, <1>9

(* A session that ends leaves its route among those that are kept. *)
LEMMA IssuedKept ==
    ASSUME RouteInv, OwnerLeaves
    PROVE  Issued' = Issued
<1>1. PICK n \in Sessions :
          /\ forwards' = RemoveSession(forwards, n)
          /\ ended' = ended \cup {route \in Routes(forwards) : route.session = n}
  BY DEF OwnerLeaves
<1>2. Routes(RemoveSession(forwards, n)) = {route \in Routes(forwards) : route.session # n}
  BY RoutesAfterRemove DEF RouteInv
<1>3. Routes(forwards') = {route \in Routes(forwards) : route.session # n}
  BY Zenon, <1>1, <1>2
<1> QED BY <1>1, <1>3 DEF Issued

(* The invariant is inductive. *)
LEMMA ByteInvNext == ByteInv /\ [TrafficNext]_trafficVars => ByteInv'
<1> SUFFICES ASSUME ByteInv, [TrafficNext]_trafficVars PROVE ByteInv'
  OBVIOUS
<1>1. RouteInv'
  BY RouteInvNext DEF ByteInv
<1>2. CASE UNCHANGED <<sessions, counters, carried>> /\ Issued' = Issued
  <2>1. \A port : OwnersOf(port)' = OwnersOf(port)
    BY <1>2 DEF OwnersOf
  <2> QED BY <1>1, <1>2, <2>1 DEF ByteInv
<1>3. CASE OwnerRegisters
  <2>1. PICK route \in Route : /\ route.session = sessions + 1 /\ sessions + 1 \in Sessions
                               /\ Issued' = Issued \cup {route}
    BY <1>3, IssuedGrows DEF ByteInv
  <2>2. sessions' = sessions + 1 /\ UNCHANGED <<counters, carried>> /\ sessions \in Nat
    BY <1>3, MaxSessionAssumption DEF OwnerRegisters, ByteInv, RouteInv
  <2>3. \A old \in Issued : old.session \in Nat /\ old.session <= sessions
    BY IssuedAreRoutes DEF ByteInv, Route, Sessions
  <2>4. \A old \in Issued' : old.session <= sessions'
    BY <2>1, <2>2, <2>3
  <2>5. \A one, other \in Issued' : one.session = other.session => one = other
    <3>1. \A old \in Issued : old.session # route.session
      BY <2>1, <2>2, <2>3
    <3> QED BY <2>1, <3>1 DEF ByteInv
  <2>6. \A n \in Sessions, direction \in Direction : n > sessions' => counters'[n][direction] = 0
    <3>1. \A n \in Sessions : n > sessions + 1 => n > sessions
      BY <2>2 DEF Sessions
    <3> QED BY <2>2, <3>1 DEF ByteInv
  <2>7. ASSUME NEW port \in Ports, NEW direction \in Direction
        PROVE  Accounts(OwnersOf(port)', counters, direction, carried[port][direction])
    <3>1. Accounts(OwnersOf(port), counters, direction, carried[port][direction])
      BY DEF ByteInv
    <3>2. CASE route.port = port
      <4>1. OwnersOf(port)' = OwnersOf(port) \cup {sessions + 1}
        BY <2>1, <3>2 DEF OwnersOf
      <4>2. sessions + 1 \notin OwnersOf(port)
        BY <2>2, <2>3 DEF OwnersOf
      <4>3. counters[sessions + 1][direction] = 0
        BY <2>1, <2>2 DEF ByteInv
      <4>4. Accounts(OwnersOf(port) \cup {sessions + 1}, counters, direction,
                     carried[port][direction])
        BY <2>1, <3>1, <4>2, <4>3, AccountsJoin
      <4> QED BY Zenon, <4>1, <4>4
    <3>3. CASE route.port # port
      <4>1. OwnersOf(port)' = OwnersOf(port)
        BY <2>1, <3>3 DEF OwnersOf
      <4> QED BY Zenon, <3>1, <4>1
    <3> QED BY <3>2, <3>3
  <2> QED BY <1>1, <2>2, <2>4, <2>5, <2>6, <2>7 DEF ByteInv
<1>4. CASE OwnerLeaves
  BY <1>2, <1>4, IssuedKept DEF OwnerLeaves, ByteInv
<1>5. ASSUME NEW r \in Requests, NEW direction \in Direction, Carry(r, direction)
      PROVE  ByteInv'
  <2> DEFINE n == requests[r].metrics
             target == requests[r].target
  <2>1. /\ carried' = [carried EXCEPT ![target][direction] = @ + 1]
        /\ counters' = Counted(counters, n, direction)
        /\ UNCHANGED <<forwards, sessions, ended>>
        /\ requests[r].at \in {"waiting", "body", "bridge"}
    BY <1>5 DEF Carry, Count, Counted, OnlyRequests
  <2>2. Issued' = Issued /\ \A port : OwnersOf(port)' = OwnersOf(port)
    BY <2>1 DEF Issued, OwnersOf
  <2>3. target # NoTarget /\ requests[r] \in RequestState /\ Agrees(requests[r])
    BY <2>1 DEF ByteInv, RouteInv
  <2>4. PICK route \in Issued : route.port = target /\ route.session = n
    BY <2>3 DEF Agrees
  <2>5. target \in Ports /\ n \in Sessions /\ n \in OwnersOf(target)
    BY <2>3, <2>4, IssuedAreRoutes DEF RequestState, OwnersOf, ByteInv, Route
  <2>6. \A port \in Ports : port # target => n \notin OwnersOf(port)
    BY <2>4 DEF ByteInv, OwnersOf
  <2>7. /\ counters \in [Sessions -> [Direction -> Nat]]
        /\ carried \in [Ports -> [Direction -> Nat]]
    BY DEF ByteInv
  <2> HIDE DEF n, target
  <2>8. /\ counters' \in [Sessions -> [Direction -> Nat]]
        /\ \A m \in Sessions, other \in Direction : m # n \/ other # direction =>
              counters'[m][other] = counters[m][other]
    BY <2>1, <2>5, <2>7, CountedChanges
  <2>9. /\ carried' \in [Ports -> [Direction -> Nat]]
        /\ carried'[target][direction] = carried[target][direction] + 1
        /\ \A port \in Ports, other \in Direction : port # target \/ other # direction =>
              carried'[port][other] = carried[port][other]
    BY <2>1, <2>5, <2>7
  <2>10. \A m \in Sessions, other \in Direction : m > sessions => counters'[m][other] = 0
    <3>1. n <= sessions /\ n \in Nat /\ sessions \in Nat
      BY <2>4, <2>5, MaxSessionAssumption DEF ByteInv, RouteInv, Sessions
    <3>2. \A m \in Sessions : m > sessions => m # n
      BY <3>1 DEF Sessions
    <3> QED BY <2>8, <3>2 DEF ByteInv
  <2>11. ASSUME NEW port \in Ports, NEW other \in Direction
         PROVE  Accounts(OwnersOf(port), Counted(counters, n, direction), other,
                         carried'[port][other])
    <3>1. Accounts(OwnersOf(port), counters, other, carried[port][other])
      BY DEF ByteInv
    <3>2. CASE port = target /\ other = direction
      <4>1. Accounts(OwnersOf(target), counters, direction, carried[target][direction])
        BY Zenon, <3>1, <3>2
      <4>2. PICK owners, passed : /\ owners = OwnersOf(target)
                                  /\ passed = carried[target][direction]
        OBVIOUS
      <4>3. Accounts(owners, counters, direction, passed) /\ n \in owners
        BY Zenon, <2>5, <4>1, <4>2
      <4>4. Accounts(owners, Counted(counters, n, direction), direction, passed + 1)
        BY <4>3, AccountsCount
      <4> QED BY Zenon, <2>9, <3>2, <4>2, <4>4
    <3>3. CASE port # target \/ other # direction
      <4>1. n \notin OwnersOf(port) \/ other # direction
        BY <2>6, <3>3
      <4>2. Accounts(OwnersOf(port), Counted(counters, n, direction), other,
                     carried[port][other])
        BY <2>5, <3>1, <4>1, AccountsOthers
      <4>3. carried'[port][other] = carried[port][other]
        BY <2>9, <3>3
      <4> QED BY Zenon, <4>2, <4>3
    <3> QED BY <3>2, <3>3
  <2>12. \A port \in Ports, other \in Direction :
             Accounts(OwnersOf(port)', counters', other, carried'[port][other])
    BY Zenon, <2>1, <2>2, <2>11
  <2> QED BY <1>1, <2>1, <2>2, <2>8, <2>9, <2>10, <2>12 DEF ByteInv
<1>6. ASSUME NEW r \in Requests,
             \/ Arrive(r) \/ ForwardStep(r) \/ RewriteFails(r) \/ UpstreamResponds(r)
             \/ UpstreamRefuses(r) \/ BodyEnds(r) \/ ClientGone(r) \/ NextRequest(r)
      PROVE  ByteInv'
  BY <1>2, <1>6 DEF Arrive, ForwardStep, RouteRequest, HeaderTimeout, RewriteFails,
     UpstreamResponds, UpstreamRefuses, BodyEnds, ClientGone, NextRequest, OnlyRequests, Issued
<1>7. ASSUME NEW n \in Sessions, StartSampler(n) \/ Tick(n) \/ SamplerLosesOwner(n)
      PROVE  ByteInv'
  BY <1>2, <1>7 DEF StartSampler, Tick, SamplerLosesOwner, Issued
<1>8. CASE ProxyStops \/ UNCHANGED trafficVars
  BY <1>2, <1>8 DEF ProxyStops, trafficVars, Issued
<1> QED BY <1>3, <1>4, <1>5, <1>6, <1>7, <1>8 DEF TrafficNext

(* The invariant holds in every behaviour. *)
LEMMA ByteInvariant == TrafficSafety => []ByteInv
<1>1. TrafficInit => ByteInv
  <2> SUFFICES ASSUME TrafficInit PROVE ByteInv
    OBVIOUS
  <2>1. RouteInv
    BY RouteInvStarts
  <2>2. Issued = {}
    BY DEF TrafficInit, Issued, Routes, EmptyRegistry
  <2>3. /\ counters \in [Sessions -> [Direction -> Nat]]
        /\ carried \in [Ports -> [Direction -> Nat]]
        /\ \A n \in Sessions, direction \in Direction : counters[n][direction] = 0
        /\ \A port \in Ports, direction \in Direction : carried[port][direction] = 0
    BY DEF TrafficInit, ZeroCount
  <2>4. ASSUME NEW port \in Ports, NEW direction \in Direction
        PROVE  Accounts(OwnersOf(port), counters, direction, carried[port][direction])
    <3>1. OwnersOf(port) = {}
      BY <2>2 DEF OwnersOf
    <3>2. SumFunction([n \in {} |-> counters[n][direction]]) = 0
      <4>1. [n \in {} |-> counters[n][direction]] \in [{} -> Nat] /\ {} \in SUBSET (1..0)
        OBVIOUS
      <4> QED BY <4>1, SumSplits
    <3>3. Accounts({}, counters, direction, 0)
      BY <2>3, <3>2 DEF Accounts, Shown
    <3> QED BY Zenon, <2>3, <3>1, <3>3
  <2> QED BY <2>1, <2>2, <2>3, <2>4 DEF ByteInv
<1> QED BY <1>1, ByteInvNext, PTL DEF TrafficSafety

(* In every behaviour the bytes that passed between the proxy and a port are those in the counters *)
(* of the owners the port has had, or more only where a counter is at its limit, whoever registers *)
(* and leaves while they pass (metrics.rs, proxy/mod.rs counted_body).                             *)
THEOREM BytesAreCounted == TrafficSafety => []EveryByteIsCounted
<1>1. ByteInv => EveryByteIsCounted
  <2> SUFFICES ASSUME ByteInv, NEW p \in Ports, NEW direction \in Direction
               PROVE  LET counted == SumFunction([n \in OwnersOf(p) |-> counters[n][direction]])
                      IN  \/ counted = carried[p][direction]
                          \/ /\ counted < carried[p][direction]
                             /\ \E n \in OwnersOf(p) : counters[n][direction] = MaxCount
    BY Zenon DEF EveryByteIsCounted, OwnersOf
  <2>1. Accounts(OwnersOf(p), counters, direction, carried[p][direction])
    BY DEF ByteInv
  <2> QED BY Zenon, <2>1 DEF Accounts, Shown
<1> QED BY <1>1, ByteInvariant, PTL

------------------------------------------------------------------------------
(* Lines of arguments and generated slugs (CommandLine.tla). *)

(* The first free candidate is free, if there is one. *)
LEMMA FirstFreeIsFree ==
    ASSUME NEW S, NEW slugs \in Seq(S), NEW taken, NoCandidate \notin S
    PROVE  IF \A i \in DOMAIN slugs : slugs[i] \in taken THEN FirstFree(slugs, taken) = NoCandidate
           ELSE \E i \in DOMAIN slugs : FirstFree(slugs, taken) = slugs[i] /\ slugs[i] \notin taken
<1> DEFINE free == {i \in DOMAIN slugs : slugs[i] \notin taken}
<1>1. CASE free = {}
  BY <1>1 DEF FirstFree
<1>2. CASE free # {}
  <2>1. free \in SUBSET Nat
    OBVIOUS
  <2>2. PICK n \in free : \A m \in free : n <= m
    BY <1>2, <2>1, LeastElement
  <2>3. Min(free) \in free
    BY <2>2 DEF Min
  <2>4. FirstFree(slugs, taken) = slugs[Min(free)]
    BY <1>2 DEF FirstFree
  <2> QED BY <2>3, <2>4
<1> QED BY <1>1, <1>2

(* The state of the command's part: what was drawn. *)
DrawTypeOK == draw.draws \in Seq(ToSet(Candidates)) /\ draw.taken \subseteq ToSet(Candidates)

(* What is drawn are candidates. *)
LEMMA DrawTypes == CommandSafety => []DrawTypeOK
<1>1. CommandInit => DrawTypeOK
  <2> SUFFICES ASSUME CommandInit PROVE DrawTypeOK
    OBVIOUS
  <2>1. 1 \in DOMAIN Candidates
    BY CandidatesAssumption
  <2>2. Candidates[1] \in ToSet(Candidates)
    BY <2>1 DEF ToSet
  <2>3. [i \in 1..Attempts |-> Candidates[1]] \in Seq(ToSet(Candidates))
    BY <2>2, CandidatesAssumption
  <2> QED BY <2>3 DEF CommandInit, NoDraw, DrawTypeOK
<1>2. DrawTypeOK /\ [CommandNext]_commandVars => DrawTypeOK'
  <2> SUFFICES ASSUME DrawTypeOK, [CommandNext]_commandVars PROVE DrawTypeOK'
    OBVIOUS
  <2>1. CASE DrawSlug
    <3>1. draw' \in Draws
      BY <2>1 DEF DrawSlug
    <3>2. draw'.draws \in [1..Attempts -> ToSet(Candidates)] /\ draw'.taken \subseteq ToSet(Candidates)
      BY <3>1 DEF Draws
    <3> QED BY <3>2, CandidatesAssumption DEF DrawTypeOK
  <2>2. CASE UNCHANGED draw
    BY <2>2 DEF DrawTypeOK
  <2> QED BY <2>1, <2>2 DEF CommandNext, TypeWord, TypeLine, commandVars
<1> QED BY <1>1, <1>2, PTL DEF CommandSafety

(* slug.rs generate_unique_slug: whatever the random draws give and whatever is taken, the slug is *)
(* free, and one is found as long as one is.                                                       *)
THEOREM FreeSlugsAreFound == CommandSafety => []GeneratedSlugsAreFree
<1>1. DrawTypeOK => GeneratedSlugsAreFree
  <2> SUFFICES ASSUME DrawTypeOK PROVE GeneratedSlugsAreFree
    OBVIOUS
  <2> DEFINE all == ToSet(Candidates)
  <2>1. NoCandidate \notin all /\ Candidates \in Seq(all)
    BY CandidatesAssumption
  <2>2. draw.draws \in Seq(all)
    BY DEF DrawTypeOK
  <2>3. \A i \in DOMAIN draw.draws : draw.draws[i] \in all
    BY <2>2
  <2>4. \A x : x \in all <=> \E i \in DOMAIN Candidates : Candidates[i] = x
    BY DEF ToSet
  <2> HIDE DEF all
  <2> DEFINE first == FirstFree(draw.draws, draw.taken)  second == FirstFree(Candidates, draw.taken)
  <2>5. first = NoCandidate \/ first \in all \ draw.taken
    BY <2>1, <2>2, <2>3, FirstFreeIsFree
  <2>6. first # NoCandidate => ~ (all \subseteq draw.taken)
    BY <2>5
  <2>7. IF all \subseteq draw.taken THEN second = NoCandidate ELSE second \in all \ draw.taken
    BY <2>1, <2>4, FirstFreeIsFree
  <2> HIDE DEF first, second
  <2>8. GenerateUniqueSlug(draw.draws, draw.taken) = IF first # NoCandidate THEN first ELSE second
    BY DEF GenerateUniqueSlug, first, second
  <2>9. IF all \subseteq draw.taken THEN GenerateUniqueSlug(draw.draws, draw.taken) = NoCandidate
        ELSE GenerateUniqueSlug(draw.draws, draw.taken) \in all \ draw.taken
    BY <2>5, <2>6, <2>7, <2>8
  <2> QED BY <2>9 DEF GeneratedSlugsAreFree, all
<1> QED BY <1>1, DrawTypes, PTL

------------------------------------------------------------------------------
(* What a line says is to be done. *)
Said(l) == {s \in {"daemon", "setup", "port"} : l[s]} \cup ({l.command} \ {"none"})

(* One thing said is a set of one. *)
LEMMA OneThing ==
    ASSUME NEW l \in Lines
    PROVE  Cardinality(Said(l)) = 1 <=> \E s : Said(l) = {s}
<1>1. IsFiniteSet({"daemon", "setup", "port", l.command})
  <2>1. IsFiniteSet({}) /\ IsFiniteSet({} \cup {"daemon"})
    BY FS_EmptySet, FS_AddElement
  <2>2. IsFiniteSet({"daemon"} \cup {"setup"})
    BY <2>1, FS_AddElement
  <2>3. IsFiniteSet(({"daemon"} \cup {"setup"}) \cup {"port"})
    BY <2>2, FS_AddElement
  <2>4. IsFiniteSet((({"daemon"} \cup {"setup"}) \cup {"port"}) \cup {l.command})
    BY <2>3, FS_AddElement
  <2>5. {"daemon", "setup", "port", l.command} = (({"daemon"} \cup {"setup"}) \cup {"port"}) \cup {l.command}
    OBVIOUS
  <2> QED BY <2>4, <2>5
<1>2. Said(l) \subseteq {"daemon", "setup", "port", l.command}
  BY DEF Said
<1>3. IsFiniteSet(Said(l))
  BY <1>1, <1>2, FS_Subset
<1> QED BY <1>3, FS_Singleton

(* The words of a command. *)
Commands == {"start", "list", "stop", "stop_nonsense", "kill"}

(* What a line says. *)
LEMMA SaidMembers ==
    ASSUME NEW l \in Lines
    PROVE  /\ "daemon" \in Said(l) <=> l.daemon
           /\ "setup" \in Said(l) <=> l.setup
           /\ "port" \in Said(l) <=> l.port
           /\ \A c \in Commands : c \in Said(l) <=> l.command = c
           /\ \A x \in Said(l) : x \in {"daemon", "setup", "port"} \cup Commands
           /\ l.command = "none" \/ l.command \in Commands
<1>1. l.command \in {"none"} \cup Commands
  BY DEF Lines, Commands
<1>2. \A x : x \in Said(l) <=>
                (x = "daemon" /\ l.daemon) \/ (x = "setup" /\ l.setup) \/ (x = "port" /\ l.port)
                  \/ (x = l.command /\ l.command # "none")
  BY DEF Said
<1>3. \A c \in Commands : c # "daemon" /\ c # "setup" /\ c # "port" /\ c # "none"
  BY DEF Commands
<1>4. "daemon" \notin Commands /\ "setup" \notin Commands /\ "port" \notin Commands
  BY DEF Commands
<1> QED BY <1>1, <1>2, <1>3, <1>4

(* Exactly one of them. *)
One(l) ==
    \/ l.daemon /\ ~ l.setup /\ ~ l.port /\ l.command = "none"
    \/ ~ l.daemon /\ l.setup /\ ~ l.port /\ l.command = "none"
    \/ ~ l.daemon /\ ~ l.setup /\ l.port /\ l.command = "none"
    \/ ~ l.daemon /\ ~ l.setup /\ ~ l.port /\ l.command # "none"

(* One(l) counts what is said. *)
LEMMA OneThingIsSaid ==
    ASSUME NEW l \in Lines
    PROVE  One(l) <=> \E s : Said(l) = {s}
<1> DEFINE d == "daemon" \in Said(l)  t == "setup" \in Said(l)  p == "port" \in Said(l)
<1>1. ASSUME NEW s, Said(l) = {s} PROVE One(l)
  <2>1. s \in Said(l) /\ \A x : x \in Said(l) => x = s
    BY <1>1
  <2>2. CASE s = "daemon"
    BY <2>1, <2>2, SaidMembers DEF One, Commands
  <2>3. CASE s = "setup"
    BY <2>1, <2>3, SaidMembers DEF One, Commands
  <2>4. CASE s = "port"
    BY <2>1, <2>4, SaidMembers DEF One, Commands
  <2>5. CASE s \in Commands
    BY <2>1, <2>5, SaidMembers DEF One, Commands
  <2> QED BY <2>1, <2>2, <2>3, <2>4, <2>5, SaidMembers
<1>2. ASSUME One(l) PROVE \E s : Said(l) = {s}
  <2>1. CASE l.daemon
    <3>1. Said(l) = {"daemon"}
      BY <1>2, <2>1, SaidMembers DEF One, Commands
    <3> QED BY <3>1
  <2>2. CASE l.setup
    <3>1. Said(l) = {"setup"}
      BY <1>2, <2>2, SaidMembers DEF One, Commands
    <3> QED BY <3>1
  <2>3. CASE l.port
    <3>1. Said(l) = {"port"}
      BY <1>2, <2>3, SaidMembers DEF One, Commands
    <3> QED BY <3>1
  <2>4. CASE l.command # "none"
    <3>1. Said(l) = {l.command}
      BY <1>2, <2>4, SaidMembers DEF One, Commands
    <3> QED BY <3>1
  <2> QED BY <1>2, <2>1, <2>2, <2>3, <2>4 DEF One
<1> QED BY <1>1, <1>2

(* What belongs to the one thing that is said. *)
Belongs(l) ==
    /\ l.command # "stop_nonsense"
    /\ l.portable => l.setup
    /\ l.slug = "valid" => l.command \notin {"list", "stop", "kill"}
    /\ l.slug = "invalid" => l.daemon \/ l.setup

(* A line is accepted just if it says one thing and all that belongs to it. *)
LEMMA AcceptedLines ==
    ASSUME NEW l \in Lines
    PROVE  Invocation(l) \in Invocations <=> One(l) /\ Belongs(l)
<1>1. /\ l.daemon \in BOOLEAN /\ l.setup \in BOOLEAN /\ l.portable \in BOOLEAN /\ l.port \in BOOLEAN
      /\ l.slug \in {"none", "valid", "invalid"}
      /\ l.command \in {"none", "start", "list", "stop", "stop_nonsense", "kill"}
  BY DEF Lines
<1>2. CASE l.daemon
  BY <1>1, <1>2 DEF Invocation, Invocations, Conflicts, NormalizeLine, One, Belongs
<1>3. CASE ~ l.daemon /\ l.setup
  BY <1>1, <1>3 DEF Invocation, Invocations, Conflicts, NormalizeLine, One, Belongs
<1>4. CASE ~ l.daemon /\ ~ l.setup /\ l.portable
  BY <1>1, <1>4 DEF Invocation, Invocations, Conflicts, NormalizeLine, One, Belongs
<1>5. CASE ~ l.daemon /\ ~ l.setup /\ ~ l.portable /\ l.port
  BY <1>1, <1>5 DEF Invocation, Invocations, Conflicts, NormalizeLine, One, Belongs, StartWith
<1>6. CASE ~ l.daemon /\ ~ l.setup /\ ~ l.portable /\ ~ l.port
  <2>1. Invocation(l) =
           IF l.command = "start" THEN StartWith(l)
           ELSE IF l.command = "stop_nonsense" THEN Unslugged(l, "InvalidSelector")
           ELSE Unslugged(l, IF l.command = "none" THEN "MissingCommand" ELSE l.command)
    BY <1>6 DEF Invocation, Conflicts, NormalizeLine
  <2> QED BY <1>1, <1>6, <2>1 DEF Invocations, One, Belongs, StartWith, Unslugged
<1> QED BY <1>1, <1>2, <1>3, <1>4, <1>5, <1>6

(* The state of the line's part. *)
LineTypeOK == line \in Lines

(* A line is one of Lines. *)
LEMMA LineTypes == CommandSafety => []LineTypeOK
<1>1. CommandInit => LineTypeOK
  BY DEF CommandInit, Nothing, Lines, LineTypeOK
<1>2. LineTypeOK /\ [CommandNext]_commandVars => LineTypeOK'
  BY DEF CommandNext, TypeWord, TypeLine, DrawSlug, commandVars, LineTypeOK
<1> QED BY <1>1, <1>2, PTL DEF CommandSafety

(* cli.rs Cli and normalize, clap's conflicts included: of all command lines, those are accepted  *)
(* that say one thing, with what belongs to it.                                                   *)
THEOREM OneMeaningForLines == CommandSafety => []LinesHaveOneMeaning
<1>1. LineTypeOK => LinesHaveOneMeaning
  <2> SUFFICES ASSUME LineTypeOK PROVE LinesHaveOneMeaning
    OBVIOUS
  <2> PICK l \in Lines : l = line
    BY DEF LineTypeOK
  <2>1. Invocation(l) \in Invocations <=> Cardinality(Said(l)) = 1 /\ Belongs(l)
    BY AcceptedLines, OneThing, OneThingIsSaid
  <2>2. One(l) => (Belongs(l) <=>
           /\ "stop_nonsense" \notin Said(l) /\ (l.portable => l.setup)
           /\ l.slug = "valid" => Said(l) \cap {"list", "stop", "kill"} = {}
           /\ l.slug = "invalid" => Said(l) \cap {"daemon", "setup"} # {})
    BY SaidMembers DEF Belongs, Commands
  <2>3. One(l) <=> Cardinality(Said(l)) = 1
    BY OneThing, OneThingIsSaid
  <2> QED BY <2>1, <2>2, <2>3 DEF LinesHaveOneMeaning, Said
<1> QED BY <1>1, LineTypes, PTL

------------------------------------------------------------------------------
(* The types of all components. *)

(* The types of the supervisor are inductive. *)
LEMMA TunnelTypes == TunnelSafety => []TunnelTypeOK
<1>1. TunnelInit => TunnelTypeOK
  BY ForksAssumption DEF TunnelInit, TunnelTypeOK, RunLabel
<1>2. TunnelTypeOK /\ [TunnelNext]_tunnelVars => TunnelTypeOK'
  <2> SUFFICES ASSUME TunnelTypeOK, [TunnelNext]_tunnelVars PROVE TunnelTypeOK'
    OBVIOUS
  <2> USE DEF TunnelTypeOK, RunLabel, Member, TunnelGoes, Dies
  <2>1. CASE Fork
    BY <2>1, ForksAssumption DEF Fork
  <2>2. ASSUME NEW p \in Member, Exits(p) PROVE TunnelTypeOK'
    BY <2>2 DEF Exits
  <2>3. CASE Spawn \/ BeginShutdown \/ CallFails \/ DaemonIsKilled
    BY <2>3 DEF Spawn, BeginShutdown, CallFails, DaemonIsKilled
  <2>4. CASE SupervisorStep
    BY <2>4 DEF SupervisorStep, Attach, SeeExit, ChildIsReaped, ForceShutdown, FinishShutdown,
                OutputEnds, DropSupervisor
  <2>5. CASE UNCHANGED tunnelVars
    BY <2>5 DEF tunnelVars
  <2> QED BY <2>1, <2>2, <2>3, <2>4, <2>5 DEF TunnelNext
<1> QED BY <1>1, <1>2, PTL DEF TunnelSafety

(* The types of the installation follow from InstallInv, but for the bound on the faults. *)
LEMMA InstallTypes == InstallSafety => []InstallTypeOK
<1> DEFINE Bounded == installFaults \in 0..MaxInstallFaults
<1>1. InstallInit => Bounded
  BY SMTT(60), InstallAssumption DEF InstallInit
<1>2. Bounded /\ [InstallNext]_installVars => Bounded'
  <2> SUFFICES ASSUME Bounded, [InstallNext]_installVars PROVE Bounded'
    OBVIOUS
  <2>1. ASSUME NEW i \in Installers, InstallerCrashes(i) PROVE Bounded'
    BY <2>1, InstallAssumption DEF InstallerCrashes
  <2>2. ASSUME NEW i \in Installers, RemoveCandidate(i) PROVE Bounded'
    BY <2>2, InstallAssumption DEF RemoveCandidate
  <2>3. CASE UNCHANGED installFaults
    BY <2>3
  <2> QED BY <2>1, <2>2, <2>3
          DEF InstallNext, TakeDocument, ReadConfig, CreateCandidate, WriteCandidate, ValidateCandidate,
              ReplaceConfig, DropCandidate, InstallerEnds, installVars
<1>3. InstallInv /\ Bounded => InstallTypeOK
  BY DEF InstallInv, InstallTyped, Installer, ConfigIsAlwaysWhole, InstallTypeOK, FileState
<1> QED BY <1>1, <1>2, <1>3, InstallInvariant, PTL DEF InstallSafety

(* So do those of the setup launcher from SetupInv. *)
LEMMA SetupTypes == SetupSafety => []SetupTypeOK
<1> DEFINE Bounded == started \in 0..MaxSetups /\ kills \in 0..MaxSetupKills
<1>1. SetupInit => Bounded
  BY SetupAssumption DEF SetupInit
<1>2. Bounded /\ [SetupNext]_setupVars => Bounded'
  <2> SUFFICES ASSUME Bounded, [SetupNext]_setupVars PROVE Bounded'
    OBVIOUS
  <2>1. ASSUME NEW l \in Launchers, StartSetup(l) \/ SetupKilled(l) PROVE Bounded'
    BY <2>1, SetupAssumption DEF StartSetup, SetupKilled
  <2>2. CASE UNCHANGED <<started, kills>>
    BY <2>2
  <2> QED BY <2>1, <2>2
          DEF SetupNext, CheckScript, Download, WriteScript, RemoveRefused, OpenScript, VerifyScript,
              LaunchScript, ScriptEnds, RemoveScript, Kept, setupVars
<1>3. SetupInv /\ Bounded => SetupTypeOK
  <2>1. Files \cup {NoScript} = 0..MaxFiles
    BY SetupAssumption DEF Files, NoScript
  <2> QED BY <2>1 DEF SetupInv, SetupTyped, SetupTypeOK
<1> QED BY <1>1, <1>2, <1>3, SetupInvariant, PTL DEF SetupSafety

(* What a stream has delivered stays within the bound. *)
LEMMA OutputTypes == OutputSafety => []OutputTypeOK
<1> DEFINE Bounded == \A s \in Stream : streams[s].reads <= MaxReads
<1>1. OutputInit => Bounded
  BY OutputAssumption DEF OutputInit
<1>2. OutputInv /\ Bounded /\ [OutputNext]_outputVars => Bounded'
  <2> SUFFICES ASSUME OutputInv, Bounded, [OutputNext]_outputVars PROVE Bounded'
    OBVIOUS
  <2>1. streams \in [Stream -> Capture] /\ MaxReads \in Nat
    BY OutputAssumption DEF OutputInv
  <2>2. ASSUME NEW s \in Stream, NEW new, streams' = [streams EXCEPT ![s] = new],
               new.reads <= MaxReads
        PROVE  Bounded'
    BY <2>1, <2>2
  <2>3. ASSUME NEW s \in Stream, ReadOutput(s) PROVE Bounded'
    <3>1. PICK n \in 1..ReadChunk : \E chunk \in [1..n -> Byte] :
             streams' = [streams EXCEPT
                ![s] = [at |-> "cutting", pending |-> @.pending \o chunk, reads |-> @.reads + 1]]
      BY <2>3 DEF ReadOutput
    <3>2. PICK pending :
             streams' = [streams EXCEPT
                ![s] = [at |-> "cutting", pending |-> pending, reads |-> streams[s].reads + 1]]
      BY <2>1, <3>1
    <3>3. streams[s].reads \in Nat /\ streams[s].reads < MaxReads
      BY <2>1, <2>3 DEF Capture, ReadOutput
    <3>4. streams[s].reads + 1 <= MaxReads
      BY <2>1, <3>3
    <3> QED BY <2>2, <3>2, <3>4
  <2>4. ASSUME NEW s \in Stream, NEW at, NEW pending, Captures(s, at, pending) PROVE Bounded'
    <3>1. streams' = [streams EXCEPT ![s].at = at, ![s].pending = pending]
      BY <2>4 DEF Captures
    <3>2. \A o \in Stream : streams'[o].reads = streams[o].reads
      BY <2>1, <3>1 DEF Capture
    <3> QED BY <3>2
  <2>5. CASE UNCHANGED streams
    BY <2>5
  <2>6. ASSUME NEW s \in Stream, CutLine(s) \/ CutChunk(s) \/ StreamEnds(s) \/ ReadFails(s)
        PROVE  \E at, pending : Captures(s, at, pending)
    BY <2>6 DEF CutLine, CutChunk, StreamEnds, ReadFails, Cut
  <2> QED BY <2>3, <2>4, <2>5, <2>6 DEF OutputNext, outputVars
<1>3. OutputInv /\ Bounded => OutputTypeOK
  <2> SUFFICES ASSUME OutputInv, Bounded PROVE OutputTypeOK
    OBVIOUS
  <2> DEFINE State == [at : {"reading", "cutting", "ended"},
                       pending : UNION {[1..n -> Byte] : n \in 0..3 * ReadChunk},
                       reads : 0..MaxReads]
  <2>1. ASSUME NEW s \in Stream PROVE streams[s] \in State
    <3>1. PICK old : old = streams[s].pending
      OBVIOUS
    <3>2. streams[s] \in Capture
      BY DEF OutputInv
    <3>3. old \in Seq(Byte) /\ Len(old) \in Nat /\ old \in [1..Len(old) -> Byte]
      BY <3>1, <3>2 DEF Capture
    <3>4. Len(old) < (IF streams[s].at = "cutting" THEN 3 ELSE 2) * ReadChunk
      BY <3>1 DEF OutputInv
    <3>5. Len(old) \in 0..3 * ReadChunk
      BY <3>3, <3>4, OutputAssumption
    <3>6. old \in UNION {[1..n -> Byte] : n \in 0..3 * ReadChunk}
      BY <3>3, <3>5
    <3>7. streams[s].reads \in 0..MaxReads
      BY <3>2, OutputAssumption DEF Capture
    <3> HIDE DEF Bounded
    <3> QED BY <3>1, <3>2, <3>6, <3>7 DEF Capture
  <2>2. streams \in [Stream -> State]
    BY <2>1 DEF OutputInv
  <2>3. output.lines \in Seq(Nat) /\ output.bytes \in Nat
    <3>1. Total(output.lines) \in Nat
      BY TotalIsSum DEF OutputInv
    <3> QED BY <3>1 DEF OutputInv
  <2> QED BY <2>2, <2>3 DEF OutputTypeOK
<1> QED BY <1>1, <1>2, <1>3, OutputAlways, PTL DEF OutputSafety

(* A frame's bytes are bytes of the model: both digits of a length are digits. *)
LEMMA EncodedBytes ==
    ASSUME NEW f \in 1..MaxFrames, NEW n \in Nat, n <= MaxPayload
    PROVE  Encode(f, n) \in Seq(FrameByte)
<1> DEFINE v == [i \in 1..HeaderBytes + n |->
                  IF i = 1 THEN n \div HeaderBase ELSE IF i = 2 THEN n % HeaderBase ELSE HeaderBase - 1]
<1>1. n \div HeaderBase \in 0..HeaderBase - 1
  <2>1. PICK base, high : base = HeaderBase /\ high = n \div HeaderBase
    OBVIOUS
  <2>2. base \in Nat \ {0} /\ n < base * base
    BY <2>1, FrameAssumption
  <2>3. high \in Nat /\ high * base <= n
    BY <2>1, <2>2, DivMod
  <2>4. high < base
    <3>1. SUFFICES ASSUME high >= base PROVE FALSE
      BY <2>2, <2>3
    <3>2. high * base >= base * base
      BY <2>2, <2>3, <3>1
    <3> QED BY <2>2, <2>3, <3>2
  <2> QED BY <2>1, <2>2, <2>3, <2>4
<1>2. n % HeaderBase \in 0..HeaderBase - 1 /\ HeaderBase - 1 \in 0..HeaderBase - 1
  BY FrameAssumption
<1>3. \A i \in 1..HeaderBytes + n : v[i] \in 0..HeaderBase - 1
  BY <1>1, <1>2
<1>4. Encode(f, n) = [i \in 1..HeaderBytes + n |-> [frame |-> f, offset |-> i, value |-> v[i]]]
  BY DEF Encode
<1> HIDE DEF v
<1>5. \A i \in 1..HeaderBytes + n : i \in 0..MaxPayload + HeaderBytes
  BY FrameAssumption DEF HeaderBytes
<1>6. \A i \in 1..HeaderBytes + n : [frame |-> f, offset |-> i, value |-> v[i]] \in FrameByte
  BY <1>3, <1>5 DEF FrameByte
<1>7. Encode(f, n) \in [1..HeaderBytes + n -> FrameByte]
  BY <1>4, <1>6
<1> QED BY <1>7 DEF HeaderBytes

(* What is written, what is on its way and what is read are bytes, and frames that were written. *)
StreamTyped ==
    /\ StreamTypeOK
    /\ reader.at = "header" => reader.need = HeaderBytes
    /\ reader = [at |-> reader.at, need |-> reader.need, got |-> reader.got]

(* The types of the stream are inductive. *)
LEMMA StreamTypes == StreamSafety => []StreamTypeOK
<1>1. StreamInit => StreamTyped
  BY FrameAssumption DEF StreamInit, StreamTyped, StreamTypeOK, FreshRead, HeaderBytes
<1>2. StreamTyped /\ [StreamNext]_frameVars => StreamTyped'
  <2> SUFFICES ASSUME StreamTyped, [StreamNext]_frameVars PROVE StreamTyped'
    OBVIOUS
  <2>1. MaxPayload \in Nat /\ MaxFrames \in Nat /\ HeaderBytes = 2
    BY FrameAssumption DEF HeaderBytes
  <2>2. FreshRead.at = "header" /\ FreshRead.need = HeaderBytes
        /\ FreshRead.need \in 1..MaxPayload + HeaderBytes
        /\ FreshRead.got = <<>> /\ FreshRead = [at |-> "header", need |-> FreshRead.need, got |-> <<>>]
    BY <2>1 DEF FreshRead
  <2>3. ASSUME NEW at \in {"header", "payload", "protocol_error", "io_error"},
               NEW need \in 1..MaxPayload + HeaderBytes, NEW got \in Seq(FrameByte),
               reader' = [at |-> at, need |-> need, got |-> got],
               NEW rest \in Seq(FrameByte), wire' = rest,
               at = "header" => need = HeaderBytes,
               heard' \in Seq(1..MaxFrames), cancelled' \in {"no", "between_frames", "in_a_frame"},
               UNCHANGED <<written, unsent, writerEnd>>
        PROVE  StreamTyped'
    BY <2>3 DEF StreamTyped, StreamTypeOK
  <2>4. CASE WriteFrame
    <3>1. PICK n \in PayloadLengths :
             IF ValidLength(n)
             THEN /\ written' = written + 1 /\ unsent' = Encode(written + 1, n)
                  /\ UNCHANGED writerEnd
             ELSE writerEnd' = "refused" /\ UNCHANGED <<written, unsent>>
      BY <2>4 DEF WriteFrame
    <3>2. UNCHANGED <<wire, reader, heard, cancelled>> /\ written + 1 \in 1..MaxFrames
      BY <2>1, <2>4 DEF WriteFrame, StreamTyped, StreamTypeOK
    <3>3. CASE ValidLength(n)
      <4>1. Encode(written + 1, n) \in Seq(FrameByte)
        BY <3>2, <3>3, EncodedBytes, FrameAssumption DEF ValidLength
      <4>2. written' \in 0..MaxFrames /\ unsent' \in Seq(FrameByte) /\ UNCHANGED writerEnd
        BY <2>1, <3>1, <3>2, <3>3, <4>1
      <4> QED BY <3>2, <4>2 DEF StreamTyped, StreamTypeOK
    <3>4. CASE ~ ValidLength(n)
      BY <3>1, <3>2, <3>4 DEF StreamTyped, StreamTypeOK
    <3> QED BY <3>3, <3>4
  <2>5. CASE WriteSome
    <3>1. PICK n \in 1..Len(unsent) :
             wire' = wire \o SubSeq(unsent, 1, n) /\ unsent' = SubSeq(unsent, n + 1, Len(unsent))
      BY <2>5 DEF WriteSome
    <3>2. wire \in Seq(FrameByte) /\ unsent \in Seq(FrameByte)
      BY DEF StreamTyped, StreamTypeOK
    <3>3. SubSeq(unsent, 1, n) \in Seq(FrameByte) /\ SubSeq(unsent, n + 1, Len(unsent)) \in Seq(FrameByte)
      BY <3>2
    <3>4. wire' \in Seq(FrameByte) /\ unsent' \in Seq(FrameByte)
      BY <3>1, <3>2, <3>3
    <3>5. UNCHANGED <<written, writerEnd, reader, heard, cancelled>>
      BY <2>5 DEF WriteSome
    <3> QED BY <3>4, <3>5 DEF StreamTyped, StreamTypeOK
  <2>6. CASE WriterCloses
    BY <2>6 DEF WriterCloses, StreamTyped, StreamTypeOK
  <2>7. CASE ReadSome
    <3>1. PICK n \in 1..Len(wire) :
             /\ n <= reader.need - Len(reader.got)
             /\ TakeBytes(reader.got \o SubSeq(wire, 1, n))
             /\ wire' = SubSeq(wire, n + 1, Len(wire))
      BY <2>7 DEF ReadSome
    <3>2. PICK bytes : bytes = reader.got \o SubSeq(wire, 1, n)
      OBVIOUS
    <3>3. /\ wire \in Seq(FrameByte) /\ reader.got \in Seq(FrameByte)
          /\ reader.need \in 1..MaxPayload + HeaderBytes /\ heard \in Seq(1..MaxFrames)
      BY DEF StreamTyped, StreamTypeOK
    <3>4. PICK s, rest : s = SubSeq(wire, 1, n) /\ rest = SubSeq(wire, n + 1, Len(wire))
      OBVIOUS
    <3>5. s \in Seq(FrameByte) /\ rest \in Seq(FrameByte)
      BY <3>3, <3>4
    <3>6. bytes \in Seq(FrameByte)
      BY <3>2, <3>3, <3>4, <3>5
    <3>7. /\ TakeBytes(bytes) /\ wire' = rest /\ UNCHANGED <<written, unsent, writerEnd, cancelled>>
      BY <2>7, <3>1, <3>2, <3>4 DEF ReadSome
    <3>8. cancelled' \in {"no", "between_frames", "in_a_frame"}
      BY <3>7 DEF StreamTyped, StreamTypeOK
    <3>9. CASE reader' = [reader EXCEPT !.got = bytes] /\ UNCHANGED heard
      <4>1. reader' = [at |-> reader.at, need |-> reader.need, got |-> bytes]
        BY <3>9 DEF StreamTyped
      <4>2. /\ reader.at \in {"header", "payload", "protocol_error", "io_error"}
            /\ reader.at = "header" => reader.need = HeaderBytes
        BY DEF StreamTyped, StreamTypeOK
      <4> QED BY <2>3, <3>3, <3>5, <3>6, <3>7, <3>8, <3>9, <4>1, <4>2
    <3>10. CASE /\ Len(bytes) = reader.need /\ reader.at = "header" /\ UNCHANGED heard
                /\ reader' = IF ValidLength(Declared(bytes))
                             THEN [at |-> "payload", need |-> Declared(bytes), got |-> <<>>]
                             ELSE [FreshRead EXCEPT !.at = "protocol_error"]
      <4>1. <<>> \in Seq(FrameByte)
        OBVIOUS
      <4>2. CASE ValidLength(Declared(bytes))
        <5>1. Declared(bytes) \in 1..MaxPayload + HeaderBytes
          <6>1. 1 \in 1..Len(bytes) /\ 2 \in 1..Len(bytes)
            BY <2>1, <3>10 DEF StreamTyped
          <6>2. bytes[1].value \in Nat /\ bytes[2].value \in Nat
            <7>1. bytes[1] \in FrameByte /\ bytes[2] \in FrameByte
              BY <3>6, <6>1
            <7>2. 0..HeaderBase - 1 \subseteq Nat
              BY FrameAssumption
            <7> QED BY <7>1, <7>2 DEF FrameByte
          <6>3. Declared(bytes) \in Nat
            BY <6>2, DeclaredIsNat, FrameAssumption DEF Declared
          <6> QED BY <2>1, <4>2, <6>3 DEF ValidLength
        <5> QED BY <2>3, <3>3, <3>5, <3>7, <3>8, <3>10, <4>1, <4>2, <5>1
      <4>3. CASE ~ ValidLength(Declared(bytes))
        <5>1. reader' = [at |-> "protocol_error", need |-> FreshRead.need, got |-> <<>>]
          BY <3>10, <4>3 DEF FreshRead
        <5> QED BY <2>2, <2>3, <3>3, <3>5, <3>7, <3>8, <3>10, <4>1, <5>1
      <4> QED BY <4>2, <4>3
    <3>11. CASE /\ Len(bytes) = reader.need
                /\ IF IsPayload(bytes)
                   THEN reader' = FreshRead /\ heard' = Append(heard, bytes[1].frame)
                   ELSE reader' = [FreshRead EXCEPT !.at = "protocol_error"] /\ UNCHANGED heard
      <4>1. <<>> \in Seq(FrameByte)
        OBVIOUS
      <4>2. bytes[1] \in FrameByte
        <5>1. 1 \in 1..Len(bytes)
          BY <3>3, <3>6, <3>11
        <5> QED BY <3>6, <5>1
      <4>3. bytes[1].frame \in 1..MaxFrames
        BY <4>2 DEF FrameByte
      <4>4. heard' \in Seq(1..MaxFrames)
        <5>1. PICK old, frame : old = heard /\ frame = bytes[1].frame
          OBVIOUS
        <5>2. Append(old, frame) \in Seq(1..MaxFrames)
          BY <3>3, <4>3, <5>1
        <5>3. heard' = Append(old, frame) \/ heard' = old
          BY <3>11, <5>1
        <5> QED BY <3>3, <5>1, <5>2, <5>3
      <4>5. CASE IsPayload(bytes)
        <5>1. reader' = [at |-> "header", need |-> FreshRead.need, got |-> <<>>]
          BY <2>2, <3>11, <4>5
        <5> QED BY <2>2, <2>3, <3>5, <3>7, <3>8, <4>1, <4>4, <5>1
      <4>6. CASE ~ IsPayload(bytes)
        <5>1. reader' = [at |-> "protocol_error", need |-> FreshRead.need, got |-> <<>>]
          BY <3>11, <4>6 DEF FreshRead
        <5> QED BY <2>2, <2>3, <3>5, <3>7, <3>8, <4>1, <4>4, <5>1
      <4> QED BY <4>5, <4>6
    <3> QED BY <3>7, <3>9, <3>10, <3>11 DEF TakeBytes
  <2>8. CASE ReadEnd
    <3>1. reader' = [at |-> "io_error", need |-> reader.need, got |-> reader.got]
      BY <2>8 DEF ReadEnd, StreamTyped
    <3>2. UNCHANGED <<written, unsent, wire, writerEnd, heard, cancelled>>
      BY <2>8 DEF ReadEnd
    <3> QED BY <3>1, <3>2 DEF StreamTyped, StreamTypeOK
  <2>9. CASE CancelRead
    <3>1. /\ reader' = [at |-> "header", need |-> FreshRead.need, got |-> <<>>]
          /\ UNCHANGED <<written, unsent, wire, writerEnd, heard>>
          /\ cancelled' \in {"no", "between_frames", "in_a_frame"}
      BY <2>2, <2>9 DEF CancelRead
    <3> QED BY <2>2, <3>1 DEF StreamTyped, StreamTypeOK
  <2>10. CASE UNCHANGED frameVars
    BY <2>10 DEF frameVars, StreamTyped, StreamTypeOK
  <2> QED BY <2>4, <2>5, <2>6, <2>7, <2>8, <2>9, <2>10 DEF StreamNext
<1>3. StreamTyped => StreamTypeOK
  BY DEF StreamTyped
<1> QED BY <1>1, <1>2, <1>3, PTL DEF StreamSafety

(* The counters stop at their limit. *)
LEMMA CountersHaveTypes ==
    TrafficSafety => [](counters \in [Sessions -> Counts] /\ proxying \in BOOLEAN)
<1> DEFINE Limited == counters \in [Sessions -> Counts] /\ proxying \in BOOLEAN
<1>1. TrafficInit => Limited
  BY CountAssumption DEF TrafficInit, ZeroCount, Counts
<1>2. Limited /\ [TrafficNext]_trafficVars => Limited'
  <2> SUFFICES ASSUME Limited, [TrafficNext]_trafficVars PROVE Limited'
    OBVIOUS
  <2>1. ASSUME NEW r \in Requests, NEW direction \in Direction, Carry(r, direction)
        PROVE  Limited'
    <3>1. PICK n : n = requests[r].metrics
      OBVIOUS
    <3>2. counters' = [counters EXCEPT ![n][direction] = SaturatingAdd(@)] /\ UNCHANGED proxying
      BY <2>1, <3>1 DEF Carry, Count, OnlyRequests
    <3>3. \A count \in 0..MaxCount : SaturatingAdd(count) \in 0..MaxCount
      BY CountAssumption DEF SaturatingAdd
    <3>4. CASE n \in Sessions
      <4>1. counters[n] \in [Direction -> 0..MaxCount]
        BY <3>4 DEF Counts
      <4>2. counters[n][direction] \in 0..MaxCount
        BY <4>1
      <4>3. SaturatingAdd(counters[n][direction]) \in 0..MaxCount
        BY <3>3, <4>2
      <4>4. [counters[n] EXCEPT ![direction] = SaturatingAdd(@)] \in [Direction -> 0..MaxCount]
        BY <4>1, <4>3
      <4>5. counters' = [counters EXCEPT ![n] = [counters[n] EXCEPT ![direction] = SaturatingAdd(@)]]
        BY <3>2, <3>4
      <4> QED BY <3>2, <4>4, <4>5 DEF Counts
    <3>5. CASE n \notin Sessions
      BY <3>2, <3>5
    <3> QED BY <3>4, <3>5
  <2>2. CASE UNCHANGED counters /\ proxying' \in {proxying, FALSE}
    BY <2>2
  <2>3. ASSUME NEW r \in Requests,
               \/ Arrive(r) \/ ForwardStep(r) \/ RewriteFails(r) \/ UpstreamResponds(r)
               \/ UpstreamRefuses(r) \/ BodyEnds(r) \/ ClientGone(r) \/ NextRequest(r)
        PROVE  UNCHANGED counters /\ proxying' = proxying
    BY <2>3
       DEF Arrive, ForwardStep, RouteRequest, HeaderTimeout, RewriteFails, UpstreamResponds,
           UpstreamRefuses, BodyEnds, ClientGone, NextRequest, OnlyRequests
  <2>4. CASE \E n \in Sessions : StartSampler(n) \/ Tick(n) \/ SamplerLosesOwner(n)
    BY <2>2, <2>4 DEF StartSampler, Tick, SamplerLosesOwner
  <2>5. CASE OwnerRegisters \/ OwnerLeaves \/ ProxyStops \/ UNCHANGED trafficVars
    BY <2>2, <2>5 DEF OwnerRegisters, OwnerLeaves, ProxyStops, trafficVars
  <2> QED BY <2>1, <2>2, <2>3, <2>4, <2>5 DEF TrafficNext
<1> QED BY <1>1, <1>2, PTL DEF TrafficSafety

(* What a sampler has counted is below the counters, hence below their limit. *)
LEMMA TrafficTypes == TrafficSafety => []TrafficTypeOK
<1> DEFINE Limited == counters \in [Sessions -> Counts] /\ proxying \in BOOLEAN
<1>1. ByteInv /\ SampleInv /\ Limited => TrafficTypeOK
  <2> SUFFICES ASSUME ByteInv, SampleInv, Limited PROVE TrafficTypeOK
    OBVIOUS
  <2> DEFINE Sampler == [at : {"none", "running", "ended"}, from : Counts, sum : Counts,
                         totals : Counts]
             Number == [at : {"none", "running", "ended"}, from : [Direction -> Nat],
                        sum : [Direction -> Nat], totals : [Direction -> Nat]]
  <2>1. ASSUME NEW n \in Sessions PROVE samplers[n] \in Sampler
    <3>1. PICK s, c : s = samplers[n] /\ c = counters[n]
      OBVIOUS
    <3>2. s \in Number /\ c \in [Direction -> 0..MaxCount]
      BY <3>1 DEF SampleInv, Counts
    <3>3. \A d \in Direction : s.totals[d] <= c[d] /\ s.from[d] + s.sum[d] = s.totals[d]
      BY <3>1 DEF SampleInv
    <3>4. ASSUME NEW d \in Direction
          PROVE  s.totals[d] \in 0..MaxCount /\ s.from[d] \in 0..MaxCount /\ s.sum[d] \in 0..MaxCount
      <4>1. PICK t, f, m, k : t = s.totals[d] /\ f = s.from[d] /\ m = s.sum[d] /\ k = c[d]
        OBVIOUS
      <4>2. t \in Nat /\ f \in Nat /\ m \in Nat /\ k \in 0..MaxCount
        BY <3>2, <4>1
      <4>3. t <= k /\ f + m = t
        BY <3>3, <4>1
      <4> QED BY <4>1, <4>2, <4>3, CountAssumption
    <3>5. s.totals \in Counts /\ s.from \in Counts /\ s.sum \in Counts
      BY <3>2, <3>4 DEF Counts
    <3> QED BY <3>1, <3>2, <3>5
  <2>2. samplers \in [Sessions -> Sampler]
    BY <2>1 DEF SampleInv
  <2> QED BY <2>2 DEF ByteInv, RouteInv, RequestState, TrafficTypeOK
<1> QED BY <1>1, ByteInvariant, SampleInvariant, CountersHaveTypes, PTL

(* What is typed, recognised and drawn. *)
LEMMA CommandTypes == CommandSafety => [](word \in Words /\ line \in Lines /\ draw \in Draws)
<1> DEFINE Typed == word \in Words /\ line \in Lines /\ draw \in Draws
<1>1. CommandInit => Typed
  <2> SUFFICES ASSUME CommandInit PROVE Typed
    OBVIOUS
  <2>1. word \in [1..0 -> Character] /\ 0 \in 0..MaxWord
    BY SlugBytesAssumption DEF CommandInit
  <2>2. line \in Lines
    BY DEF CommandInit, Nothing, Lines
  <2>3. Candidates[1] \in ToSet(Candidates)
    BY CandidatesAssumption DEF ToSet
  <2>4. draw \in Draws
    BY <2>3 DEF CommandInit, NoDraw, Draws
  <2> QED BY <2>1, <2>2, <2>4 DEF Words
<1>2. Typed /\ [CommandNext]_commandVars => Typed'
  BY DEF CommandNext, TypeWord, TypeLine, DrawSlug, commandVars
<1> QED BY <1>1, <1>2, PTL DEF CommandSafety

(* What a start view is asked to show. *)
LEMMA PanelTypes == TerminalSafety => [](panel \in Panels)
<1>1. TerminalInit => panel \in Panels
  BY PanelAssumption DEF TerminalInit, NoPanel, Panels, ArrowWidth
<1>2. panel \in Panels /\ [ShowPanel]_panel => (panel \in Panels)'
  BY DEF ShowPanel
<1> QED BY <1>1, <1>2, PTL DEF TerminalSafety

(* A step of one component is none of the others, or changes nothing of theirs. *)
LEMMA StepsOfParts ==
    ASSUME [PartsNext]_partsVars
    PROVE  /\ [InstallNext]_installVars /\ [TunnelNext]_tunnelVars /\ [OutputNext]_outputVars
           /\ [StreamNext]_frameVars /\ [TrafficNext]_trafficVars /\ [CommandNext]_commandVars
           /\ [SetupNext]_setupVars /\ [ShowPanel]_panel
<1>1. CASE UNCHANGED partsVars
  BY <1>1 DEF partsVars
<1>2. CASE PartsNext
  BY <1>2 DEF PartsNext, Rest
<1> QED BY <1>1, <1>2

(* In every behaviour of the components side by side each keeps to the behaviours of its own. *)
LEMMA PartsAreComponents ==
    PartsSpec => /\ InstallSafety /\ TunnelSafety /\ OutputSafety /\ StreamSafety
                 /\ TrafficSafety /\ CommandSafety /\ SetupSafety /\ TerminalSafety
<1>1. PartsInit => /\ InstallInit /\ TunnelInit /\ OutputInit /\ StreamInit
                   /\ TrafficInit /\ CommandInit /\ SetupInit /\ TerminalInit
  BY DEF PartsInit
<1>2. [PartsNext]_partsVars =>
         /\ [InstallNext]_installVars /\ [TunnelNext]_tunnelVars /\ [OutputNext]_outputVars
         /\ [StreamNext]_frameVars /\ [TrafficNext]_trafficVars /\ [CommandNext]_commandVars
         /\ [SetupNext]_setupVars /\ [ShowPanel]_panel
  BY StepsOfParts
<1> QED BY <1>1, <1>2, PTL
        DEF PartsSpec, InstallSafety, TunnelSafety, OutputSafety, StreamSafety, TrafficSafety,
            CommandSafety, SetupSafety, TerminalSafety

(* In every behaviour of the components side by side the variables of each hold what its code can  *)
(* put there: stages, names, bytes, counts below their limits.                                     *)
THEOREM PartsTypeCorrect == PartsSpec => []PartsTypeOK
<1>1. /\ InstallTypeOK /\ TunnelTypeOK /\ OutputTypeOK /\ StreamTypeOK /\ TrafficTypeOK
      /\ (word \in Words /\ line \in Lines /\ draw \in Draws) /\ SetupTypeOK /\ panel \in Panels
      => PartsTypeOK
  BY DEF PartsTypeOK
<1> QED BY <1>1, PartsAreComponents, InstallTypes, TunnelTypes, OutputTypes, StreamTypes, TrafficTypes,
           CommandTypes, SetupTypes, PanelTypes, PTL
==============================================================================
