---------------------------- MODULE SetupLauncher ----------------------------
(***************************************************************************)
(* `fw --setup` (setup.rs): download the setup script to a fixed name in   *)
(* the temporary directory, verify it, run it, remove it.  Two of them may *)
(* run at once, and one may be killed and leave a part of a script to the  *)
(* next.  On unix a handle names an inode whatever happens to its name; on *)
(* windows the verified script is opened with FILE_SHARE_READ only.        *)
(***************************************************************************)
EXTENDS Naturals

CONSTANTS
    Launchers,
    MaxFiles,          \* bound: files created under the script's name
    MaxSetupKills,     \* bound: launchers that are killed
    MaxSetups          \* bound: setups that are started

ASSUME SetupAssumption == MaxFiles \in Nat /\ MaxSetupKills \in Nat /\ MaxSetups \in Nat

VARIABLES
    setupPlatform,
    setups,         \* [at, handle: the open script, outcome]
    contents,       \* of each file: "none" before it exists, "partial", "good" or "bad"
    script,         \* the file the script's name leads to, or 0
    started, kills

setupVars == <<setupPlatform, setups, contents, script, started, kills>>

NoScript == 0
Files == 1..MaxFiles

SetupLabel ==
    {"idle", "checking", "downloading", "writing", "removing", "opening", "verifying", "launching",
     "running", "finishing", "over"}

SetupTypeOK ==
    /\ setupPlatform \in {"unix", "windows"}
    /\ setups \in [Launchers -> [at : SetupLabel, handle : 0..MaxFiles,
                                 outcome : {"none", "done", "failed", "killed"}]]
    /\ contents \in [Files -> {"none", "partial", "good", "bad"}]
    /\ script \in 0..MaxFiles /\ started \in 0..MaxSetups /\ kills \in 0..MaxSetupKills

IdleSetup == [at |-> "idle", handle |-> NoScript, outcome |-> "none"]

SetupInit ==
    /\ setupPlatform \in {"unix", "windows"}
    /\ setups = [l \in Launchers |-> IdleSetup]
    /\ contents = [f \in Files |-> "none"] /\ script = NoScript /\ started = 0 /\ kills = 0

------------------------------------------------------------------------------
SetupGoes(l, label) == setups' = [setups EXCEPT ![l].at = label]
Ends(l, outcome) ==
    setups' = [setups EXCEPT ![l] = [at |-> "over", handle |-> NoScript, outcome |-> outcome]]
Kept == UNCHANGED <<setupPlatform, started, kills>>

(* The metadata is embedded and the user agrees; anything else ends the setup before it has begun. *)
StartSetup(l) ==
    /\ setups[l].at \in {"idle", "over"} /\ started < MaxSetups
    /\ started' = started + 1
    /\ setups' = [setups EXCEPT ![l] = [IdleSetup EXCEPT !.at = "checking"]]
    /\ UNCHANGED <<setupPlatform, contents, script, kills>>

(* script_path.exists(). *)
CheckScript(l) ==
    /\ setups[l].at = "checking"
    /\ SetupGoes(l, IF script = NoScript THEN "downloading" ELSE "opening")
    /\ UNCHANGED <<contents, script>> /\ Kept

OpenHandles(f) == {l \in Launchers : setups[l].handle = f}
Locked(f) == setupPlatform = "windows" /\ \E l \in OpenHandles(f) : setups[l].at # "writing"
BeingWritten(f) == \E l \in OpenHandles(f) : setups[l].at = "writing"

(* The download fails, or fs::write opens the file, cutting off what another launcher may have put *)
(* there meanwhile; on windows not a file that is locked.                                          *)
Download(l) ==
    /\ setups[l].at = "downloading"
    /\ \/ SetupGoes(l, "removing") /\ UNCHANGED <<contents, script>>
       \/ /\ script # NoScript /\ Locked(script)
          /\ SetupGoes(l, "removing") /\ UNCHANGED <<contents, script>>
       \/ \E f \in Files :
             /\ IF script = NoScript THEN contents[f] = "none" /\ \A g \in 1..f - 1 : contents[g] # "none"
                ELSE f = script /\ ~Locked(f)
             /\ script' = f /\ contents' = [contents EXCEPT ![f] = "partial"]
             /\ setups' = [setups EXCEPT ![l].at = "writing", ![l].handle = f]
    /\ Kept

(* The bytes of the release, other bytes, or an error in the middle. *)
WriteScript(l) ==
    /\ setups[l].at = "writing"
    /\ \/ \E content \in {"good", "bad"} :
             /\ contents' = [contents EXCEPT ![setups[l].handle] = content]
             /\ setups' = [setups EXCEPT ![l].at = "opening", ![l].handle = NoScript]
       \/ /\ setups' = [setups EXCEPT ![l].at = "removing", ![l].handle = NoScript]
          /\ UNCHANGED contents
    /\ UNCHANGED script /\ Kept

(* Mutant: a script that is refused stays where it is. *)
KeepRefused(l) ==
    /\ setups[l].at = "removing"
    /\ Ends(l, "failed") /\ UNCHANGED <<script, contents>> /\ Kept

(* remove_if_present: errors are only logged. *)
RemoveRefused(l) ==
    /\ setups[l].at = "removing"
    /\ Ends(l, "failed")
    /\ script' = IF script # NoScript /\ Locked(script) THEN script ELSE NoScript
    /\ UNCHANGED contents /\ Kept

(* open_locked_script: on windows it fails while somebody writes. *)
OpenScript(l) ==
    /\ setups[l].at = "opening"
    /\ IF script = NoScript \/ (setupPlatform = "windows" /\ BeingWritten(script))
       THEN SetupGoes(l, "removing")
       ELSE setups' = [setups EXCEPT ![l].at = "verifying", ![l].handle = script]
    /\ UNCHANGED <<contents, script>> /\ Kept

(* Mutant: a script that does not verify is run. *)
VerifyLoosely(l) ==
    /\ setups[l].at = "verifying"
    /\ SetupGoes(l, "launching")
    /\ UNCHANGED <<contents, script>> /\ Kept

VerifyScript(l) ==
    /\ setups[l].at = "verifying"
    /\ IF contents[setups[l].handle] = "good" THEN SetupGoes(l, "launching")
       ELSE setups' = [setups EXCEPT ![l].at = "removing", ![l].handle = NoScript]
    /\ UNCHANGED <<contents, script>> /\ Kept

(* spawn_setup; a shell that cannot be started leaves the script for the next attempt. *)
LaunchScript(l) ==
    /\ setups[l].at = "launching"
    /\ SetupGoes(l, "running") \/ Ends(l, "failed")
    /\ UNCHANGED <<contents, script>> /\ Kept

(* A script that fails stays, too. *)
ScriptEnds(l) ==
    /\ setups[l].at = "running"
    /\ \/ setups' = [setups EXCEPT ![l].at = "finishing", ![l].handle = NoScript]
       \/ Ends(l, "failed")
    /\ UNCHANGED <<contents, script>> /\ Kept

(* remove_file, whose error is the error of the setup. *)
RemoveScript(l) ==
    /\ setups[l].at = "finishing"
    /\ IF script = NoScript \/ Locked(script) THEN Ends(l, "failed") /\ UNCHANGED script
       ELSE Ends(l, "done") /\ script' = NoScript
    /\ UNCHANGED contents /\ Kept

SetupKilled(l) ==
    /\ setups[l].at \notin {"idle", "over"} /\ kills < MaxSetupKills
    /\ kills' = kills + 1 /\ Ends(l, "killed")
    /\ UNCHANGED <<setupPlatform, contents, script, started>>

SetupNext ==
    \E l \in Launchers :
        \/ StartSetup(l) \/ CheckScript(l) \/ Download(l) \/ WriteScript(l) \/ RemoveRefused(l)
        \/ OpenScript(l) \/ VerifyScript(l) \/ LaunchScript(l) \/ ScriptEnds(l) \/ RemoveScript(l)
        \/ SetupKilled(l)

SetupSafety == SetupInit /\ [][SetupNext]_setupVars

------------------------------------------------------------------------------
(* What runs is, for as long as it runs, what was verified.  On unix a second setup that has found  *)
(* no script may write over the file a first one is running, so there it holds only for a single   *)
(* one at a time.                                                                                   *)
RunsWhatItVerified ==
    \A l \in Launchers :
        /\ setups[l].at = "running"
        /\ setupPlatform = "windows" \/ \A k \in Launchers \ {l} : setups[k].at = "idle"
        => contents[setups[l].handle] = "good"

(* A setup that ends by itself leaves no script behind that the next one would have to refuse. *)
LeftoversAreGood ==
    (\A l \in Launchers : setups[l].at \in {"idle", "over"}) /\ kills = 0 /\ script # NoScript =>
        contents[script] = "good"
==============================================================================
