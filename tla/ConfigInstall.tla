---------------------------- MODULE ConfigInstall ----------------------------
(***************************************************************************)
(* How a daemon installs its configuration (cloudflare_config.rs           *)
(* normalize_validate_and_replace, TempCandidate): a candidate beside      *)
(* config.yml is written, validated by cloudflared and renamed over it.    *)
(* Two installers run at once when two installations use the same         *)
(* user-data directory: the daemon lock is per installation.               *)
(***************************************************************************)
EXTENDS Ingress, FiniteSets

CONSTANTS
    Installers,         \* daemon processes that share the directory
    Pids,               \* process ids the system hands out, and hands out again
    MaxSequence,        \* bound: values of TEMP_SEQUENCE in one process
    MaxAttempts,        \* names TempCandidate::create tries (100 in the code)
    MaxInstallFaults    \* bound: processes killed while they install, and removals refused

(* Process ids are not 0, and a process has a number for each name it tries. *)
ASSUME InstallAssumption ==
    /\ 0 \notin Pids /\ MaxSequence \in Nat /\ MaxAttempts \in 1..MaxSequence + 1
    /\ MaxInstallFaults \in Nat

VARIABLES
    document,     \* the parsed config.yml an installer works on: what the functions are checked on
    installers,   \* [at, pid, sequence, attempts]
    configFile,   \* the state of config.yml: "user", or that of the candidate renamed over it
    candidates,   \* the candidate files that exist, by name: "partial", "written" or "validated"
    installFaults \* processes killed while they install, and removals the system refused

installVars == <<document, installers, configFile, candidates, installFaults>>

Names == Pids \X (0..MaxSequence)
NoFile == "none"
FileState == {"partial", "written", "validated"}

Idle == [at |-> "idle", pid |-> 0, sequence |-> 0, attempts |-> 0]

InstallTypeOK ==
    /\ installers \in [Installers ->
          [at : {"idle", "creating", "writing", "validating", "replacing", "dropping", "done", "failed"},
           pid : Pids \cup {0}, sequence : 0..MaxSequence + 1, attempts : 0..MaxAttempts]]
    /\ configFile \in FileState \cup {"user"}
    /\ candidates \in [Names -> FileState \cup {NoFile}]
    /\ installFaults \in 0..MaxInstallFaults

InstallInit ==
    /\ document = Bare("no_ingress")
    /\ installers = [i \in Installers |-> Idle]
    /\ configFile = "user"
    /\ candidates = [n \in Names |-> NoFile]
    /\ installFaults = 0

------------------------------------------------------------------------------
NameOf(i) == <<installers[i].pid, installers[i].sequence>>
InstallGoes(i, label) == installers' = [installers EXCEPT ![i].at = label]
Candidate(i, state) == candidates' = [candidates EXCEPT ![NameOf(i)] = state]

(* normalize_yaml refuses the document or the installer goes on to its candidate. *)
ReadConfig(i) ==
    /\ installers[i].at = "idle"
    /\ \E pid \in Pids \ {installers[j].pid : j \in Installers} :
       \E accepted \in BOOLEAN :
           installers' = [installers EXCEPT
               ![i] = [Idle EXCEPT !.pid = pid, !.at = IF accepted THEN "creating" ELSE "failed"]]
    /\ UNCHANGED <<configFile, candidates, installFaults>>

(* create_new: a name left behind by an earlier process with this id is passed over; any other *)
(* error of open ends the installation.                                                        *)
CreateCandidate(i) ==
    /\ installers[i].at = "creating"
    /\ \/ /\ candidates[NameOf(i)] # NoFile
          /\ installers' = [installers EXCEPT
                 ![i].sequence = @ + 1, ![i].attempts = @ + 1,
                 ![i].at = IF installers[i].attempts + 1 = MaxAttempts THEN "failed" ELSE @]
          /\ UNCHANGED candidates
       \/ /\ candidates[NameOf(i)] = NoFile
          /\ InstallGoes(i, "writing") /\ Candidate(i, "partial")
       \/ InstallGoes(i, "failed") /\ UNCHANGED candidates
    /\ UNCHANGED <<configFile, installFaults>>

(* `let _ = fs::remove_file`: the file goes, or the system refuses and nobody looks. *)
RemoveCandidate(i) ==
    \/ Candidate(i, NoFile) /\ UNCHANGED installFaults
    \/ /\ installFaults < MaxInstallFaults /\ installFaults' = installFaults + 1
       /\ UNCHANGED candidates

(* Mutant: a write that fails returns at once, its file not removed. *)
WriteCandidateCarelessly(i) ==
    /\ installers[i].at = "writing"
    /\ \/ InstallGoes(i, "validating") /\ Candidate(i, "written")
       \/ InstallGoes(i, "failed") /\ UNCHANGED candidates
    /\ UNCHANGED <<configFile, installFaults>>

WriteCandidate(i) ==
    /\ installers[i].at = "writing"
    /\ \/ InstallGoes(i, "validating") /\ Candidate(i, "written") /\ UNCHANGED installFaults
       \/ InstallGoes(i, "failed") /\ RemoveCandidate(i)
    /\ UNCHANGED configFile

(* cloudflared ingress validate. *)
ValidateCandidate(i) ==
    /\ installers[i].at = "validating"
    /\ \/ InstallGoes(i, "replacing") /\ Candidate(i, "validated")
       \/ InstallGoes(i, "dropping") /\ UNCHANGED candidates
    /\ UNCHANGED <<configFile, installFaults>>

(* Mutant: the candidate is copied, not renamed: config.yml is partial for a while. *)
CopyCandidate(i) ==
    /\ installers[i].at = "replacing"
    /\ configFile' = IF configFile = "partial" THEN "validated" ELSE "partial"
    /\ InstallGoes(i, IF configFile = "partial" THEN "dropping" ELSE "replacing")
    /\ UNCHANGED <<candidates, installFaults>>

(* atomic_replace, then disarm; or the rename fails and the candidate is dropped. *)
ReplaceConfig(i) ==
    /\ installers[i].at = "replacing"
    /\ \/ /\ configFile' = candidates[NameOf(i)]
          /\ Candidate(i, NoFile) /\ InstallGoes(i, "done")
       \/ InstallGoes(i, "dropping") /\ UNCHANGED <<configFile, candidates>>
    /\ UNCHANGED installFaults

DropCandidate(i) ==
    /\ installers[i].at = "dropping"
    /\ InstallGoes(i, "failed") /\ RemoveCandidate(i)
    /\ UNCHANGED configFile

(* The process is killed; its files stay. *)
InstallerCrashes(i) ==
    /\ installers[i].at \notin {"idle", "done", "failed"} /\ installFaults < MaxInstallFaults
    /\ installFaults' = installFaults + 1
    /\ installers' = [installers EXCEPT ![i] = Idle]
    /\ UNCHANGED <<configFile, candidates>>

(* The daemon ends; the next one is a new process. *)
InstallerEnds(i) ==
    /\ installers[i].at \in {"done", "failed"}
    /\ installers' = [installers EXCEPT ![i] = Idle]
    /\ UNCHANGED <<configFile, candidates, installFaults>>

(* The functions are checked on every document; nothing else happens in such a behaviour. *)
TakeDocument ==
    /\ document' \in Documents
    /\ document = Bare("no_ingress") /\ \A i \in Installers : installers[i] = Idle
    /\ configFile = "user" /\ installFaults = 0
    /\ UNCHANGED <<installers, configFile, candidates, installFaults>>

InstallNext ==
    \/ TakeDocument
    \/ /\ \E i \in Installers :
             \/ ReadConfig(i) \/ CreateCandidate(i) \/ WriteCandidate(i) \/ ValidateCandidate(i)
             \/ ReplaceConfig(i) \/ DropCandidate(i) \/ InstallerCrashes(i) \/ InstallerEnds(i)
       /\ document = Bare("no_ingress") /\ UNCHANGED document

InstallSafety == InstallInit /\ [][InstallNext]_installVars

------------------------------------------------------------------------------
(* normalize_value accepts exactly the documents with one managed rule, and yields the other rules *)
(* in their order, the managed one with the proxy's port, and the 404 rule last; doing it again     *)
(* with another port (the next daemon) changes that port and nothing else.                          *)
NormalizedIsManaged ==
    LET result == Normalize(document, "port")
    IN  IF Manageable(document)
        THEN /\ result.error = "none" /\ result.rules = Managed(document, "port")
             /\ Normalize(WithRules(result.rules), "next_port").rules = Managed(document, "next_port")
        ELSE result.error # "none"

(* config.yml is at every instant, crashes included, the user's file or a whole candidate that     *)
(* cloudflared has accepted.                                                                        *)
ConfigIsAlwaysWhole == configFile \in {"user", "validated"}

(* Whatever step fails, a candidate is left behind only by a process that was killed or by a     *)
(* removal the system refused, which TempCandidate ignores: at most one file for each, also when *)
(* a later process with the same id meets what is left.                                          *)
CandidatesAreRemoved ==
    LET files == {n \in Names : candidates[n] # NoFile}
        inUse == {i \in Installers :
                     installers[i].at \in {"writing", "validating", "replacing", "dropping"}}
    IN  Cardinality(files) <= Cardinality(inUse) + installFaults
==============================================================================
