----------------------------- MODULE CommandLine -----------------------------
(***************************************************************************)
(* What fw takes from its command line (cli.rs), the rules for slugs that  *)
(* it shares with the daemon (slug.rs) and with the proxy (headers.rs),    *)
(* and the slugs the daemon makes up.  All of these are functions; the     *)
(* state is the input they are applied to.                                 *)
(*                                                                         *)
(* A word is a sequence of characters; a character that is not ASCII takes *)
(* two bytes, any other one.                                               *)
(***************************************************************************)
EXTENDS Naturals, Sequences, SequencesExt, FiniteSets

CONSTANTS
    MaxWord,        \* bound: characters of a word
    MaxSlugBytes,   \* MAX_SLUG_LEN
    MaxPort,        \* u16::MAX
    Candidates,     \* the adjective-noun combinations, in the order of the lists
    Attempts        \* GENERATED_SLUG_RANDOM_ATTEMPTS

ASSUME SlugBytesAssumption == MaxSlugBytes \in Nat /\ MaxWord \in Nat

VARIABLES
    word,    \* a slug, port or selector as it is typed
    line,    \* what clap has recognised on the command line
    draw     \* [draws: what the generator's random choices give, taken]

commandVars == <<word, line, draw>>

Letter == {"a", "A"}
Digits == {"0", "7"}
Hyphen == "-"
Accented == "nonascii"
Character == Letter \cup Digits \cup {Hyphen, "+", Accented}

Words == UNION {[1..n -> Character] : n \in 0..MaxWord}
Chars(w) == {w[i] : i \in DOMAIN w}
Bytes(w) == Len(w) + Cardinality({i \in DOMAIN w : w[i] = Accented})
Lowercase(w) == [i \in DOMAIN w |-> IF w[i] = "A" THEN "a" ELSE w[i]]
StartsOrEnds(w, c) == w # <<>> /\ (w[1] = c \/ w[Len(w)] = c)

------------------------------------------------------------------------------
(* The rule for slugs, three times: the reason a slug is refused for. *)

CliSlugReason(w) ==
    LET slug == Lowercase(w)
    IN  CASE slug = <<>> \/ Bytes(slug) > MaxSlugBytes -> "length"
          [] Accented \in Chars(slug) -> "characters"
          [] StartsOrEnds(slug, Hyphen) -> "hyphen"
          [] ~ Chars(slug) \subseteq {"a", Hyphen} \cup Digits -> "characters"
          [] Chars(slug) \subseteq Digits -> "numeric"
          [] OTHER -> "none"

(* Mutant: the daemon's copy takes all-numeric slugs. *)
NumericSlugReason(slug) ==
    CASE slug = <<>> \/ Bytes(slug) > MaxSlugBytes -> "length"
      [] Accented \in Chars(slug) -> "characters"
      [] StartsOrEnds(slug, Hyphen) -> "hyphen"
      [] \E i \in DOMAIN slug : slug[i] \notin {"a", Hyphen} \cup Digits -> "characters"
      [] OTHER -> "none"

DaemonSlugReason(slug) ==
    CASE slug = <<>> \/ Bytes(slug) > MaxSlugBytes -> "length"
      [] Accented \in Chars(slug) -> "characters"
      [] StartsOrEnds(slug, Hyphen) -> "hyphen"
      [] \E i \in DOMAIN slug : slug[i] \notin {"a", Hyphen} \cup Digits -> "characters"
      [] \A i \in DOMAIN slug : slug[i] \in Digits -> "numeric"
      [] OTHER -> "none"

ProxyAccepts(slug) ==
    /\ Bytes(slug) \in 1..MaxSlugBytes
    /\ slug[1] # Hyphen /\ slug[Len(slug)] # Hyphen
    /\ ~ Chars(slug) \subseteq Digits
    /\ Chars(slug) \subseteq {"a", Hyphen} \cup Digits

------------------------------------------------------------------------------
(* Ports and selectors. *)

InvalidPort == 0
DigitValue(c) == IF c = "7" THEN 7 ELSE 0

(* str::parse takes a plus sign; 0 stands for what it refuses, as the code does. *)
ParsePort(w) ==
    LET digits == IF w # <<>> /\ w[1] = "+" THEN Tail(w) ELSE w
        value == FoldLeft(LAMBDA n, c : 10 * n + DigitValue(c), 0, digits)
    IN  IF digits # <<>> /\ Chars(digits) \subseteq Digits /\ value <= MaxPort
        THEN value ELSE InvalidPort

(* Mutant: what parses as a port is one, anything else a slug. *)
ParseStopSelectorByPort(w) ==
    IF ParsePort(w) # InvalidPort THEN [kind |-> "port", of |-> <<ParsePort(w)>>]
    ELSE [kind |-> "slug", of |-> Lowercase(w)]

ParseStopSelector(w) ==
    IF w # <<>> /\ Chars(w) \subseteq Digits
    THEN IF ParsePort(w) = InvalidPort THEN [kind |-> "invalid_port", of |-> <<>>]
         ELSE [kind |-> "port", of |-> <<ParsePort(w)>>]
    ELSE IF CliSlugReason(w) = "none" THEN [kind |-> "slug", of |-> Lowercase(w)]
         ELSE [kind |-> "invalid_slug", of |-> <<>>]

------------------------------------------------------------------------------
(* Cli. *)

Lines == [daemon : BOOLEAN, setup : BOOLEAN, portable : BOOLEAN, port : BOOLEAN,
          slug : {"none", "valid", "invalid"},
          command : {"none", "start", "list", "stop", "stop_nonsense", "kill"}]

(* What clap refuses: conflicts_with. *)
Conflicts(l) == (l.setup /\ l.daemon) \/ (l.portable /\ l.port) \/ (l.port /\ l.setup)

StartWith(l) == IF l.slug = "invalid" THEN "InvalidSlug" ELSE "start"
Unslugged(l, invocation) == IF l.slug = "none" THEN invocation ELSE "SlugWithoutStart"

(* Mutant: setup does not look at the subcommand. *)
NormalizeLazily(l) ==
    IF l.portable /\ ~l.setup THEN "PortableWithoutSetup"
    ELSE IF l.daemon /\ l.setup THEN "ConflictingModes"
    ELSE IF l.daemon
         THEN IF l.port \/ l.command # "none" THEN "DaemonWithCommand" ELSE "daemon"
    ELSE IF l.setup
         THEN IF l.port THEN "SetupWithCommand" ELSE "setup"
    ELSE IF l.port /\ l.command # "none" THEN "ShorthandWithSubcommand"
    ELSE IF l.port \/ l.command = "start" THEN StartWith(l)
    ELSE IF l.command = "stop_nonsense" THEN Unslugged(l, "InvalidSelector")
    ELSE Unslugged(l, IF l.command = "none" THEN "MissingCommand" ELSE l.command)

NormalizeLine(l) ==
    IF l.portable /\ ~l.setup THEN "PortableWithoutSetup"
    ELSE IF l.daemon /\ l.setup THEN "ConflictingModes"
    ELSE IF l.daemon
         THEN IF l.port \/ l.command # "none" THEN "DaemonWithCommand" ELSE "daemon"
    ELSE IF l.setup
         THEN IF l.port \/ l.command # "none" THEN "SetupWithCommand" ELSE "setup"
    ELSE IF l.port /\ l.command # "none" THEN "ShorthandWithSubcommand"
    ELSE IF l.port \/ l.command = "start" THEN StartWith(l)
    ELSE IF l.command = "stop_nonsense" THEN Unslugged(l, "InvalidSelector")
    ELSE Unslugged(l, IF l.command = "none" THEN "MissingCommand" ELSE l.command)

Invocations == {"daemon", "setup", "start", "list", "stop", "kill"}
Invocation(l) == IF Conflicts(l) THEN "ArgumentConflict" ELSE NormalizeLine(l)

------------------------------------------------------------------------------
(* generate_unique_slug: the random draws, then the list. *)

NoCandidate == "none"

(* The lists of words are constants of slug.rs. *)
ASSUME CandidatesAssumption ==
    /\ Candidates \in Seq(ToSet(Candidates)) /\ Candidates # <<>>
    /\ NoCandidate \notin ToSet(Candidates) /\ Attempts \in Nat

FirstFree(slugs, taken) ==
    LET free == {i \in DOMAIN slugs : slugs[i] \notin taken}
    IN  IF free = {} THEN NoCandidate ELSE slugs[Min(free)]

(* Mutant: the list is not gone through. *)
DrawOnly(draws, taken) == FirstFree(draws, taken)

GenerateUniqueSlug(draws, taken) ==
    IF FirstFree(draws, taken) # NoCandidate THEN FirstFree(draws, taken)
    ELSE FirstFree(Candidates, taken)

Draws == [draws : [1..Attempts -> ToSet(Candidates)], taken : SUBSET ToSet(Candidates)]

------------------------------------------------------------------------------
Nothing == [daemon |-> FALSE, setup |-> FALSE, portable |-> FALSE, port |-> FALSE,
            slug |-> "none", command |-> "none"]
NoDraw == [draws |-> [i \in 1..Attempts |-> Candidates[1]], taken |-> {}]

CommandInit == word = <<>> /\ line = Nothing /\ draw = NoDraw
CommandIsFresh == word = <<>> /\ line = Nothing /\ draw = NoDraw

TypeWord == CommandIsFresh /\ word' \in Words /\ UNCHANGED <<line, draw>>
TypeLine == CommandIsFresh /\ line' \in Lines /\ UNCHANGED <<word, draw>>
DrawSlug == CommandIsFresh /\ draw' \in Draws /\ UNCHANGED <<word, line>>

CommandNext == TypeWord \/ TypeLine \/ DrawSlug

CommandSafety == CommandInit /\ [][CommandNext]_commandVars

(* The command line, the daemon and the proxy agree on what a slug is: nothing can be registered   *)
(* that the proxy then refuses as a host, and both programs give the same reason.                   *)
SlugRulesAgree ==
    /\ CliSlugReason(word) = DaemonSlugReason(Lowercase(word))
    /\ ProxyAccepts(Lowercase(word)) <=> CliSlugReason(word) = "none"

(* A word means to `fw stop` what it means to a start, or is refused: every slug a start takes is   *)
(* that slug, every port typed in digits is that port and never a slug, and nothing else selects a   *)
(* forward. A port typed with a plus sign is refused: a start takes it, since str::parse does, and    *)
(* a stop reads it as a slug, so such a forward is stopped by the port without the sign.             *)
SelectorsAreUnambiguous ==
    LET selector == ParseStopSelector(word)
        typedInDigits == ParsePort(word) # InvalidPort /\ word[1] # "+"
    IN  /\ IF CliSlugReason(word) = "none"
           THEN selector = [kind |-> "slug", of |-> Lowercase(word)]
           ELSE selector.kind # "slug"
        /\ IF typedInDigits THEN selector = [kind |-> "port", of |-> <<ParsePort(word)>>]
           ELSE selector.kind # "port"
        /\ ParsePort(word) # InvalidPort /\ ~typedInDigits => selector.kind = "invalid_slug"

(* A command line is accepted exactly when it says one thing: one mode, port or command with what  *)
(* belongs to it (a slug is tolerated with the two modes).                                          *)
LinesHaveOneMeaning ==
    LET said == {s \in {"daemon", "setup", "port"} : line[s]}
                \cup ({line.command} \ {"none"})
    IN  Invocation(line) \in Invocations <=>
            /\ Cardinality(said) = 1 /\ "stop_nonsense" \notin said
            /\ line.portable => line.setup
            /\ line.slug = "valid" => said \cap {"list", "stop", "kill"} = {}
            /\ line.slug = "invalid" => said \cap {"daemon", "setup"} # {}

(* A made-up slug is free, and there is one as long as any combination is free. *)
GeneratedSlugsAreFree ==
    LET slug == GenerateUniqueSlug(draw.draws, draw.taken)
    IN  IF ToSet(Candidates) \subseteq draw.taken THEN slug = NoCandidate
        ELSE slug \in ToSet(Candidates) \ draw.taken
==============================================================================
