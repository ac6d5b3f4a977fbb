------------------------------- MODULE Ingress -------------------------------
(***************************************************************************)
(* What fw makes of the ingress rules of config.yml (cloudflare_config.rs  *)
(* normalize_value), as a function of the document and the proxy port.     *)
(*                                                                         *)
(* A rule is what the code distinguishes in it and where it comes from.    *)
(* Kinds: "host" (a host name that is no wildcard, or no string),          *)
(* "wildcard" and "bad_wildcard" (no path; valid or not), "wildcard_path", *)
(* "not_found" (no host, service http_status:404), "catch_all" (no host,   *)
(* another service), "scalar" (not a mapping).                             *)
(***************************************************************************)
EXTENDS Naturals, Sequences, SequencesExt

CONSTANT MaxRules    \* bound: rules in a document

ASSUME RulesAssumption == MaxRules \in Nat

RuleKind ==
    {"host", "wildcard", "bad_wildcard", "wildcard_path", "not_found", "catch_all", "scalar"}

Refused == {"scalar", "catch_all", "bad_wildcard"}

(* A document: its rules, or why it has no sequence of them (not YAML, not a mapping, `ingress` *)
(* is something else or absent).                                                                *)
BareRoot == {"not_yaml", "no_mapping", "no_sequence", "no_ingress"}
Bare(root) == [root |-> root, rules |-> <<>>]
WithRules(rules) == [root |-> "rules", rules |-> rules]

Documents ==
    {Bare(root) : root \in BareRoot} \cup
    {WithRules([i \in DOMAIN kinds |-> [kind |-> kinds[i], line |-> i, service |-> "user"]]) :
        kinds \in UNION {[1..n -> RuleKind] : n \in 0..MaxRules}}

NoRule == [kind |-> "none", line |-> 0, service |-> "none"]
FallbackRule == [kind |-> "not_found", line |-> 0, service |-> "user"]

Error(what) == [error |-> what, rules |-> <<>>]

(* The loop's state: the rules kept in place, the managed rule, the fallback. *)
Scan == [error |-> "none", specific |-> <<>>, managed |-> NoRule, fallback |-> NoRule]

(* Mutant: a second 404 rule replaces the first. *)
ScanRuleKeepingLast(port, scan, rule) ==
    IF scan.error # "none" THEN scan
    ELSE IF rule.kind \in Refused THEN [scan EXCEPT !.error = rule.kind]
    ELSE IF rule.kind = "not_found" THEN [scan EXCEPT !.fallback = rule]
    ELSE IF rule.kind # "wildcard" THEN [scan EXCEPT !.specific = Append(@, rule)]
    ELSE IF scan.managed # NoRule THEN [scan EXCEPT !.error = "ambiguous"]
    ELSE [scan EXCEPT !.managed = [rule EXCEPT !.service = port]]

(* One turn of the loop; an error ends it. *)
ScanRule(port, scan, rule) ==
    IF scan.error # "none" THEN scan
    ELSE IF rule.kind \in Refused THEN [scan EXCEPT !.error = rule.kind]
    ELSE IF rule.kind = "not_found"
         THEN IF scan.fallback = NoRule THEN [scan EXCEPT !.fallback = rule] ELSE scan
    ELSE IF rule.kind # "wildcard" THEN [scan EXCEPT !.specific = Append(@, rule)]
    ELSE IF scan.managed # NoRule THEN [scan EXCEPT !.error = "ambiguous"]
    ELSE [scan EXCEPT !.managed = [rule EXCEPT !.service = port]]

ScanAll(document, port) == FoldLeft(LAMBDA s, r : ScanRule(port, s, r), Scan, document.rules)

Normalize(document, port) ==
    IF document.root \in {"not_yaml", "no_mapping", "no_sequence"} THEN Error(document.root)
    ELSE LET scan == ScanAll(document, port)
         IN  IF scan.error # "none" THEN Error(scan.error)
             ELSE IF scan.managed = NoRule THEN Error("no_wildcard")
             ELSE [error |-> "none",
                   rules |-> scan.specific \o
                       <<scan.managed, IF scan.fallback = NoRule THEN FallbackRule ELSE scan.fallback>>]

------------------------------------------------------------------------------
(* The reference: what the managed ingress contract asks of a document and makes of it. *)

RulesOf(document, kinds) ==
    FoldLeft(LAMBDA kept, r : IF r.kind \in kinds THEN Append(kept, r) ELSE kept, <<>>, document.rules)

Manageable(document) ==
    /\ document.root = "rules"
    /\ RulesOf(document, Refused) = <<>>
    /\ Len(RulesOf(document, {"wildcard"})) = 1

Managed(document, port) ==
    LET fallbacks == RulesOf(document, {"not_found"})
    IN  RulesOf(document, {"host", "wildcard_path"})
        \o <<[RulesOf(document, {"wildcard"})[1] EXCEPT !.service = port]>>
        \o <<IF fallbacks = <<>> THEN FallbackRule ELSE fallbacks[1]>>
==============================================================================
