---------------------------- MODULE RecentOutput ----------------------------
(***************************************************************************)
(* What the daemon keeps of the output of a process (cloudflared.rs        *)
(* capture_stream, RecentOutput): two tasks cut what they read from stdout *)
(* and stderr into lines and push them into one bounded list.              *)
(*                                                                         *)
(* A byte is "a" (any character of one byte), "bad" (a byte that is no     *)
(* character, by itself or because a cut has separated it from its         *)
(* neighbours, three bytes once it is replaced) or "newline" (or \r).  A   *)
(* line is its length, the prefix and the line end included.               *)
(***************************************************************************)
EXTENDS Naturals, Sequences, SequencesExt, FiniteSetsExt

CONSTANTS
    ReadChunk,       \* READ_CHUNK_BYTES
    PrefixBytes,     \* the length of "[stdout] " and "[stderr] "
    MaxOutputBytes, MaxOutputLines,
    MaxReads         \* bound: chunks a stream delivers

ASSUME OutputAssumption ==
    /\ ReadChunk \in Nat \ {0} /\ MaxOutputLines \in Nat \ {0}
    /\ PrefixBytes \in Nat /\ MaxOutputBytes \in Nat /\ MaxOutputBytes > PrefixBytes + 1
    /\ MaxReads \in Nat

Byte == {"a", "bad", "newline"}
Stream == {"stdout", "stderr"}

VARIABLES
    streams,    \* [at : "reading", "cutting" or "ended", pending, reads]
    output      \* OutputState: [lines, bytes]

outputVars == <<streams, output>>

OutputTypeOK ==
    /\ streams \in [Stream -> [at : {"reading", "cutting", "ended"},
                               pending : UNION {[1..n -> Byte] : n \in 0..3 * ReadChunk},
                               reads : 0..MaxReads]]
    /\ output.lines \in Seq(Nat) /\ output.bytes \in Nat

OutputInit ==
    /\ streams = [s \in Stream |-> [at |-> "reading", pending |-> <<>>, reads |-> 0]]
    /\ output = [lines |-> <<>>, bytes |-> 0]

------------------------------------------------------------------------------
(* push_bytes. *)

Total(lines) == FoldLeft(LAMBDA n, line : n + line, 0, lines)
Width(text) == Total([i \in DOMAIN text |-> IF text[i] = "bad" THEN 3 ELSE 1])
From(text, from) == SubSeq(text, from, Len(text))
TrimEnd(text) ==
    SubSeq(text, 1, Max({0} \cup {i \in DOMAIN text : text[i] # "newline"}))

(* The last bytes that may fit, made into characters, and of these the last that do fit. *)
LineBytes(raw) ==
    LET payload == MaxOutputBytes - (PrefixBytes + 1)
        text == TrimEnd(From(raw, IF Len(raw) > payload THEN Len(raw) - payload + 1 ELSE 1))
        start == Min({i \in 1..Len(text) + 1 : Width(From(text, i)) <= payload})
    IN  PrefixBytes + Width(From(text, start)) + 1

(* The oldest lines go until both bounds hold. *)
EvictOldest(lines, bytes) ==
    LET kept == {n \in 0..Len(lines) :
                    /\ Len(lines) - n <= MaxOutputLines
                    /\ bytes - Total(SubSeq(lines, 1, n)) <= MaxOutputBytes}
        n == Min(kept)
    IN  [lines |-> From(lines, n + 1), bytes |-> bytes - Total(SubSeq(lines, 1, n))]

(* Mutant: the byte count misses the line end of a line that is pushed. *)
PushUncounted(raw) ==
    output' = EvictOldest(Append(output.lines, LineBytes(raw)), output.bytes + LineBytes(raw) - 1)

(* Mutant: a full list is emptied. *)
PushAfterClear(raw) ==
    output' = LET pushed == EvictOldest(Append(output.lines, LineBytes(raw)),
                                        output.bytes + LineBytes(raw))
              IN  IF Len(pushed.lines) <= Len(output.lines)
                  THEN [lines |-> <<LineBytes(raw)>>, bytes |-> LineBytes(raw)] ELSE pushed

Push(raw) ==
    output' = EvictOldest(Append(output.lines, LineBytes(raw)), output.bytes + LineBytes(raw))

------------------------------------------------------------------------------
(* capture_stream, one task per stream.  The tasks run in parallel: what is between two pushes of  *)
(* one task is a step.                                                                             *)

Captures(s, at, pending) == streams' = [streams EXCEPT ![s].at = at, ![s].pending = pending]

ReadOutput(s) ==
    /\ streams[s].at = "reading" /\ streams[s].reads < MaxReads
    /\ \E chunk \in UNION {[1..n -> Byte] : n \in 1..ReadChunk} :
           streams' = [streams EXCEPT
               ![s] = [at |-> "cutting", pending |-> @.pending \o chunk, reads |-> @.reads + 1]]
    /\ UNCHANGED output

Newlines(s) == {i \in DOMAIN streams[s].pending : streams[s].pending[i] = "newline"}

Cut(s, at, n) ==
    /\ Push(SubSeq(streams[s].pending, 1, n))
    /\ Captures(s, at, From(streams[s].pending, n + 1))

CutLine(s) ==
    /\ streams[s].at = "cutting" /\ Newlines(s) # {}
    /\ Cut(s, "cutting", Min(Newlines(s)))

(* An unterminated line that has grown too long loses its first chunk. *)
CutChunk(s) ==
    /\ streams[s].at = "cutting" /\ Newlines(s) = {}
    /\ IF Len(streams[s].pending) >= 2 * ReadChunk
       THEN Cut(s, "reading", ReadChunk)
       ELSE Captures(s, "reading", streams[s].pending) /\ UNCHANGED output

StreamEnds(s) ==
    /\ streams[s].at = "reading"
    /\ Captures(s, "ended", <<>>)
    /\ IF streams[s].pending # <<>> THEN Push(streams[s].pending) ELSE UNCHANGED output

(* A read that fails ends the task at once: the line it had begun is never pushed. *)
ReadFails(s) ==
    /\ streams[s].at = "reading"
    /\ Captures(s, "ended", <<>>)
    /\ UNCHANGED output

OutputNext ==
    \E s \in Stream :
        ReadOutput(s) \/ CutLine(s) \/ CutChunk(s) \/ StreamEnds(s) \/ ReadFails(s)

OutputSafety == OutputInit /\ [][OutputNext]_outputVars

------------------------------------------------------------------------------
(* However the output comes, in chunks that end anywhere, without line ends, or as bytes that grow *)
(* when they are made into text: both bounds hold, the byte count is what the lines take, and a    *)
(* task that waits holds less than two chunks.                                                     *)
OutputIsBounded ==
    /\ Len(output.lines) <= MaxOutputLines /\ output.bytes <= MaxOutputBytes
    /\ output.bytes = Total(output.lines)
    /\ \A s \in Stream :
          streams[s].at # "cutting" => Len(streams[s].pending) < 2 * ReadChunk

(* What is pushed is kept, and drops the oldest lines only, no more of them than it must. *)
NewestOutputIsKept ==
    [][output' # output =>
        LET new == output'.lines
            dropped == Len(output.lines) + 1 - Len(new)
        IN  /\ new # <<>> /\ Front(new) = From(output.lines, dropped + 1)
            /\ dropped > 0 =>
                  \/ Len(new) = MaxOutputLines
                  \/ output.lines[dropped] + Total(new) > MaxOutputBytes]_outputVars
==============================================================================
