----------------------------- MODULE FrameStream -----------------------------
(***************************************************************************)
(* The frames of the control protocol on their stream (ipc/framing.rs):    *)
(* the daemon's writer task writes them, an owner reads them, and Ctrl-C   *)
(* cancels the owner's read wherever it is (main.rs run_owner_session,     *)
(* unregister).  Write and read move any number of bytes at a time.        *)
(*                                                                         *)
(* A header is two digits to the base HeaderBase instead of four bytes; a  *)
(* byte of a payload, text, has the highest value.  What a payload says is *)
(* the number of its frame.                                                *)
(***************************************************************************)
EXTENDS Naturals, Sequences, SequencesExt

CONSTANTS
    HeaderBase,
    MaxPayload,        \* MAX_IPC_FRAME
    PayloadLengths,    \* the lengths of the payloads the daemon has to write
    MaxFrames          \* bound: frames written

(* A header can name every length that is allowed. *)
ASSUME FrameAssumption ==
    /\ HeaderBase \in Nat \ {0} /\ MaxPayload \in Nat /\ MaxFrames \in Nat
    /\ MaxPayload < HeaderBase * HeaderBase /\ PayloadLengths \subseteq Nat

VARIABLES
    written,    \* the frames write_frame has taken
    unsent,     \* what write_all has not handed over yet
    wire,       \* the bytes on their way
    writerEnd,  \* "open", "refused" (write_frame has failed) or "closed"
    reader,     \* [at, need, got: what the pending read_frame has collected]
    heard,      \* the frames read_frame has returned
    cancelled   \* "no", "between_frames" or "in_a_frame": where Ctrl-C has hit

frameVars == <<written, unsent, wire, writerEnd, reader, heard, cancelled>>

HeaderBytes == 2
FrameByte == [value : 0..HeaderBase - 1, frame : 1..MaxFrames, offset : 0..MaxPayload + HeaderBytes]

StreamTypeOK ==
    /\ written \in 0..MaxFrames /\ unsent \in Seq(FrameByte) /\ wire \in Seq(FrameByte)
    /\ writerEnd \in {"open", "refused", "closed"}
    /\ reader.at \in {"header", "payload", "protocol_error", "io_error"}
    /\ reader.need \in 1..MaxPayload + HeaderBytes /\ reader.got \in Seq(FrameByte)
    /\ heard \in Seq(1..MaxFrames) /\ cancelled \in {"no", "between_frames", "in_a_frame"}

FreshRead == [at |-> "header", need |-> HeaderBytes, got |-> <<>>]

StreamInit ==
    /\ written = 0 /\ unsent = <<>> /\ wire = <<>> /\ writerEnd = "open"
    /\ reader = FreshRead /\ heard = <<>> /\ cancelled = "no"

------------------------------------------------------------------------------
(* The writer. *)

ValidLength(n) == n # 0 /\ n <= MaxPayload

Encode(frame, n) ==
    [i \in 1..HeaderBytes + n |->
        [frame |-> frame, offset |-> i,
         value |-> IF i = 1 THEN n \div HeaderBase
                   ELSE IF i = 2 THEN n % HeaderBase ELSE HeaderBase - 1]]

(* A payload that cannot be framed ends the writer task before any of it is written. *)
WriteFrame ==
    /\ writerEnd = "open" /\ unsent = <<>> /\ written < MaxFrames
    /\ \E n \in PayloadLengths :
          IF ValidLength(n)
          THEN /\ written' = written + 1 /\ unsent' = Encode(written + 1, n)
               /\ UNCHANGED writerEnd
          ELSE writerEnd' = "refused" /\ UNCHANGED <<written, unsent>>
    /\ UNCHANGED <<wire, reader, heard, cancelled>>

WriteSome ==
    /\ writerEnd = "open"
    /\ \E n \in 1..Len(unsent) :
          /\ wire' = wire \o SubSeq(unsent, 1, n)
          /\ unsent' = SubSeq(unsent, n + 1, Len(unsent))
    /\ UNCHANGED <<written, writerEnd, reader, heard, cancelled>>

(* The daemon closes the connection or dies, in the middle of a frame perhaps. *)
WriterCloses ==
    /\ writerEnd # "closed" /\ writerEnd' = "closed"
    /\ UNCHANGED <<written, unsent, wire, reader, heard, cancelled>>

------------------------------------------------------------------------------
(* The reader: run_owner_session, then unregister, read until they have what they wait for. *)

Reading == reader.at \in {"header", "payload"}

(* Mutant: the header is read with its least significant byte first. *)
LittleEndian(header) == header[2].value * HeaderBase + header[1].value

Declared(header) == header[1].value * HeaderBase + header[2].value

(* decode_payload: bytes that are not one whole payload are not its JSON. *)
IsPayload(bytes) ==
    /\ \A i \in DOMAIN bytes :
          bytes[i].frame = bytes[1].frame /\ bytes[i].offset = HeaderBytes + i

(* read_exact has its bytes: the header tells how many more to read, the payload is the message. *)
TakeBytes(bytes) ==
    \/ /\ Len(bytes) < reader.need
       /\ reader' = [reader EXCEPT !.got = bytes] /\ UNCHANGED heard
    \/ /\ Len(bytes) = reader.need /\ reader.at = "header" /\ UNCHANGED heard
       /\ reader' = IF ValidLength(Declared(bytes))
                    THEN [at |-> "payload", need |-> Declared(bytes), got |-> <<>>]
                    ELSE [FreshRead EXCEPT !.at = "protocol_error"]
    \/ /\ Len(bytes) = reader.need /\ reader.at = "payload"
       /\ IF IsPayload(bytes)
          THEN reader' = FreshRead /\ heard' = Append(heard, bytes[1].frame)
          ELSE reader' = [FreshRead EXCEPT !.at = "protocol_error"] /\ UNCHANGED heard

ReadSome ==
    /\ Reading
    /\ \E n \in 1..Len(wire) :
          /\ n <= reader.need - Len(reader.got)
          /\ TakeBytes(reader.got \o SubSeq(wire, 1, n))
          /\ wire' = SubSeq(wire, n + 1, Len(wire))
    /\ UNCHANGED <<written, unsent, writerEnd, cancelled>>

(* The end of the stream, in a header or in a payload. *)
ReadEnd ==
    /\ Reading /\ wire = <<>> /\ writerEnd = "closed"
    /\ reader' = [reader EXCEPT !.at = "io_error"]
    /\ UNCHANGED <<written, unsent, wire, writerEnd, heard, cancelled>>

(* Ctrl-C: select! drops the read_frame it has polled with the bytes it has read; unregister() calls *)
(* read_frame anew.                                                                                  *)
CancelRead ==
    /\ Reading /\ cancelled = "no"
    /\ cancelled' = IF reader = FreshRead THEN "between_frames" ELSE "in_a_frame"
    /\ reader' = FreshRead
    /\ UNCHANGED <<written, unsent, wire, writerEnd, heard>>

StreamNext ==
    WriteFrame \/ WriteSome \/ WriterCloses \/ ReadSome \/ ReadEnd \/ CancelRead

StreamSafety == StreamInit /\ [][StreamNext]_frameVars

------------------------------------------------------------------------------
(* The frames are heard one by one, whole and in order, however the stream cuts them and wherever  *)
(* it ends, unless Ctrl-C has hit the reader inside a frame.                                       *)
FramesArriveWhole ==
    cancelled # "in_a_frame" =>
        /\ reader.at # "protocol_error"
        /\ Len(heard) <= written /\ \A i \in DOMAIN heard : heard[i] = i

(* The owner that ends on Ctrl-C understands what it is sent, its acknowledgement above all. *)
AcknowledgementIsUnderstood == reader.at # "protocol_error"
==============================================================================
