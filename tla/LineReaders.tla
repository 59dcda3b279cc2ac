----------------------------- MODULE LineReaders -----------------------------
(***************************************************************************)
(* How the bytes of the app-server become lines: JsonLinesReader::next on  *)
(* its stdout (codec.rs), capture_stderr on its stderr (process.rs) and    *)
(* the ring that keeps the end of the latter (StderrRing: redact.rs).      *)
(*                                                                         *)
(* A read returns as many bytes as the pipe happens to hold.  A byte is a  *)
(* line feed, a carriage return or any other; a frame that holds no other  *)
(* byte is no JSON text.                                                   *)
(***************************************************************************)
EXTENDS Integers, Sequences

CONSTANTS
  MaxLine,       \* max_frame_bytes, MAX_STDERR_LINE_BYTES and the capacity
  MaxInput,      \* bound on the bytes the app-server writes
  MaxChunk       \* bound on the bytes of one read

ASSUME LineAssumption == MaxLine \in Nat \ {0} /\ MaxInput \in Nat /\ MaxChunk \in Nat

VARIABLES
  reader,      \* frames, stderr or ring: what this behaviour is about
  input,       \* all bytes read so far (what the lines are compared with)
  unread,      \* buffer from start on, pending
  kept,        \* the frames returned, the lines captured
  discarding,  \* discarding_oversized_line
  ended,       \* no, the end of the stream is known, or how reading ended
  lengths,     \* StderrRing::lines, by their length
  bytes        \* StderrRing::bytes

readerVars == <<reader, input, unread, kept, discarding, ended, lengths, bytes>>

Bytes == {"x", "CR", "LF"}

ReaderInit ==
  /\ reader \in {"frames", "stderr", "ring"}
  /\ input = <<>> /\ unread = <<>> /\ kept = <<>>
  /\ discarding = FALSE
  /\ ended = "no"
  /\ lengths = <<>> /\ bytes = 0

(* s cut at its line feeds: the complete lines, each without its line feed, *)
(* and what follows the last one.                                           *)
Cut(s) ==
  LET upTo[n \in 0 .. Len(s)] ==
        IF n = 0 THEN [lines |-> <<>>, rest |-> <<>>]
        ELSE LET last == upTo[n - 1]
             IN  IF s[n] = "LF"
                 THEN [lines |-> Append(last.lines, last.rest), rest |-> <<>>]
                 ELSE [lines |-> last.lines, rest |-> Append(last.rest, s[n])]
  IN  upTo[Len(s)]
Complete(s) == Cut(s).lines
Rest(s) == Cut(s).rest

(* A carriage return before the line feed is not part of the line.          *)
Trimmed(line) ==
  IF line # <<>> /\ line[Len(line)] = "CR" THEN SubSeq(line, 1, Len(line) - 1)
  ELSE line

-----------------------------------------------------------------------------
(* JsonLinesReader::next.                                                   *)

(* The buffer takes a longest frame, its CR and its LF.                     *)
Room == MaxLine + 2 - Len(unread)

(* The checks of a frame that ended, in their order.                        *)
FrameVerdict(frame) ==
  IF Len(frame) > MaxLine THEN "too large"
  ELSE IF frame = <<>> THEN "empty"
  ELSE IF \A i \in DOMAIN frame : frame[i] # "x" THEN "invalid"
  ELSE "no"

TakeFrame ==
  /\ reader = "frames" /\ ended \in {"no", "eof"} /\ Complete(unread) # <<>>
  /\ LET frame == Trimmed(Complete(unread)[1])
         verdict == FrameVerdict(frame)
     IN  IF verdict = "no"
         THEN kept' = Append(kept, frame) /\ UNCHANGED ended
         ELSE ended' = verdict /\ UNCHANGED kept
  /\ unread' = IF ended' \in {"too large", "empty"} THEN unread
               ELSE SubSeq(unread, Len(Complete(unread)[1]) + 2, Len(unread))
  /\ UNCHANGED <<reader, input, discarding, lengths, bytes>>

\* Mutant: a frame is too large with its line ending.
TooLongWithReturn == Len(unread) > MaxLine

(* A line that cannot be a frame any more.                                  *)
TooLong == Len(unread) > MaxLine + 1

NoFrame ==
  /\ reader = "frames" /\ ended \in {"no", "eof"} /\ Complete(unread) = <<>>
  /\ TooLong \/ ended = "eof"
  /\ ended' = IF TooLong THEN "too large" ELSE IF unread = <<>> THEN "done"
              ELSE "cut off"
  /\ UNCHANGED <<reader, input, unread, kept, discarding, lengths, bytes>>

ReadFrames(chunk) ==
  /\ reader = "frames" /\ ended = "no" /\ Complete(unread) = <<>> /\ ~TooLong
  /\ Len(chunk) <= Room
  /\ input' = input \o chunk
  /\ unread' = unread \o chunk
  /\ ended' = IF chunk = <<>> THEN "eof" ELSE ended
  /\ UNCHANGED <<reader, kept, discarding, lengths, bytes>>

-----------------------------------------------------------------------------
(* capture_stderr: one read and the loop over the lines it completes.       *)

(* The line that stands for one that was too long.                          *)
Oversized == <<"oversized">>

Captured(line) == IF Len(line) > MaxLine THEN Oversized ELSE Trimmed(line)
CapturedAll(lines) == [k \in DOMAIN lines |-> Captured(lines[k])]

ReadStderr(chunk) ==
  /\ reader = "stderr" /\ ended = "no" /\ chunk # <<>>
  /\ input' = input \o chunk
  /\ LET pending == unread \o chunk
         skipped == discarding /\ Complete(pending) # <<>>
         lines == IF skipped THEN Tail(Complete(pending)) ELSE Complete(pending)
         long == Len(Rest(pending)) > MaxLine
     IN  IF discarding /\ ~skipped
         THEN unread' = <<>> /\ UNCHANGED <<kept, discarding>>
         ELSE /\ kept' = kept \o CapturedAll(lines)
                              \o IF long THEN <<Oversized>> ELSE <<>>
              /\ unread' = IF long THEN <<>> ELSE Rest(pending)
              /\ discarding' = long
  /\ UNCHANGED <<reader, ended, lengths, bytes>>

(* The end of stderr, or an error.                                          *)
EndStderr ==
  /\ reader = "stderr" /\ ended = "no"
  /\ ended' = "done"
  /\ kept' = IF ~discarding /\ unread # <<>> THEN Append(kept, unread) ELSE kept
  /\ UNCHANGED <<reader, input, unread, discarding, lengths, bytes>>

-----------------------------------------------------------------------------
(* StderrRing::push, of a line that has some length after its redaction.    *)

(* What n becomes with each of those numbers added to it.                   *)
Sums(n, added) ==
  LET sum[k \in 0 .. Len(added)] == IF k = 0 THEN n ELSE sum[k - 1] + added[k]
  IN  sum

(* The bytes that are left after k times pop_front.                         *)
Left(ls, n) ==
  Sums(n, [k \in 1 .. Len(ls) |-> -(ls[k] + IF k < Len(ls) THEN 1 ELSE 0)])

(* The while loop: until the new line fits or no line is left.              *)
Pops(ls, n, cost) ==
  LET fits(k) == Left(ls, n)[k] + cost <= MaxLine
  IN  CHOOSE k \in 0 .. Len(ls) :
        (fits(k) \/ k = Len(ls)) /\ \A j \in 0 .. k - 1 : ~fits(j)

PushLine(length) ==
  /\ reader = "ring" /\ Len(input) < MaxInput
  /\ input' = Append(input, length)
  /\ LET size == IF length > MaxLine THEN MaxLine ELSE length
         pops == Pops(lengths, bytes, size + IF lengths = <<>> THEN 0 ELSE 1)
         left == Left(lengths, bytes)[pops]
     IN  /\ lengths' = Append(SubSeq(lengths, pops + 1, Len(lengths)), size)
         /\ bytes' = left + size + IF pops = Len(lengths) THEN 0 ELSE 1
  /\ UNCHANGED <<reader, unread, kept, discarding, ended>>

ReaderNext ==
  \/ \E n \in 0 .. MaxChunk : \E chunk \in [1 .. n -> Bytes] :
       Len(input) + n <= MaxInput /\ (ReadFrames(chunk) \/ ReadStderr(chunk))
  \/ TakeFrame \/ NoFrame \/ EndStderr
  \/ \E length \in 0 .. MaxLine + 1 : PushLine(length)

-----------------------------------------------------------------------------
(* What the frames of all the input are: its lines up to the first that is  *)
(* no frame.                                                                *)
Frames(s) == [k \in DOMAIN Complete(s) |-> Trimmed(Complete(s)[k])]
IsFirstBad(frames, k) ==
  /\ k \in DOMAIN frames /\ FrameVerdict(frames[k]) # "no"
  /\ \A j \in 1 .. k - 1 : FrameVerdict(frames[j]) = "no"
FirstBad(frames) == CHOOSE k \in DOMAIN frames : IsFirstBad(frames, k)
AllGood(frames) == \A k \in DOMAIN frames : FrameVerdict(frames[k]) = "no"
GoodFrames(frames) ==
  IF AllGood(frames) THEN frames ELSE SubSeq(frames, 1, FirstBad(frames) - 1)

(* How reading ends that found those frames and, after them, the rest.      *)
HowItEnds(frames, rest) ==
  IF ~AllGood(frames) THEN FrameVerdict(frames[FirstBad(frames)])
  ELSE IF Len(rest) > MaxLine + 1 THEN "too large"
  ELSE IF rest = <<>> THEN "done" ELSE "cut off"

FramesExact ==
  LET good == GoodFrames(Frames(input))
  IN  /\ Len(kept) <= Len(good)
      /\ kept = SubSeq(good, 1, Len(kept))
      /\ Len(unread) <= MaxLine + 2
      /\ ended \notin {"no", "eof"} =>
           /\ kept = good
           /\ ended = HowItEnds(Frames(input), Rest(input))

(* The lines of stderr, one mark for each that is too long, and at the end  *)
(* the last one even without its line feed.                                 *)
StderrExact ==
  LET rest == Rest(input)
  IN  kept = CapturedAll(Complete(input)) \o
        IF Len(rest) > MaxLine THEN <<Oversized>>
        ELSE IF ended = "done" /\ rest # <<>> THEN <<rest>> ELSE <<>>

(* The length of lines joined by line feeds (StderrRing::tail).             *)
Joined(ls) ==
  Sums(0, [k \in 1 .. Len(ls) |-> ls[k] + IF k > 1 THEN 1 ELSE 0])[Len(ls)]

(* The ring's tail has the length it says and fits.                         *)
RingExact == bytes = Joined(lengths) /\ bytes <= MaxLine

(* However a stream is cut into reads, what is kept of it is what its lines *)
(* are, within the bounds of the buffers.                                   *)
LinesAreExact ==
  /\ reader = "frames" => FramesExact
  /\ reader = "stderr" => StderrExact
  /\ reader = "ring" => RingExact

ReaderSpec == ReaderInit /\ [][ReaderNext]_readerVars
=============================================================================
