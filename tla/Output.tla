--------------------------------- MODULE Output --------------------------------
(***************************************************************************)
(* What becomes of the output of a supervised process: the reader thread   *)
(* (_read_stream of process/supervisor.py) hands each chunk to the bounded *)
(* buffer (process/output.py) and then to the detector of command loops    *)
(* (process/loop.py).                                                      *)
(*                                                                         *)
(* A byte is its position in the stream, a chunk of the buffer is the      *)
(* interval of positions from + 1 .. to.  Every line takes LineWidth bytes,*)
(* the newline included.  The steps between pc = "trim" and the next hold  *)
(* the lock of the buffer, which finish takes.  A step of the observer     *)
(* takes one line.                                                         *)
(***************************************************************************)
EXTENDS Naturals, Sequences, FiniteSets

CONSTANTS
  Limits,     \* the values of output_limit_bytes
  MaxChunk,   \* bound: the bytes of one read
  LineWidth,
  LineCount,  \* bound: the lines of a stream
  Failures,   \* failed commands, as the detector tells them apart: by command,
              \* exit code, output fingerprint and progress token
  Threshold   \* loop_repeat_limit

ASSUME OutputAssumption ==
  /\ Limits \subseteq Nat \ {0, 1}
  /\ MaxChunk \in Nat \ {0} /\ LineWidth \in Nat \ {0} /\ LineCount \in Nat
  /\ Threshold \in Nat \ {0, 1}
  /\ Failures \cap {"success", "note"} = {}

VARIABLES
  \* the stream and its reader
  lines, read, pc,
  \* BoundedTextBuffer: bytes of _all, bytes of _head, _tail_chunks, _tail_bytes
  limit, all, head, tail, tailBytes, truncated,
  \* JsonlCommandLoopObserver: the lines it has looked at, which _pending
  \* follows, and CommandLoopDetector
  taken, detector

stream == <<lines, limit>>
buffer == <<all, head, tail, tailBytes, truncated>>
observer == <<taken, detector>>
vars == <<stream, read, pc, buffer, observer>>

\* A line is a failed command, or a success or expected poll, or anything else.
Success == "success"
Note == "note"
Line == Failures \cup {Success, Note}

StreamLength == LineWidth * LineCount
Interval == [from : Nat, to : Nat]

Fresh == [last |-> Note, count |-> 0, found |-> FALSE]

TypeOK ==
  /\ lines \in [1..LineCount -> Line] /\ limit \in Limits
  /\ read \in 0..StreamLength /\ pc \in {"read", "trim", "observe"}
  /\ all \in 0..limit /\ head \in 0..limit /\ truncated \in BOOLEAN
  /\ tail \in Seq(Interval) /\ tailBytes \in 0..limit + MaxChunk
  /\ taken \in 0..LineCount
  /\ detector \in [last : Line, count : 0..Threshold, found : BOOLEAN]

Init ==
  /\ lines \in [1..LineCount -> Line] /\ limit \in Limits
  /\ read = 0 /\ pc = "read"
  /\ all = 0 /\ head = 0 /\ tail = <<>> /\ tailBytes = 0 /\ truncated = FALSE
  /\ taken = 0 /\ detector = Fresh

-----------------------------------------------------------------------------
(* BoundedTextBuffer *)

HeadSize == limit \div 2
TailSize == limit - head

\* A chunk that fits beside what is kept so far.
KeepAll(n) ==
  /\ ~truncated /\ all + n <= limit
  /\ all' = all + n /\ pc' = "observe"
  /\ UNCHANGED <<head, tail, tailBytes, truncated>>

\* The first that does not: what is kept falls into a beginning and an end.
Split(n) ==
  /\ ~truncated /\ all + n > limit
  /\ head' = HeadSize
  /\ tail' = <<[from |-> all + n - (limit - HeadSize), to |-> all + n]>>
  /\ tailBytes' = limit - HeadSize
  /\ all' = 0 /\ truncated' = TRUE /\ pc' = "observe"

\* _append_tail, a chunk as long as the whole tail.
ReplaceTail(n) ==
  /\ truncated /\ n >= TailSize
  /\ tail' = <<[from |-> read + n - TailSize, to |-> read + n]>>
  /\ tailBytes' = TailSize /\ pc' = "observe"
  /\ UNCHANGED <<all, head, truncated>>

\* _append_tail, any other chunk; the overflow is trimmed next.
ExtendTail(n) ==
  /\ truncated /\ n < TailSize
  /\ tail' = Append(tail, [from |-> read, to |-> read + n])
  /\ tailBytes' = tailBytes + n /\ pc' = "trim"
  /\ UNCHANGED <<all, head, truncated>>

\* One read of at most MaxChunk bytes, decoded.
ReadChunk(n) ==
  /\ pc = "read" /\ read + n <= StreamLength
  /\ KeepAll(n) \/ Split(n) \/ ReplaceTail(n) \/ ExtendTail(n)
  /\ read' = read + n
  /\ UNCHANGED <<stream, observer>>

Size(chunk) == chunk.to - chunk.from
Overflow == tailBytes - TailSize

TrimEnd ==
  /\ pc = "trim" /\ tailBytes <= TailSize /\ pc' = "observe"
  /\ UNCHANGED <<stream, read, buffer, observer>>

\* (mutant) The first chunk goes as a whole.
WholeChunks(chunk) == TRUE

\* len(first) <= overflow
Spent(chunk) == Size(chunk) <= Overflow

TrimChunk ==
  /\ pc = "trim" /\ tailBytes > TailSize /\ tail # <<>>
  /\ IF Spent(tail[1])
     THEN tail' = Tail(tail) /\ tailBytes' = tailBytes - Size(tail[1])
     ELSE /\ tail' = [tail EXCEPT ![1].from = @ + Overflow]
          /\ tailBytes' = tailBytes - Overflow
  /\ UNCHANGED <<stream, read, pc, all, head, truncated, observer>>

-----------------------------------------------------------------------------
(* JsonlCommandLoopObserver *)

\* (mutant) A line that is not a failed command ends the count.
NoteResets(d, line) ==
  IF d.found THEN d
  ELSE IF line \in {Success, Note} THEN Fresh
  ELSE LET count == IF line = d.last THEN d.count + 1 ELSE 1
       IN  [last |-> line, count |-> count, found |-> count >= Threshold]

\* (mutant) The count must exceed the threshold.
DetectLate(d, line) ==
  IF d.found \/ line = Note THEN d
  ELSE IF line = Success THEN Fresh
  ELSE LET count == IF line = d.last THEN d.count + 1 ELSE 1
       IN  [last |-> line, count |-> count, found |-> count > Threshold]

\* CommandLoopDetector.observe, for the lines that are completed commands.
Detect(d, line) ==
  IF d.found \/ line = Note THEN d
  ELSE IF line = Success THEN Fresh
  ELSE LET count == IF line = d.last THEN d.count + 1 ELSE 1
       IN  [last |-> line, count |-> count, found |-> count >= Threshold]

\* The last line up to to is complete once its newline is read.
CompleteUpTo(to) == to * LineWidth <= read

\* The next of the lines that the newlines in _pending end.
ObserveLine ==
  /\ pc = "observe" /\ ~detector.found /\ CompleteUpTo(taken + 1)
  /\ detector' = Detect(detector, lines[taken + 1])
  /\ taken' = taken + 1
  /\ UNCHANGED <<stream, read, pc, buffer>>

\* No complete line is left, or a loop was found: then the observer is done for
\* good.
ObserveEnd ==
  /\ pc = "observe" /\ (detector.found \/ ~CompleteUpTo(taken + 1))
  /\ pc' = "read"
  /\ UNCHANGED <<stream, read, buffer, observer>>

Ended == pc = "read" /\ read = StreamLength /\ UNCHANGED vars

Next ==
  \/ \E n \in 1..MaxChunk : ReadChunk(n)
  \/ TrimChunk \/ TrimEnd \/ ObserveLine \/ ObserveEnd \/ Ended

Spec == Init /\ [][Next]_vars

-----------------------------------------------------------------------------
\* The chunks of the tail follow one another without a gap or an overlap.
Joined ==
  /\ \A i \in DOMAIN tail : tail[i].from < tail[i].to
  /\ \A i \in DOMAIN tail : i + 1 \in DOMAIN tail => tail[i].to = tail[i + 1].from

\* README.md: "Output retention preserves the beginning and end of oversized
\* streams".  However the stream is cut into chunks, finish, which waits for the
\* lock, finds all of it, or its first limit // 2 bytes and then its last, limit
\* bytes in all.
KeepsBothEnds ==
  pc # "trim" =>
    /\ read <= limit => ~truncated /\ all = read
    /\ read > limit =>
         /\ truncated /\ head = HeadSize
         /\ tail # <<>> /\ Joined
         /\ tail[1].from = read - (limit - HeadSize)
         /\ tail[Len(tail)].to = read

\* From one line to another there is no other command than the failure, only
\* lines that are no completed command.
Repeats(failure, from, to) ==
  \A k \in from..to : lines[k] \in {failure, Note}

Occurrences(failure, from, to) == {k \in from..to : lines[k] = failure}

\* threshold times the same failure with the same progress token in a row.
Loop(failure, from, to) ==
  /\ Repeats(failure, from, to)
  /\ Cardinality(Occurrences(failure, from, to)) >= Threshold

\* README.md: "repeated command loops" are bounded.  The supervisor is told of
\* a loop exactly when the lines that are complete hold one, wherever the
\* chunks end and whatever stands between the commands.
LoopFoundExactly ==
  pc = "read" =>
    (detector.found <=>
       \E failure \in Failures, from, to \in 1..LineCount :
         CompleteUpTo(to) /\ Loop(failure, from, to))

=============================================================================
