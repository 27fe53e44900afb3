----------------------------- MODULE OutputProofs ------------------------------
(***************************************************************************)
(* The bounded buffer keeps both ends of every stream, for every limit and *)
(* however the stream is cut into chunks.  The invariant says of every     *)
(* state, also amid the trimming of a chunk, what the tail holds: the last *)
(* tailBytes bytes that were read, in chunks that join.                    *)
(*                                                                         *)
(* The detector of command loops tells of a loop exactly when one is       *)
(* there: its count is that of the longest run of equal failures that ends *)
(* with the last line it took.                                             *)
(***************************************************************************)
EXTENDS Output, SequenceTheorems, FiniteSetTheorems, TLAPS

BufferTypeOK ==
  /\ limit \in Nat /\ limit >= 2 /\ read \in Nat
  /\ pc \in {"read", "trim", "observe"}
  /\ all \in Nat /\ head \in Nat /\ tailBytes \in Nat /\ truncated \in BOOLEAN
  /\ tail \in Seq(Interval)

Whole ==
  ~truncated => all = read /\ read <= limit /\ pc # "trim"

Parts ==
  truncated =>
    /\ read > limit /\ head = HeadSize
    /\ tail # <<>> /\ Joined
    /\ tail[1].from = read - tailBytes
    /\ tail[Len(tail)].to = read

TailFits ==
  truncated =>
    /\ tailBytes >= limit - HeadSize
    /\ pc # "trim" => tailBytes = limit - HeadSize

Inv == BufferTypeOK /\ Whole /\ Parts /\ TailFits

\* The first half of the limit is shorter than the limit.
LEMMA HalfIsLess == limit \in Nat /\ limit >= 2 => HeadSize \in Nat /\ HeadSize < limit
BY DEF HeadSize

LEMMA InitInv == Init => Inv
<1> SUFFICES ASSUME Init PROVE Inv
  OBVIOUS
<1>1. limit \in Nat /\ limit >= 2
  BY OutputAssumption DEF Init
<1>2. BufferTypeOK
  <2>1. read \in Nat /\ all \in Nat /\ head \in Nat /\ tailBytes \in Nat /\ tail \in Seq(Interval)
    BY DEF Init
  <2>2. truncated \in BOOLEAN /\ pc \in {"read", "trim", "observe"}
    BY Zenon DEF Init
  <2>3. QED BY <1>1, <2>1, <2>2 DEF BufferTypeOK
<1>3. Whole /\ Parts /\ TailFits
  BY <1>1 DEF Init, Whole, Parts, TailFits
<1>4. QED BY <1>2, <1>3 DEF Inv

\* A tail of one chunk is joined.
LEMMA OneChunk ==
  ASSUME NEW from \in Nat, NEW to \in Nat, from < to,
         tail' = <<[from |-> from, to |-> to]>>
  PROVE  /\ tail' \in Seq(Interval) /\ tail' # <<>> /\ Joined'
         /\ tail'[1].from = from /\ tail'[Len(tail')].to = to
BY DEF Joined, Interval

\* A chunk that begins where the tail ends is joined to it.
LEMMA AppendChunk ==
  ASSUME BufferTypeOK, tail # <<>>, Joined, NEW n \in Nat \ {0},
         tail[Len(tail)].to = read,
         tail' = Append(tail, [from |-> read, to |-> read + n])
  PROVE  /\ tail' \in Seq(Interval) /\ tail' # <<>> /\ Joined'
         /\ tail'[1] = tail[1] /\ tail'[Len(tail')].to = read + n
<1> DEFINE chunk == [from |-> read, to |-> read + n]
<1>1. chunk \in Interval /\ chunk.from = read /\ chunk.to = read + n
  BY DEF BufferTypeOK, Interval
<1>2. tail \in Seq(Interval) /\ Len(tail) \in Nat \ {0} /\ read \in Nat
  BY DEF BufferTypeOK
<1>3. /\ tail' \in Seq(Interval) /\ Len(tail') = Len(tail) + 1
      /\ \A i \in 1..Len(tail) : tail'[i] = tail[i]
      /\ tail'[Len(tail) + 1] = chunk
  BY <1>1, <1>2
<1> HIDE DEF chunk
<1>4. Joined'
  <2>1. ASSUME NEW i \in 1..Len(tail) + 1
        PROVE  /\ tail'[i].from < tail'[i].to
               /\ i + 1 \in 1..Len(tail) + 1 => tail'[i].to = tail'[i + 1].from
    <3>1. CASE i = Len(tail) + 1
      BY <1>1, <1>2, <1>3, <3>1
    <3>2. CASE i = Len(tail)
      BY <1>1, <1>2, <1>3, <3>2 DEF Joined
    <3>3. CASE i \in 1..Len(tail) - 1
      BY <1>1, <1>2, <1>3, <3>3 DEF Joined
    <3>4. QED BY <1>2, <3>1, <3>2, <3>3
  <2>2. QED BY <1>2, <1>3, <2>1 DEF Joined
<1>5. QED BY <1>1, <1>2, <1>3, <1>4

LEMMA ReadKeepsInv ==
  ASSUME Inv, NEW n \in 1..MaxChunk, ReadChunk(n) PROVE Inv'
<1> USE DEF Inv
<1>1. /\ HeadSize \in Nat /\ HeadSize < limit /\ HeadSize' = HeadSize
      /\ n \in Nat \ {0} /\ limit' = limit /\ read' = read + n
  BY HalfIsLess, OutputAssumption DEF BufferTypeOK, ReadChunk, stream, HeadSize
<1>2. CASE KeepAll(n)
  BY <1>1, <1>2 DEF KeepAll, BufferTypeOK, Whole, Parts, TailFits
<1>3. CASE Split(n)
  <2>1. all = read /\ read + n > limit /\ all \in Nat /\ limit \in Nat
    BY <1>3 DEF Split, Whole, BufferTypeOK
  <2>2. /\ tail' \in Seq(Interval) /\ tail' # <<>> /\ Joined'
        /\ tail'[1].from = all + n - (limit - HeadSize) /\ tail'[Len(tail')].to = all + n
    <3>1. /\ all + n - (limit - HeadSize) \in Nat /\ all + n \in Nat
          /\ all + n - (limit - HeadSize) < all + n
      BY <1>1, <2>1
    <3>2. tail' = <<[from |-> all + n - (limit - HeadSize), to |-> all + n]>>
      BY <1>3 DEF Split
    <3>3. QED BY <3>1, <3>2, OneChunk
  <2>3. QED BY <1>1, <1>3, <2>1, <2>2 DEF Split, BufferTypeOK, Whole, Parts, TailFits
<1>4. CASE ReplaceTail(n)
  <2>1. /\ truncated /\ head = HeadSize /\ read \in Nat /\ read > limit /\ n >= TailSize
        /\ TailSize = limit - HeadSize /\ TailSize \in Nat \ {0} /\ limit \in Nat
    <3>1. truncated /\ n >= TailSize
      BY <1>4 DEF ReplaceTail
    <3>2. head = HeadSize /\ read > limit
      BY <3>1 DEF Parts
    <3>3. read \in Nat /\ limit \in Nat
      BY DEF BufferTypeOK
    <3>4. TailSize = limit - HeadSize
      BY <3>2 DEF TailSize
    <3>5. QED BY <1>1, <3>1, <3>2, <3>3, <3>4
  <2>2. /\ tail' \in Seq(Interval) /\ tail' # <<>> /\ Joined'
        /\ tail'[1].from = read + n - TailSize /\ tail'[Len(tail')].to = read + n
    <3>1. /\ read + n - TailSize \in Nat /\ read + n \in Nat
          /\ read + n - TailSize < read + n
      BY <1>1, <2>1
    <3>2. tail' = <<[from |-> read + n - TailSize, to |-> read + n]>>
      BY <1>4 DEF ReplaceTail
    <3>3. QED BY <3>1, <3>2, OneChunk
  <2>3. QED BY <1>1, <1>4, <2>1, <2>2 DEF ReplaceTail, BufferTypeOK, Whole, Parts, TailFits
<1>5. CASE ExtendTail(n)
  <2>1. /\ truncated /\ tail # <<>> /\ Joined /\ tail[Len(tail)].to = read
        /\ tail' = Append(tail, [from |-> read, to |-> read + n])
    BY <1>5 DEF ExtendTail, Parts
  <2>2. /\ tail' \in Seq(Interval) /\ tail' # <<>> /\ Joined'
        /\ tail'[1] = tail[1] /\ tail'[Len(tail')].to = read + n
    BY <1>1, <2>1, AppendChunk
  <2>3. /\ tailBytes' = tailBytes + n /\ pc' = "trim" /\ truncated' = truncated
        /\ head' = head /\ all' = all
    BY <1>5 DEF ExtendTail
  <2>4. /\ read \in Nat /\ limit \in Nat /\ tailBytes \in Nat /\ read > limit
        /\ tailBytes >= limit - HeadSize /\ tail[1].from = read - tailBytes
    BY <2>1 DEF BufferTypeOK, Parts, TailFits
  <2>5. tailBytes' >= limit - HeadSize /\ tail'[1].from = read' - tailBytes'
    BY <1>1, <2>2, <2>3, <2>4
  <2>6. BufferTypeOK'
    BY <1>1, <2>2, <2>3, <2>4 DEF BufferTypeOK
  <2>7. QED BY <1>1, <2>1, <2>2, <2>3, <2>4, <2>5, <2>6 DEF Whole, Parts, TailFits
<1>6. QED BY <1>2, <1>3, <1>4, <1>5 DEF ReadChunk

\* Trimming takes from the front what is too much, never more.
LEMMA TrimKeepsInv == Inv /\ TrimChunk => Inv'
<1> SUFFICES ASSUME Inv, TrimChunk PROVE Inv'
  OBVIOUS
<1> USE DEF Inv
<1>1. /\ truncated /\ head = HeadSize /\ HeadSize \in Nat /\ HeadSize < limit
      /\ TailSize = limit - HeadSize /\ TailSize \in Nat
      /\ tailBytes > TailSize /\ tailBytes \in Nat /\ limit \in Nat /\ read \in Nat
      /\ Overflow = tailBytes - TailSize
  BY HalfIsLess DEF TrimChunk, Whole, Parts, BufferTypeOK, TailSize, Overflow
<1>2. /\ tail \in Seq(Interval) /\ Len(tail) \in Nat \ {0} /\ Joined
      /\ tail[1] \in Interval /\ tail[1].from = read - tailBytes
      /\ tail[Len(tail)].to = read
  BY <1>1 DEF Parts, BufferTypeOK
<1>3. tail[1].from \in Nat /\ tail[1].to \in Nat /\ Size(tail[1]) \in Nat \ {0}
      /\ Size(tail[1]) = tail[1].to - tail[1].from
  BY <1>2 DEF Interval, Size, Joined
<1>4. CASE Spent(tail[1])
  <2>1. tail' = Tail(tail) /\ tailBytes' = tailBytes - Size(tail[1])
    BY <1>4 DEF TrimChunk
  <2>2. Len(tail) > 1
    BY <1>1, <1>2, <1>3, <1>4 DEF Spent
  <2>3. /\ tail' \in Seq(Interval) /\ Len(tail') = Len(tail) - 1 /\ tail' # <<>>
        /\ \A i \in 1..Len(tail) - 1 : tail'[i] = tail[i + 1]
    <3>1. tail # <<>>
      BY <2>2
    <3>2. /\ Tail(tail) \in Seq(Interval) /\ Len(Tail(tail)) = Len(tail) - 1
          /\ \A i \in 1..Len(Tail(tail)) : Tail(tail)[i] = tail[i + 1]
      BY <1>2, <3>1, HeadTailProperties
    <3>3. tail' = Tail(tail)
      BY <2>1
    <3>4. Len(tail) - 1 # 0
      BY <1>2, <2>2
    <3>5. Len(<<>>) = 0
      OBVIOUS
    <3>6. tail' # <<>>
      BY <3>2, <3>3, <3>4, <3>5
    <3>7. QED BY <3>2, <3>3, <3>6, Zenon
  <2>4. Joined'
    <3>1. ASSUME NEW i \in 1..Len(tail) - 1
          PROVE  /\ tail'[i].from < tail'[i].to
                 /\ i + 1 \in 1..Len(tail) - 1 => tail'[i].to = tail'[i + 1].from
      <4>1. i + 1 \in 1..Len(tail) /\ tail'[i] = tail[i + 1]
        BY <1>2, <2>3
      <4>2. i + 1 \in 1..Len(tail) - 1 =>
              i + 2 \in 1..Len(tail) /\ tail'[i + 1] = tail[(i + 1) + 1]
        BY <1>2, <2>3
      <4>3. QED BY <1>2, <4>1, <4>2 DEF Joined
    <3>2. DOMAIN tail' = 1..Len(tail) - 1
      BY <2>3
    <3>3. QED BY <3>1, <3>2 DEF Joined
  <2>5. tail'[1].from = tail[1].to
    <3>1. 1 \in DOMAIN tail /\ 1 + 1 \in DOMAIN tail /\ tail'[1] = tail[1 + 1]
      BY <1>2, <2>2, <2>3
    <3>2. QED BY <1>2, <3>1 DEF Joined
  <2>6. tail'[Len(tail')].to = read
    BY <1>2, <2>2, <2>3
  <2>7. tailBytes' \in Nat /\ tailBytes' >= TailSize /\ tail'[1].from = read - tailBytes'
    <3>1. Size(tail[1]) <= tailBytes - TailSize
      BY <1>1, <1>4 DEF Spent
    <3>2. tail[1].to = (read - tailBytes) + Size(tail[1])
      BY <1>1, <1>2, <1>3
    <3> DEFINE size == Size(tail[1])
    <3>3. size \in Nat /\ TailSize \in Nat /\ tailBytes \in Nat /\ read \in Nat
      BY <1>1, <1>3
    <3>4. /\ size <= tailBytes - TailSize /\ tailBytes' = tailBytes - size
          /\ tail'[1].from = (read - tailBytes) + size
      BY <2>1, <2>5, <3>1, <3>2
    <3> HIDE DEF size
    <3>5. QED BY <3>3, <3>4
  <2>8. QED BY <1>1, <2>3, <2>4, <2>6, <2>7
       DEF TrimChunk, BufferTypeOK, Whole, Parts, TailFits, stream, HeadSize
<1>5. CASE ~Spent(tail[1])
  <2>1. /\ tail' = [tail EXCEPT ![1].from = tail[1].from + Overflow]
        /\ tailBytes' = tailBytes - Overflow
    BY <1>2, <1>5 DEF TrimChunk
  <2> DEFINE first == [from |-> tail[1].from + Overflow, to |-> tail[1].to]
  <2>2. first \in Interval /\ first.from < first.to /\ first.to = tail[1].to
        /\ first.from = tail[1].from + Overflow
    BY <1>1, <1>2, <1>3, <1>5 DEF Spent, Interval
  <2>3. /\ tail' \in Seq(Interval) /\ Len(tail') = Len(tail) /\ tail'[1] = first
        /\ \A i \in 2..Len(tail) : tail'[i] = tail[i]
    <3>1. [tail[1] EXCEPT !.from = tail[1].from + Overflow] = first
      BY <1>2 DEF Interval
    <3>2. tail' = [tail EXCEPT ![1] = first]
      BY <2>1, <3>1
    <3> HIDE DEF first
    <3>3. QED BY <1>2, <2>2, <3>2
  <2> HIDE DEF first
  <2>4. Joined' /\ tail' # <<>>
    <3>1. ASSUME NEW i \in 1..Len(tail)
          PROVE  /\ tail'[i].from < tail'[i].to
                 /\ i + 1 \in 1..Len(tail) => tail'[i].to = tail'[i + 1].from
      <4>1. CASE i = 1
        BY <1>2, <2>2, <2>3, <4>1 DEF Joined
      <4>2. CASE i # 1
        BY <1>2, <2>2, <2>3, <4>2 DEF Joined
      <4>3. QED BY <4>1, <4>2
    <3>2. DOMAIN tail' = 1..Len(tail)
      BY <1>2, <2>3
    <3>3. QED BY <1>2, <2>3, <3>1, <3>2 DEF Joined
  <2>5. tail'[Len(tail')].to = read
    BY <1>2, <2>2, <2>3
  <2>6. tailBytes' \in Nat /\ tailBytes' >= TailSize /\ tail'[1].from = read - tailBytes'
    <3>1. tailBytes' = TailSize /\ tail'[1].from = tail[1].from + Overflow
      BY <1>1, <2>1, <2>2, <2>3
    <3>2. QED BY <1>1, <1>2, <3>1
  <2>7. QED BY <1>1, <2>3, <2>4, <2>5, <2>6
       DEF TrimChunk, BufferTypeOK, Whole, Parts, TailFits, stream, HeadSize
<1>6. QED BY <1>4, <1>5

LEMMA NextInv == Inv /\ [Next]_vars => Inv'
<1> SUFFICES ASSUME Inv, [Next]_vars PROVE Inv'
  OBVIOUS
<1>1. ASSUME NEW n \in 1..MaxChunk, ReadChunk(n) PROVE Inv'
  BY <1>1, ReadKeepsInv
<1>2. CASE TrimChunk
  BY <1>2, TrimKeepsInv
<1> USE DEF Inv, BufferTypeOK, Whole, Parts, TailFits, Joined, HeadSize, stream, buffer
<1>3. CASE TrimEnd
  <2>1. tailBytes <= limit - HeadSize \/ ~truncated
    BY <1>3 DEF TrimEnd, TailSize
  <2>2. /\ UNCHANGED <<limit, read, all, head, tail, tailBytes, truncated>>
        /\ pc = "trim" /\ pc' = "observe"
    BY <1>3 DEF TrimEnd
  <2>3. BufferTypeOK' /\ Whole' /\ Parts'
    BY <2>2
  <2>4. TailFits'
    BY <2>1, <2>2
  <2>5. QED BY <2>3, <2>4
<1>4. CASE ObserveLine \/ ObserveEnd
  BY <1>4 DEF ObserveLine, ObserveEnd
<1>5. CASE UNCHANGED vars
  BY <1>5 DEF vars
<1>6. QED BY <1>1, <1>2, <1>3, <1>4, <1>5 DEF Next, Ended

LEMMA SpecInv == Spec => []Inv
BY InitInv, NextInv, PTL DEF Spec

\* For every limit of two bytes or more and every way to cut the stream into
\* chunks, what finish finds is the stream, or both its ends.
THEOREM KeepsBothEndsHolds == Spec => []KeepsBothEnds
<1>1. Inv => KeepsBothEnds
  BY DEF Inv, BufferTypeOK, Whole, Parts, TailFits, KeepsBothEnds
<1>2. QED BY SpecInv, <1>1, PTL

-----------------------------------------------------------------------------
(***************************************************************************)
(* The detector of command loops                                           *)
(***************************************************************************)
\* How often the detector has counted a failure.
Counted(failure) == IF detector.last = failure THEN detector.count ELSE 0

Times(failure, from, to) == Cardinality(Occurrences(failure, from, to))

DetectorTypeOK ==
  /\ lines \in [1..LineCount -> Line]
  /\ taken \in 0..LineCount /\ CompleteUpTo(taken)
  /\ read \in 0..StreamLength /\ pc \in {"read", "trim", "observe"}
  /\ detector \in [last : Line, count : 0..Threshold, found : BOOLEAN]

\* The count of the detector is that of the run of equal failures which ends
\* with the last line taken, and of no shorter one.
CountsTheRun ==
  /\ detector.last \in Failures =>
       \E from \in 1..taken : /\ Repeats(detector.last, from, taken)
                             /\ Times(detector.last, from, taken) = detector.count
  /\ \A failure \in Failures, from \in 1..taken :
       Repeats(failure, from, taken) => Times(failure, from, taken) <= Counted(failure)

\* What has been found is a loop, and none was passed over.
FoundSoFar ==
  /\ detector.found <=> detector.last \in Failures /\ detector.count >= Threshold
  /\ ~detector.found =>
       \A failure \in Failures, from \in 1..LineCount, to \in 1..taken :
         ~Loop(failure, from, to)

\* The reader goes on only when no complete line is left.
NothingLeft == pc = "read" /\ ~detector.found => ~CompleteUpTo(taken + 1)

LoopInv == DetectorTypeOK /\ CountsTheRun /\ FoundSoFar /\ NothingLeft

\* A line that is complete is a line of the stream.
LEMMA LineIsThere ==
  ASSUME NEW n \in Nat, read <= StreamLength, read \in Nat, CompleteUpTo(n)
  PROVE  n <= LineCount
<1>1. n * LineWidth <= LineWidth * LineCount
  BY OutputAssumption DEF CompleteUpTo, StreamLength
<1>2. SUFFICES ASSUME n >= LineCount + 1 PROVE FALSE
  BY OutputAssumption
<1>3. n * LineWidth >= (LineCount + 1) * LineWidth
  BY <1>2, OutputAssumption
<1>4. (LineCount + 1) * LineWidth = LineWidth * LineCount + LineWidth
  BY OutputAssumption
<1> QED
  BY <1>1, <1>3, <1>4, OutputAssumption

\* One line more, counted over the lines from any one to the last.
LEMMA OneLineMore ==
  ASSUME NEW failure, NEW n \in Nat, NEW from \in 1..n + 1
  PROVE  /\ Repeats(failure, from, n + 1) <=>
              Repeats(failure, from, n) /\ lines[n + 1] \in {failure, Note}
         /\ Times(failure, from, n) \in Nat
         /\ Times(failure, from, n + 1) =
              IF lines[n + 1] = failure THEN Times(failure, from, n) + 1
              ELSE Times(failure, from, n)
         /\ from = n + 1 => Times(failure, from, n) = 0
<1>1. from..n + 1 = (from..n) \cup {n + 1} /\ n + 1 \notin from..n
  OBVIOUS
<1>2. Repeats(failure, from, n + 1) <=>
        Repeats(failure, from, n) /\ lines[n + 1] \in {failure, Note}
  BY <1>1 DEF Repeats
<1>3. IsFiniteSet(Occurrences(failure, from, n))
  <2>1. IsFiniteSet(from..n)
    BY FS_Interval
  <2> QED
    BY <2>1, FS_Subset DEF Occurrences
<1>4. n + 1 \notin Occurrences(failure, from, n)
  BY <1>1 DEF Occurrences
<1>5. from = n + 1 => Times(failure, from, n) = 0
  BY FS_EmptySet DEF Occurrences, Times
<1>6. CASE lines[n + 1] = failure
  <2>1. Occurrences(failure, from, n + 1) = Occurrences(failure, from, n) \cup {n + 1}
    BY <1>1, <1>6 DEF Occurrences
  <2>2. Times(failure, from, n + 1) = Times(failure, from, n) + 1
    BY <1>3, <1>4, <2>1, FS_AddElement DEF Times
  <2> QED
    BY <1>2, <1>3, <1>5, <1>6, <2>2, FS_CardinalityType DEF Times
<1>7. CASE lines[n + 1] # failure
  BY <1>1, <1>2, <1>3, <1>5, <1>7, FS_CardinalityType DEF Occurrences, Times
<1> QED
  BY <1>6, <1>7


\* What is said of the lines that were taken is said of the same lines later.
LEMMA LinesStay ==
  ASSUME lines' = lines, NEW failure, NEW from, NEW to
  PROVE  /\ Repeats(failure, from, to)' <=> Repeats(failure, from, to)
         /\ Times(failure, from, to)' = Times(failure, from, to)
BY DEF Repeats, Times, Occurrences

\* A line that is taken makes the run longer, ends it or leaves it alone.
LEMMA CountStep ==
  ASSUME LoopInv, ObserveLine
  PROVE  CountsTheRun'
<1> DEFINE next == lines[taken + 1]
<1>1. /\ taken \in Nat /\ taken' = taken + 1 /\ lines' = lines
      /\ ~detector.found /\ detector' = Detect(detector, next)
      /\ detector.count \in Nat /\ detector.last \in Line
  BY OutputAssumption DEF ObserveLine, LoopInv, DetectorTypeOK, stream
<1>2. Note \notin Failures /\ Success \notin Failures /\ Note # Success
  BY OutputAssumption DEF Note, Success
<1>3. \A failure \in Failures, from \in 1..taken :
        Repeats(failure, from, taken) => Times(failure, from, taken) <= Counted(failure)
  BY DEF LoopInv, CountsTheRun
<1>4. \A failure \in Failures, from \in 1..taken + 1 :
         /\ Repeats(failure, from, taken + 1) <=>
              Repeats(failure, from, taken) /\ next \in {failure, Note}
         /\ Times(failure, from, taken) \in Nat
         /\ Times(failure, from, taken + 1) =
              IF next = failure THEN Times(failure, from, taken) + 1
              ELSE Times(failure, from, taken)
         /\ from = taken + 1 => Times(failure, from, taken) = 0
  BY <1>1, OneLineMore
<1> DEFINE Longest(d) ==
             /\ d.last \in Failures =>
                  \E from \in 1..taken + 1 :
                    /\ Repeats(d.last, from, taken + 1)
                    /\ Times(d.last, from, taken + 1) = d.count
             /\ \A failure \in Failures, from \in 1..taken + 1 :
                  Repeats(failure, from, taken + 1) =>
                    Times(failure, from, taken + 1) <= IF d.last = failure THEN d.count ELSE 0
<1>5. Longest(detector') => CountsTheRun'
  BY <1>1 DEF CountsTheRun, Counted, Repeats, Times, Occurrences
<1> HIDE DEF next, Longest
<1>7. CASE next = Note
  <2>1. detector' = detector
    BY <1>1, <1>7 DEF Detect
  <2>2. \A failure \in Failures, from \in 1..taken + 1 :
          /\ Repeats(failure, from, taken + 1) => Repeats(failure, from, taken)
          /\ Times(failure, from, taken + 1) = Times(failure, from, taken)
    BY <1>2, <1>4, <1>7
  <2>3. detector.last \in Failures =>
          \E from \in 1..taken + 1 :
            /\ Repeats(detector.last, from, taken + 1)
            /\ Times(detector.last, from, taken + 1) = detector.count
    BY <1>1, <1>2, <1>4, <1>7 DEF LoopInv, CountsTheRun
  <2>4. ASSUME NEW failure \in Failures, NEW from \in 1..taken + 1,
               Repeats(failure, from, taken + 1)
        PROVE  Times(failure, from, taken + 1) <= Counted(failure)
    <3>1. CASE from \in 1..taken
      BY <1>3, <2>2, <2>4, <3>1
    <3>2. CASE from = taken + 1
      BY <1>1, <1>4, <2>2, <3>2 DEF Counted
    <3> QED
      BY <1>1, <3>1, <3>2
  <2> QED
    BY <1>5, <2>1, <2>3, <2>4 DEF Counted, Longest
<1>8. CASE next = Success
  <2>1. detector' = Fresh
    BY <1>1, <1>2, <1>8 DEF Detect
  <2>2. \A failure \in Failures, from \in 1..taken + 1 : ~Repeats(failure, from, taken + 1)
    BY <1>2, <1>4, <1>8
  <2> QED
    BY <1>2, <1>5, <2>1, <2>2 DEF Fresh, Longest
<1>9. CASE next \in Failures
  <2>1. /\ detector'.last = next
        /\ detector'.count = IF next = detector.last THEN detector.count + 1 ELSE 1
    BY <1>1, <1>2, <1>9 DEF Detect
  <2>2. \A failure \in Failures, from \in 1..taken + 1 :
          Repeats(failure, from, taken + 1) =>
            /\ failure = next /\ Repeats(next, from, taken)
            /\ Times(next, from, taken + 1) = Times(next, from, taken) + 1
    BY <1>2, <1>4, <1>9
  <2>3. \E from \in 1..taken + 1 :
          /\ Repeats(next, from, taken + 1)
          /\ Times(next, from, taken + 1) = detector'.count
    <3>1. CASE next = detector.last
      <4>1. PICK from \in 1..taken : /\ Repeats(next, from, taken)
                                    /\ Times(next, from, taken) = detector.count
        BY <1>9, <3>1 DEF LoopInv, CountsTheRun
      <4>2. from \in 1..taken + 1
        BY <1>1
      <4> QED
        BY <1>1, <1>2, <1>4, <1>9, <2>1, <3>1, <4>1, <4>2
    <3>2. CASE next # detector.last
      <4>1. taken + 1 \in 1..taken + 1 /\ Repeats(next, taken + 1, taken)
        BY <1>1 DEF Repeats
      <4> QED
        BY <1>1, <1>2, <1>4, <1>9, <2>1, <3>2, <4>1
    <3> QED
      BY <3>1, <3>2
  <2>4. ASSUME NEW from \in 1..taken + 1, Repeats(next, from, taken)
        PROVE  Times(next, from, taken) + 1 <= detector'.count
    <3>1. Times(next, from, taken) <= Counted(next)
      <4>1. CASE from \in 1..taken
        BY <1>3, <1>9, <2>4, <4>1
      <4>2. CASE from = taken + 1
        BY <1>1, <1>4, <1>9, <4>2 DEF Counted
      <4> QED
        BY <1>1, <4>1, <4>2
    <3> QED
      BY <1>1, <1>4, <1>9, <2>1, <3>1 DEF Counted
  <2>5. ASSUME NEW failure \in Failures, NEW from \in 1..taken + 1,
               Repeats(failure, from, taken + 1)
        PROVE  /\ failure = next
               /\ Times(failure, from, taken + 1) <= detector'.count
    BY <2>2, <2>4, <2>5
  <2> QED
    BY <1>5, <2>1, <2>3, <2>5 DEF Longest
<1>10. next \in Line
  <2>1. taken + 1 \in 1..LineCount
    BY <1>1, LineIsThere, OutputAssumption DEF ObserveLine, LoopInv, DetectorTypeOK, StreamLength
  <2> QED
    BY <2>1 DEF next, LoopInv, DetectorTypeOK
<1> QED
  BY <1>7, <1>8, <1>9, <1>10 DEF Line

\* Where no line is, no loop is.
LEMMA NoLines ==
  ASSUME NEW failure, NEW from \in Nat, NEW to \in Nat, to < from
  PROVE  Times(failure, from, to) = 0
<1>1. Occurrences(failure, from, to) = {}
  BY DEF Occurrences
<1> QED
  BY <1>1, FS_EmptySet DEF Times

\* One line taken: the types, what was found and what may still be found.
LEMMA DetectorStep ==
  ASSUME LoopInv, ObserveLine
  PROVE  DetectorTypeOK' /\ FoundSoFar'
<1> DEFINE next == lines[taken + 1]
<1>1. /\ taken \in Nat /\ taken' = taken + 1 /\ UNCHANGED <<lines, read, pc>>
      /\ ~detector.found /\ detector' = Detect(detector, next)
      /\ detector \in [last : Line, count : 0..Threshold, found : BOOLEAN]
      /\ Threshold \in Nat \ {0, 1} /\ LineCount \in Nat
  BY OutputAssumption DEF ObserveLine, LoopInv, DetectorTypeOK, stream
<1>2. Note \notin Failures /\ Success \notin Failures /\ Note # Success
  BY OutputAssumption DEF Note, Success
<1>3. CompleteUpTo(taken + 1)
  BY DEF ObserveLine
<1>4. taken + 1 \in 1..LineCount
  BY <1>1, <1>3, LineIsThere DEF LoopInv, DetectorTypeOK, StreamLength
<1>5. next \in Line
  BY <1>4 DEF LoopInv, DetectorTypeOK
<1> HIDE DEF next
<1>6. detector.last \in Failures => detector.count < Threshold
  BY <1>1 DEF LoopInv, FoundSoFar
<1>7. /\ detector' \in [last : Line, count : 0..Threshold, found : BOOLEAN]
      /\ detector'.found <=> detector'.last \in Failures /\ detector'.count >= Threshold
  <2>1. CASE next = Note
    BY <1>1, <1>2, <1>6, <2>1 DEF Detect
  <2>2. CASE next = Success
    BY <1>1, <1>2, <2>2 DEF Detect, Fresh, Line
  <2>3. CASE next \in Failures
    <3> DEFINE count == IF next = detector.last THEN detector.count + 1 ELSE 1
    <3>1. count \in 0..Threshold
      BY <1>1, <1>6, <2>3
    <3>2. detector' = [last |-> next, count |-> count, found |-> count >= Threshold]
      BY <1>1, <1>2, <2>3 DEF Detect
    <3> HIDE DEF count
    <3>3. /\ detector'.last = next /\ detector'.count = count
          /\ detector'.found <=> count >= Threshold
      BY <3>2
    <3>4. (count >= Threshold) \in BOOLEAN
      BY <3>1
    <3>5. detector' \in [last : Line, count : 0..Threshold, found : BOOLEAN]
      BY <1>5, <3>1, <3>2, <3>4, Zenon
    <3> QED
      BY <2>3, <3>3, <3>5
  <2> QED
    BY <1>5, <2>1, <2>2, <2>3 DEF Line
<1>8. DetectorTypeOK'
  BY <1>1, <1>3, <1>4, <1>7 DEF LoopInv, DetectorTypeOK, CompleteUpTo, StreamLength
<1>9. ASSUME ~detector'.found, NEW failure \in Failures,
             NEW from \in 1..LineCount, NEW to \in 1..taken + 1
      PROVE  ~Loop(failure, from, to)
  <2>1. CASE to \in 1..taken
    BY <1>1, <2>1 DEF LoopInv, FoundSoFar
  <2>2. CASE to = taken + 1 /\ from \in 1..taken + 1
    <3>1. Repeats(failure, from, taken + 1) => Times(failure, from, taken + 1) < Threshold
      <4>1. CountsTheRun'
        BY CountStep
      <4>2. Repeats(failure, from, taken + 1) =>
              Times(failure, from, taken + 1) <=
                IF detector'.last = failure THEN detector'.count ELSE 0
        BY <1>1, <2>2, <4>1 DEF CountsTheRun, Counted, Repeats, Times, Occurrences
      <4>3. Times(failure, from, taken + 1) \in Nat
        BY <1>1, <2>2, OneLineMore
      <4> QED
        BY <1>1, <1>7, <1>9, <4>2, <4>3
    <3>2. Times(failure, from, taken + 1) \in Nat
      BY <1>1, <2>2, OneLineMore
    <3> QED
      BY <1>1, <2>2, <3>1, <3>2 DEF Loop, Times
  <2>3. CASE to = taken + 1 /\ from > taken + 1
    <3>1. Times(failure, from, to) = 0
      BY <1>1, <2>3, NoLines
    <3> QED
      BY <1>1, <3>1 DEF Loop, Times
  <2> QED
    BY <1>1, <2>1, <2>2, <2>3
<1>10. \A failure, from, to : Loop(failure, from, to)' <=> Loop(failure, from, to)
  BY <1>1 DEF Loop, Repeats, Occurrences
<1> QED
  BY <1>1, <1>7, <1>8, <1>9, <1>10 DEF FoundSoFar

LEMMA LoopInvInit == Init => LoopInv
<1> SUFFICES ASSUME Init PROVE LoopInv
  OBVIOUS
<1>1. DetectorTypeOK
  BY OutputAssumption DEF Init, DetectorTypeOK, CompleteUpTo, StreamLength, Fresh, Line, Note
<1>2. CountsTheRun /\ FoundSoFar
  BY OutputAssumption DEF Init, CountsTheRun, FoundSoFar, Fresh, Note
<1>3. NothingLeft
  BY OutputAssumption DEF Init, NothingLeft, CompleteUpTo
<1> QED
  BY <1>1, <1>2, <1>3 DEF LoopInv

\* What the reader does between two lines leaves the detector alone.
LEMMA DetectorRests ==
  ASSUME LoopInv, UNCHANGED <<lines, taken, detector>>,
         read' \in 0..StreamLength, read' >= read, pc' \in {"read", "trim", "observe"},
         NothingLeft'
  PROVE  LoopInv'
<1>1. DetectorTypeOK'
  <2>1. taken * LineWidth \in Nat /\ read \in Nat
    BY OutputAssumption DEF LoopInv, DetectorTypeOK, StreamLength
  <2> QED
    BY <2>1 DEF LoopInv, DetectorTypeOK, CompleteUpTo, StreamLength
<1>2. CountsTheRun'
  BY DEF LoopInv, CountsTheRun, Counted, Repeats, Times, Occurrences
<1>3. FoundSoFar'
  BY DEF LoopInv, FoundSoFar, Loop, Repeats, Occurrences
<1> QED
  BY <1>1, <1>2, <1>3 DEF LoopInv

LEMMA LoopInvNext == LoopInv /\ [Next]_vars => LoopInv'
<1> SUFFICES ASSUME LoopInv, [Next]_vars PROVE LoopInv'
  OBVIOUS
<1>1. read \in 0..StreamLength /\ pc \in {"read", "trim", "observe"}
  BY DEF LoopInv, DetectorTypeOK
<1>2. StreamLength \in Nat /\ MaxChunk \in Nat
  BY OutputAssumption DEF StreamLength
<1>3. ASSUME NEW n \in 1..MaxChunk, ReadChunk(n) PROVE LoopInv'
  <2>1. /\ read' = read + n /\ read + n <= StreamLength /\ pc' \in {"trim", "observe"}
        /\ UNCHANGED <<lines, taken, detector>>
    BY <1>3 DEF ReadChunk, KeepAll, Split, ReplaceTail, ExtendTail, stream, observer
  <2>2. NothingLeft'
    BY <2>1 DEF NothingLeft
  <2> QED
    BY <1>1, <1>2, <2>1, <2>2, DetectorRests
<1>4. CASE TrimChunk \/ TrimEnd
  <2>1. /\ pc = "trim" /\ pc' \in {"trim", "observe"} /\ read' = read
        /\ UNCHANGED <<lines, taken, detector>>
    BY <1>4 DEF TrimChunk, TrimEnd, stream, observer
  <2>2. NothingLeft'
    BY <2>1 DEF NothingLeft
  <2> QED
    BY <1>1, <1>2, <2>1, <2>2, DetectorRests
<1>5. CASE ObserveLine
  <2>1. pc' = "observe"
    BY <1>5 DEF ObserveLine
  <2> QED
    BY <1>5, <2>1, CountStep, DetectorStep DEF LoopInv, NothingLeft
<1>6. CASE ObserveEnd
  <2>1. /\ pc' = "read" /\ read' = read /\ UNCHANGED <<lines, taken, detector>>
        /\ detector.found \/ ~CompleteUpTo(taken + 1)
    BY <1>6 DEF ObserveEnd, stream, observer
  <2>2. NothingLeft'
    BY <2>1 DEF NothingLeft, CompleteUpTo
  <2> QED
    BY <1>1, <1>2, <2>1, <2>2, DetectorRests
<1>7. CASE UNCHANGED vars
  <2>1. UNCHANGED <<lines, read, pc, taken, detector>>
    BY <1>7 DEF vars, stream, observer
  <2>2. NothingLeft'
    BY <2>1 DEF LoopInv, NothingLeft, CompleteUpTo
  <2> QED
    BY <1>1, <1>2, <2>1, <2>2, DetectorRests
<1> QED
  BY <1>3, <1>4, <1>5, <1>6, <1>7 DEF Next, Ended

LEMMA SpecLoopInv == Spec => []LoopInv
BY LoopInvInit, LoopInvNext, PTL DEF Spec

\* What lies before the first line that is not complete has been taken.
LEMMA CompleteIsTaken ==
  ASSUME LoopInv, NEW to \in Nat, CompleteUpTo(to), ~CompleteUpTo(taken + 1)
  PROVE  to <= taken
<1>1. taken \in Nat /\ read \in Nat /\ LineWidth \in Nat \ {0}
  BY OutputAssumption DEF LoopInv, DetectorTypeOK, StreamLength
<1> SUFFICES ASSUME to >= taken + 1 PROVE FALSE
  BY <1>1
<1>2. to * LineWidth >= (taken + 1) * LineWidth
  BY <1>1
<1>3. to * LineWidth \in Nat /\ (taken + 1) * LineWidth \in Nat
  BY <1>1
<1> QED
  BY <1>1, <1>2, <1>3 DEF CompleteUpTo

\* However the stream is cut into chunks and whatever stands between the commands,
\* the observer tells the supervisor of a loop exactly when the complete lines hold
\* one: the same failed command, as often as the threshold, with no other command
\* in between.
THEOREM LoopFoundExactlyHolds == Spec => []LoopFoundExactly
<1>1. ASSUME LoopInv, pc = "read", detector.found
      PROVE  \E failure \in Failures, from, to \in 1..LineCount :
               CompleteUpTo(to) /\ Loop(failure, from, to)
  <2>1. detector.last \in Failures /\ detector.count >= Threshold
    BY <1>1 DEF LoopInv, FoundSoFar
  <2>2. PICK from \in 1..taken : /\ Repeats(detector.last, from, taken)
                                /\ Times(detector.last, from, taken) = detector.count
    BY <1>1, <2>1 DEF LoopInv, CountsTheRun
  <2>3. taken \in 0..LineCount /\ LineCount \in Nat /\ CompleteUpTo(taken)
    BY <1>1, OutputAssumption DEF LoopInv, DetectorTypeOK
  <2>4. from \in 1..LineCount /\ taken \in 1..LineCount
    BY <2>3
  <2> QED
    BY <2>1, <2>2, <2>3, <2>4 DEF Loop, Times
<1>2. ASSUME LoopInv, pc = "read", ~detector.found,
             NEW failure \in Failures, NEW from \in 1..LineCount, NEW to \in 1..LineCount,
             CompleteUpTo(to), Loop(failure, from, to)
      PROVE  FALSE
  <2>1. to <= taken
    BY <1>2, CompleteIsTaken, OutputAssumption DEF LoopInv, NothingLeft
  <2>2. to \in 1..taken
    BY <2>1, OutputAssumption DEF LoopInv, DetectorTypeOK
  <2> QED
    BY <1>2, <2>2 DEF LoopInv, FoundSoFar
<1>3. LoopInv => LoopFoundExactly
  BY <1>1, <1>2 DEF LoopFoundExactly
<1> QED
  BY <1>3, SpecLoopInv, PTL

-----------------------------------------------------------------------------
(***************************************************************************)
(* Type correctness, with the bounds of the buffer                         *)
(***************************************************************************)
\* The buffer never holds more than its limit, and one chunk while it trims.
Bounded ==
  limit \in Limits /\ all <= limit /\ head <= limit /\ tailBytes <= limit + MaxChunk

LEMMA BoundedInit == Init => Bounded
BY OutputAssumption DEF Init, Bounded

LEMMA TrimTakesAway ==
  ASSUME Inv, TrimChunk PROVE tailBytes' <= tailBytes
<1>1. /\ tailBytes \in Nat /\ TailSize \in Int /\ tailBytes > TailSize
      /\ Overflow = tailBytes - TailSize
  BY DEF Inv, BufferTypeOK, TrimChunk, TailSize, Overflow
<1>2. tail # <<>> /\ tail[1] \in Interval /\ tail[1].from < tail[1].to
  BY DEF TrimChunk, Inv, BufferTypeOK, Whole, Parts, Joined
<1>3. Size(tail[1]) \in Nat
  BY <1>2 DEF Size, Interval
<1>4. tailBytes' = tailBytes - Size(tail[1]) \/ tailBytes' = tailBytes - Overflow
  BY DEF TrimChunk
<1> QED
  BY <1>1, <1>3, <1>4

LEMMA BoundedNext == Inv /\ Bounded /\ [Next]_vars => Bounded'
<1> SUFFICES ASSUME Inv, Bounded, [Next]_vars PROVE Bounded'
  OBVIOUS
<1>1. /\ limit \in Nat /\ HeadSize \in Nat /\ HeadSize < limit /\ MaxChunk \in Nat
      /\ tailBytes \in Nat
  BY HalfIsLess, OutputAssumption DEF Inv, BufferTypeOK
<1>2. ASSUME NEW n \in 1..MaxChunk, ReadChunk(n) PROVE Bounded'
  <2>1. limit' = limit /\ pc = "read"
    BY <1>2 DEF ReadChunk, stream
  <2>2. CASE KeepAll(n)
    BY <1>1, <2>1, <2>2 DEF KeepAll, Bounded
  <2>3. CASE Split(n)
    BY <1>1, <2>1, <2>3 DEF Split, Bounded
  <2>4. CASE ReplaceTail(n)
    <3>1. TailSize = limit - HeadSize
      BY <2>4 DEF ReplaceTail, Inv, Parts, TailSize
    <3> QED
      BY <1>1, <2>1, <2>4, <3>1 DEF ReplaceTail, Bounded
  <2>5. CASE ExtendTail(n)
    <3>1. tailBytes = limit - HeadSize
      BY <2>1, <2>5 DEF ExtendTail, Inv, TailFits
    <3> QED
      BY <1>1, <2>1, <2>5, <3>1 DEF ExtendTail, Bounded
  <2> QED
    BY <1>2, <2>2, <2>3, <2>4, <2>5 DEF ReadChunk
<1>3. CASE TrimChunk
  <2>1. limit' = limit /\ all' = all /\ head' = head
    BY <1>3 DEF TrimChunk, stream
  <2>2. tailBytes' <= tailBytes /\ tailBytes' \in Nat
    BY <1>3, TrimTakesAway, TrimKeepsInv DEF Inv, BufferTypeOK
  <2> QED
    BY <1>1, <2>1, <2>2 DEF Bounded
<1>4. CASE TrimEnd \/ ObserveLine \/ ObserveEnd \/ UNCHANGED vars
  <2>1. UNCHANGED <<limit, all, head, tailBytes>>
    BY <1>4 DEF TrimEnd, ObserveLine, ObserveEnd, vars, stream, buffer
  <2> QED
    BY <2>1 DEF Bounded
<1> QED
  BY <1>2, <1>3, <1>4 DEF Next, Ended

\* The variables keep their types: what is kept never exceeds the limit of the
\* caller, the tail exceeds it by at most the chunk that is being trimmed, and
\* the count of the detector stops at the threshold.
THEOREM OutputTypeOK == Spec => []TypeOK
<1>1. Spec => []Bounded
  BY SpecInv, BoundedInit, BoundedNext, PTL DEF Spec
<1>2. Inv /\ LoopInv /\ Bounded => TypeOK
  <2> SUFFICES ASSUME Inv, LoopInv, Bounded PROVE TypeOK
    OBVIOUS
  <2>1. /\ all \in 0..limit /\ head \in 0..limit /\ tailBytes \in 0..limit + MaxChunk
    BY OutputAssumption DEF Inv, BufferTypeOK, Bounded
  <2> QED
    BY <2>1 DEF Inv, BufferTypeOK, LoopInv, DetectorTypeOK, Bounded, TypeOK
<1> QED
  BY <1>1, <1>2, SpecInv, SpecLoopInv, PTL

=============================================================================
