---------------------- MODULE RecognizerResultsProofs -----------------------
(***************************************************************************)
(* Theorems about the anchor index and about where a recognizer's results   *)
(* are put on the clock of the audio source: for any window, any number of  *)
(* anchors, any sample rate, any chunks and gaps, and transcripts of any    *)
(* number of connections.                                                   *)
(***************************************************************************)
EXTENDS RecognizerResults, SequenceTheorems, WellFoundedInduction, TLAPS

Chunk == [start : Nat, end : Nat, capturedAt : Nat \ {0}, sentAt : Nat,
          sourceEnd : Nat \ {0}]

(* Chunks c lie one after the other from sample 0 to sample w, and on the   *)
(* clock of the source they do not overlap.                                 *)
Ordered(c) ==
  \A i, j \in 1..Len(c) :
    i < j => /\ c[i].end <= c[j].start
             /\ c[i].sourceEnd <= c[j].sourceEnd - Duration(c[j].end - c[j].start)

Holds(chunk, k) == chunk.start <= k /\ k < chunk.end

Laid(c, w) ==
  /\ c \in Seq(Chunk) /\ w \in Nat
  /\ \A i \in 1..Len(c) :
       /\ c[i].start < c[i].end /\ c[i].end <= w
       /\ Duration(c[i].end - c[i].start) <= c[i].sourceEnd
  /\ Ordered(c)
  /\ \A k \in 0..(w - 1) : \E i \in 1..Len(c) : Holds(c[i], k)
  /\ c # <<>> => c[Len(c)].end = w
  /\ c = <<>> => w = 0

(* The entries e of the index are the last of c, and every other one is too *)
(* old or too many chunks back.                                             *)
Dropped(c, e) == Len(c) - Len(e)

Suffix(c, e, w) ==
  /\ e \in Seq(Chunk) /\ Len(e) <= Len(c)
  /\ \A i \in 1..Len(e) : e[i] = c[i + Dropped(c, e)]
  /\ c # <<>> => e # <<>>
  /\ \A i \in 1..Dropped(c, e) : w - c[i].end > Window \/ Len(c) - i >= MaxAnchors

(* Position, for any chunks, and where a time at sample k may be put when w *)
(* samples have been written: a time past them lies at their end.           *)
PositionIn(c, k) ==
  LET e == c[CHOOSE i \in 1..Len(c) : Holds(c[i], k)]
  IN  e.sourceEnd - Duration(e.end - k)

Reach(c, w, k) == IF k < w THEN PositionIn(c, k) ELSE PositionIn(c, w - 1) + SampleTicks

IndexInv ==
  /\ Laid(chunks, index.written)
  /\ Suffix(chunks, index.entries, index.written)

ClockInv ==
  /\ clock \in Nat \ {0} /\ source \in Nat
  /\ chunks # <<>> => chunks[Len(chunks)].sourceEnd = source
-----------------------------------------------------------------------------
(* A message about the first n samples of the connection: its words follow  *)
(* one another, start in what the recognizer was sent and end after its     *)
(* first sample.                                                            *)
WordTimes == [start : Nat, end : Nat]
Spoken == {"words", "text"}

MessageType == [kind : {"words", "text", "music"}, words : Seq(WordTimes),
                start : Nat, end : Nat, covers : Nat \ {0}]

WordsInOrder(m) ==
  /\ \A i \in 1..Len(m.words) :
       /\ m.words[i].start < m.words[i].end /\ BytesFor(m.words[i].end) # 0
       /\ m.words[i].start < Duration(m.covers)
       /\ m.start <= m.words[i].start /\ m.words[i].end <= m.end
  /\ \A i, j \in 1..Len(m.words) : i < j => m.words[i].end <= m.words[j].start

Sensible(m, n) ==
  m # Nothing =>
    /\ m \in MessageType /\ m.covers <= n
    /\ m.kind # "music" => m.start < Duration(m.covers)
    /\ m.kind = "words" => WordsInOrder(m) /\ Len(m.words) > 0
    /\ m.kind # "words" => m.words = <<>>
    /\ m.kind = "text" => m.start < m.end /\ BytesFor(m.end) # 0
    /\ m.kind = "music" => m.start = m.end

FlowInv ==
  /\ writer \in {"pop", "send"} /\ reader \in {"read", "resolve"} /\ conn \in 1..MaxConns
  /\ delivered \in Nat /\ delivered <= index.written
  /\ reported \in Nat /\ reported <= Duration(delivered) + Rounding
  /\ Sensible(socket, delivered) /\ Sensible(message, delivered) /\ Sensible(published.of, delivered)
  /\ reader = "resolve" <=> message # Nothing
  /\ message # Nothing => socket = Nothing
  /\ socket.kind \in Spoken => reported = socket.end
  /\ message.kind \in Spoken => reported = message.end

(* A time of a message about n samples, put at position at.                 *)
Located(c, w, n, time, at) ==
  LET k == BytesFor(time)
  IN  /\ at \in Nat
      /\ k < n => at = PositionIn(c, k)
      /\ at <= Reach(c, w, k)
      /\ k # 0 => at >= PositionIn(c, Min({k, n}) - 1) + SampleTicks

Answer == [ok : BOOLEAN, at : Nat] \cup [ok : BOOLEAN, capturedAt : Int, sentAt : Nat]

AnswersInv ==
  /\ answers \in Seq(Answer)
  /\ message # Nothing =>
       /\ Len(answers) <= Len(Lookups(message))
       /\ \A i \in 1..Len(answers) :
            (i > 1 \/ message.kind = "music") =>
              /\ answers[i] \in [ok : BOOLEAN, at : Nat]
              /\ answers[i].ok =>
                   Located(chunks, index.written, message.covers, Lookups(message)[i], answers[i].at)

(* What was published before ends no later than the words still to come     *)
(* can start.                                                               *)
ToCome ==
  IF message.kind \in Spoken THEN message.start
  ELSE IF socket.kind \in Spoken THEN socket.start ELSE reported

HeardInv ==
  /\ heard \in Nat /\ heard <= source
  /\ index.written > 0 => heard <= Reach(chunks, index.written, BytesFor(ToCome))

Put(c, w, n, times, placed) ==
  placed.end # 0 => /\ Located(c, w, n, times.start, placed.start)
                    /\ Located(c, w, n, times.end, placed.end)

PublishedInv ==
  /\ published.start \in Nat /\ published.duration \in Nat /\ published.after \in Nat
  /\ published.words \in Seq(WordTimes)
  /\ published.of = Nothing => published.words = <<>>
  /\ published.of # Nothing =>
       /\ published.words # <<>> => Len(published.words) = Len(published.of.words)
       /\ \A i \in 1..Len(published.words) :
            Put(chunks, index.written, published.of.covers, published.of.words[i], published.words[i])
       /\ published.of.kind = "text" =>
            Put(chunks, index.written, published.of.covers, published.of,
                [start |-> published.start, end |-> published.start + published.duration])
       /\ published.of.kind = "music" =>
            Located(chunks, index.written, published.of.covers, published.of.start, published.start)

ResultsInv == IndexInv /\ ClockInv /\ FlowInv /\ AnswersInv /\ HeardInv /\ PublishedInv
-----------------------------------------------------------------------------
(* Arithmetic: what is used of samples and ticks.                           *)
LEMMA Samples ==
  /\ SampleTicks \in Nat \ {0}
  /\ \A m \in Nat : BytesFor(m) \in Nat
  /\ \A k \in Nat : BytesFor(Duration(k)) = k
  /\ \A k, m \in Nat : k <= m => BytesFor(k) <= BytesFor(m)
  /\ \A k, m \in Nat : k < Duration(m) => BytesFor(k) < m
BY AnchorSizes DEF BytesFor, Duration

LEMMA Durations ==
  /\ SampleTicks \in Nat \ {0}
  /\ \A k \in Nat : Duration(k) \in Nat
  /\ \A k, m \in Nat : Duration(k + m) = Duration(k) + Duration(m)
  /\ \A k, m \in Nat : k <= m => Duration(k) <= Duration(m)
  /\ \A k \in Nat : k > 0 => SampleTicks <= Duration(k)
  /\ Duration(0) = 0 /\ Duration(1) = SampleTicks
BY AnchorSizes DEF Duration

LEMMA LeastOf ==
  ASSUME NEW P, P \subseteq Nat, P # {}
  PROVE  /\ Min(P) \in P
         /\ \A q \in P : Min(P) <= q
<1>1. PICK p \in P : \A q \in P : ~(<<q, p>> \in OpToRel(<, Nat))
  BY NatLessThanWellFounded, WFMin, Zenon
<1>2. \A q \in P : ~(q < p)
  BY <1>1 DEF OpToRel
<1>3. \A q \in P : p <= q
  BY <1>2
<1> QED
  BY <1>3 DEF Min

LEMMA GreatestOf ==
  ASSUME NEW n \in Nat, NEW P, P \subseteq 1..n, P # {}
  PROVE  /\ Max(P) \in P
         /\ \A q \in P : q <= Max(P)
<1> DEFINE R == {n - p : p \in P}
<1>1. R \subseteq Nat /\ R # {}
  <2>1. \A p \in P : n - p \in Nat
    OBVIOUS
  <2> QED
    BY <2>1
<1>2. PICK r \in R : \A q \in R : r <= q
  BY <1>1, LeastOf
<1>3. PICK p \in P : r = n - p
  BY <1>2
<1>4. \A q \in P : q <= p
  <2> TAKE q \in P
  <2>1. n - q \in R
    OBVIOUS
  <2> QED
    BY <1>2, <1>3, <2>1
<1>5. \A q \in P : p >= q
  BY <1>4
<1> QED
  BY <1>4, <1>5 DEF Max

LEMMA MinOfTwo ==
  ASSUME NEW a \in Nat, NEW b \in Nat
  PROVE  Min({a, b}) = IF a <= b THEN a ELSE b
BY DEF Min

LEMMA MaxOfTwo ==
  ASSUME NEW a \in Nat, NEW b \in Nat
  PROVE  Max({a, b}) = IF a >= b THEN a ELSE b
BY DEF Max

LEMMA SingleSeq ==
  ASSUME NEW S, NEW e \in S
  PROVE  <<e>> \in Seq(S) /\ Len(<<e>>) = 1
OBVIOUS

LEMMA FunctionIsSeq ==
  ASSUME NEW S, NEW n \in Nat, NEW f \in [1..n -> S]
  PROVE  f \in Seq(S) /\ Len(f) = n
OBVIOUS

LEMMA Appended ==
  ASSUME NEW S, NEW s \in Seq(S), NEW e \in S
  PROVE  /\ Append(s, e) \in Seq(S) /\ Append(s, e) # <<>>
         /\ Len(s) \in Nat /\ Len(Append(s, e)) = Len(s) + 1
         /\ 1..Len(Append(s, e)) = (1..Len(s)) \cup {Len(s) + 1}
         /\ \A i \in 1..Len(s) : Append(s, e)[i] = s[i]
         /\ Append(s, e)[Len(s) + 1] = e
BY AppendProperties, LenProperties
-----------------------------------------------------------------------------
(* Chunks and positions.                                                    *)
LEMMA LaidTypes ==
  ASSUME NEW c, NEW w, Laid(c, w)
  PROVE  /\ c \in Seq(Chunk) /\ w \in Nat /\ Len(c) \in Nat
         /\ \A i \in 1..Len(c) :
              /\ c[i] \in Chunk /\ c[i].start \in Nat /\ c[i].end \in Nat
              /\ c[i].capturedAt \in Nat \ {0} /\ c[i].sentAt \in Nat /\ c[i].sourceEnd \in Nat \ {0}
         /\ w > 0 => Len(c) \in 1..Len(c) /\ c[Len(c)].end = w
<1>1. c \in Seq(Chunk) /\ w \in Nat /\ Len(c) \in Nat
  BY LenProperties DEF Laid
<1>2. \A i \in 1..Len(c) : c[i] \in Chunk
  BY <1>1, ElementOfSeq
<1>3. w > 0 => c # <<>>
  BY <1>1 DEF Laid
<1>4. w > 0 => Len(c) \in 1..Len(c)
  BY <1>1, <1>3, EmptySeq
<1> QED
  BY <1>1, <1>2, <1>3, <1>4 DEF Chunk, Laid

(* A sample is in one chunk only.                                           *)
LEMMA OneHolds ==
  ASSUME NEW c, NEW w, Laid(c, w), NEW i \in 1..Len(c), NEW j \in 1..Len(c),
         NEW k \in Nat, NEW m \in Nat, Holds(c[i], k), Holds(c[j], m), k <= m
  PROVE  i <= j /\ (k = m => i = j)
<1>1. i < j \/ i = j \/ j < i
  OBVIOUS
<1>2. i < j => c[i].end <= c[j].start
  BY DEF Laid, Ordered
<1>3. j < i => c[j].end <= c[i].start
  BY DEF Laid, Ordered
<1> QED
  BY <1>1, <1>2, <1>3, LaidTypes DEF Holds

LEMMA PositionOf ==
  ASSUME NEW c, NEW w, Laid(c, w), NEW i \in 1..Len(c), NEW k \in Nat, Holds(c[i], k)
  PROVE  /\ PositionIn(c, k) = c[i].sourceEnd - Duration(c[i].end - k)
         /\ PositionIn(c, k) \in Nat
         /\ Duration(c[i].end - k) \in Nat
         /\ Duration(c[i].end - k) <= Duration(c[i].end - c[i].start)
         /\ SampleTicks <= Duration(c[i].end - k)
         /\ PositionIn(c, k) + SampleTicks <= c[i].sourceEnd
<1> DEFINE j == CHOOSE j \in 1..Len(c) : Holds(c[j], k)
<1>1. j \in 1..Len(c) /\ Holds(c[j], k)
  OBVIOUS
<1>2. i = j
  <2> HIDE DEF j
  <2> QED
    BY <1>1, OneHolds
<1>3. PositionIn(c, k) = c[i].sourceEnd - Duration(c[i].end - k)
  BY <1>2 DEF PositionIn
<1>4. /\ c[i].start \in Nat /\ c[i].end \in Nat /\ c[i].sourceEnd \in Nat
      /\ Duration(c[i].end - c[i].start) <= c[i].sourceEnd
  BY LaidTypes DEF Laid
<1>5. /\ c[i].end - k \in Nat /\ c[i].end - k > 0
      /\ c[i].end - c[i].start \in Nat /\ c[i].end - k <= c[i].end - c[i].start
  BY <1>4 DEF Holds
<1>6. /\ Duration(c[i].end - k) \in Nat /\ Duration(c[i].end - c[i].start) \in Nat
      /\ Duration(c[i].end - k) <= Duration(c[i].end - c[i].start)
      /\ SampleTicks <= Duration(c[i].end - k)
  BY <1>5, Durations
<1>7. SampleTicks \in Nat
  BY Durations
<1> QED
  BY <1>3, <1>4, <1>6, <1>7

(* Two samples are at least a sample's time apart.                          *)
LEMMA Spacing ==
  ASSUME NEW c, NEW w, Laid(c, w), NEW k \in 0..(w - 1), NEW m \in 0..(w - 1)
  PROVE  /\ PositionIn(c, k) \in Nat
         /\ k < m => PositionIn(c, k) + SampleTicks <= PositionIn(c, m)
         /\ k <= m => PositionIn(c, k) <= PositionIn(c, m)
<1>0. k \in Nat /\ m \in Nat /\ SampleTicks \in Nat
  BY LaidTypes, Durations
<1>1. PICK i \in 1..Len(c) : Holds(c[i], k)
  BY DEF Laid
<1>2. PICK j \in 1..Len(c) : Holds(c[j], m)
  BY DEF Laid
<1>3. /\ PositionIn(c, k) = c[i].sourceEnd - Duration(c[i].end - k)
      /\ PositionIn(c, k) \in Nat
      /\ PositionIn(c, k) + SampleTicks <= c[i].sourceEnd
  BY <1>0, <1>1, PositionOf
<1>4. /\ PositionIn(c, m) = c[j].sourceEnd - Duration(c[j].end - m)
      /\ PositionIn(c, m) \in Nat /\ Duration(c[j].end - m) \in Nat
      /\ Duration(c[j].end - m) <= Duration(c[j].end - c[j].start)
  BY <1>0, <1>2, PositionOf
<1>5. /\ c[i].end \in Nat /\ c[i].sourceEnd \in Nat /\ c[j].sourceEnd \in Nat
      /\ c[j].end \in Nat /\ c[j].start \in Nat
  BY LaidTypes
<1>6. ASSUME k < m PROVE PositionIn(c, k) + SampleTicks <= PositionIn(c, m)
  <2>1. i <= j
    BY <1>0, <1>1, <1>2, <1>6, OneHolds
  <2>2. CASE i < j
    <3>1. c[i].sourceEnd <= c[j].sourceEnd - Duration(c[j].end - c[j].start)
      BY <2>2 DEF Laid, Ordered
    <3>2. c[j].end - c[j].start \in Nat
      BY <1>5 DEF Laid
    <3>3. Duration(c[j].end - c[j].start) \in Nat
      BY <3>2, Durations
    <3>4. /\ c[j].sourceEnd - Duration(c[j].end - c[j].start) \in Int
          /\ c[j].sourceEnd - Duration(c[j].end - c[j].start) <= PositionIn(c, m)
      BY <1>4, <1>5, <3>3
    <3> HIDE <1>1, <1>2
    <3>5. c[i].sourceEnd <= PositionIn(c, m)
      BY <1>4, <1>5, <3>1, <3>4
    <3>6. PositionIn(c, k) \in Nat /\ PositionIn(c, k) + SampleTicks <= c[i].sourceEnd
      BY <1>3
    <3> QED
      BY <1>0, <1>4, <1>5, <3>5, <3>6
  <2>3. CASE i = j
    <3>1. c[i].end - m \in Nat /\ m - k \in Nat /\ m - k > 0
          /\ c[i].end - k = (c[i].end - m) + (m - k)
      BY <1>0, <1>2, <1>5, <1>6, <2>3 DEF Holds
    <3>2. /\ Duration(c[i].end - k) = Duration(c[i].end - m) + Duration(m - k)
          /\ SampleTicks <= Duration(m - k) /\ Duration(m - k) \in Nat
          /\ Duration(c[i].end - m) \in Nat
      BY <3>1, Durations
    <3>3. PositionIn(c, m) = c[i].sourceEnd - Duration(c[i].end - m)
      BY <1>4, <2>3
    <3>4. \A p, q, y, a, b, d \in Nat :
            p = y - a /\ q = y - b /\ a = b + d /\ SampleTicks <= d => p + SampleTicks <= q
      BY <1>0
    <3>5. Duration(c[i].end - k) \in Nat
      <4>1. \A x, y \in Nat : x + y \in Nat
        OBVIOUS
      <4>2. Duration(c[i].end - m) + Duration(m - k) \in Nat
        BY <3>2, <4>1
      <4> QED
        BY <3>2, <4>2
    <3> QED
      BY <1>3, <1>4, <1>5, <3>2, <3>3, <3>4, <3>5, Zenon
  <2> QED
    BY <2>1, <2>2, <2>3
<1> QED
  BY <1>0, <1>3, <1>4, <1>6

(* A time reaches further the later it is, and never past the last chunk.   *)
LEMMA ReachGrows ==
  ASSUME NEW c, NEW w, Laid(c, w), w > 0, NEW k \in Nat, NEW m \in Nat, k <= m
  PROVE  /\ Reach(c, w, k) \in Nat /\ Reach(c, w, k) <= Reach(c, w, m)
         /\ Reach(c, w, k) <= c[Len(c)].sourceEnd
<1>0. w \in Nat /\ SampleTicks \in Nat /\ w - 1 \in 0..(w - 1)
  <2>1. w \in Nat /\ SampleTicks \in Nat
    BY LaidTypes, Durations
  <2> QED
    BY <2>1
<1>1. /\ \A x \in 0..(w - 1) : PositionIn(c, x) \in Nat
      /\ \A x, y \in 0..(w - 1) : x <= y => PositionIn(c, x) <= PositionIn(c, y)
  BY Spacing
<1>2. PositionIn(c, w - 1) + SampleTicks <= c[Len(c)].sourceEnd
  <2>1. Len(c) \in 1..Len(c) /\ c[Len(c)].end = w
    BY LaidTypes
  <2>2. Holds(c[Len(c)], w - 1)
    <3>1. c[Len(c)].start \in Nat /\ c[Len(c)].start < c[Len(c)].end
      BY <2>1, LaidTypes DEF Laid
    <3> QED
      BY <1>0, <2>1, <3>1 DEF Holds
  <2> QED
    BY <1>0, <2>1, <2>2, PositionOf
<1>3. ASSUME NEW x \in Nat
      PROVE  /\ x < w => Reach(c, w, x) = PositionIn(c, x) /\ x \in 0..(w - 1)
             /\ ~(x < w) => Reach(c, w, x) = PositionIn(c, w - 1) + SampleTicks
  BY <1>0 DEF Reach
<1>4. c[Len(c)].sourceEnd \in Nat
  BY LaidTypes
<1>5. PositionIn(c, w - 1) \in Nat
  BY <1>0, <1>1
<1>6. ASSUME NEW x \in 0..(w - 1)
      PROVE  /\ PositionIn(c, x) \in Nat /\ PositionIn(c, x) <= PositionIn(c, w - 1)
             /\ PositionIn(c, x) <= PositionIn(c, w - 1) + SampleTicks
  <2>1. PositionIn(c, x) \in Nat /\ PositionIn(c, x) <= PositionIn(c, w - 1)
    BY <1>0, <1>1
  <2> QED
    BY <1>0, <1>5, <2>1
<1>7. CASE m < w
  <2>1. k \in 0..(w - 1) /\ m \in 0..(w - 1) /\ k < w
    BY <1>0, <1>7
  <2>2. Reach(c, w, k) = PositionIn(c, k) /\ Reach(c, w, m) = PositionIn(c, m)
    BY <1>3, <1>7, <2>1
  <2>3. PositionIn(c, k) <= PositionIn(c, m)
    BY <1>1, <2>1
  <2> QED
    BY <1>0, <1>2, <1>4, <1>5, <1>6, <2>1, <2>2, <2>3
<1>8. CASE ~(m < w) /\ k < w
  <2>1. k \in 0..(w - 1)
    BY <1>0, <1>8
  <2>2. Reach(c, w, k) = PositionIn(c, k) /\ Reach(c, w, m) = PositionIn(c, w - 1) + SampleTicks
    BY <1>3, <1>8
  <2> QED
    BY <1>0, <1>2, <1>4, <1>5, <1>6, <2>1, <2>2
<1>9. CASE ~(k < w)
  <2>1. ~(m < w)
    BY <1>0, <1>9
  <2>2. Reach(c, w, k) = PositionIn(c, w - 1) + SampleTicks /\ Reach(c, w, m) = Reach(c, w, k)
    BY <1>3, <1>9, <2>1
  <2> QED
    BY <1>0, <1>2, <1>5, <2>2
<1> QED
  BY <1>7, <1>8, <1>9

(* What has been placed stays in its place when the writer goes on.         *)
LEMMA LaidGrows ==
  ASSUME NEW c, NEW w, NEW d, NEW v, Laid(c, w), Laid(d, v), w <= v,
         \A i \in 1..Len(c) : i \in 1..Len(d) /\ d[i] = c[i]
  PROVE  \A k \in 0..(w - 1) : PositionIn(d, k) = PositionIn(c, k)
<1> SUFFICES ASSUME NEW k \in 0..(w - 1)
             PROVE  PositionIn(d, k) = PositionIn(c, k)
  OBVIOUS
<1>0. k \in Nat
  BY LaidTypes
<1>1. PICK i \in 1..Len(c) : Holds(c[i], k)
  BY DEF Laid
<1>2. i \in 1..Len(d) /\ d[i] = c[i] /\ Holds(d[i], k)
  BY <1>1
<1>3. PositionIn(c, k) = c[i].sourceEnd - Duration(c[i].end - k)
  BY <1>0, <1>1, PositionOf
<1>4. PositionIn(d, k) = d[i].sourceEnd - Duration(d[i].end - k)
  BY <1>0, <1>2, PositionOf
<1> QED
  BY <1>2, <1>3, <1>4

LEMMA ReachStays ==
  ASSUME NEW c, NEW w, NEW d, NEW v, Laid(c, w), Laid(d, v), w <= v, w > 0,
         \A i \in 1..Len(c) : i \in 1..Len(d) /\ d[i] = c[i],
         NEW k \in Nat
  PROVE  Reach(c, w, k) <= Reach(d, v, k)
<1>0. /\ w \in Nat /\ v \in Nat /\ SampleTicks \in Nat
      /\ w - 1 \in 0..(w - 1) /\ w - 1 \in 0..(v - 1) /\ v - 1 \in 0..(v - 1)
  <2>1. w \in Nat /\ v \in Nat /\ SampleTicks \in Nat
    BY Durations DEF Laid
  <2> QED
    BY <2>1
<1>1. \A x \in 0..(w - 1) : PositionIn(d, x) = PositionIn(c, x)
  BY LaidGrows
<1>2. PositionIn(d, w - 1) = PositionIn(c, w - 1) /\ PositionIn(d, w - 1) \in Nat
      /\ PositionIn(d, v - 1) \in Nat /\ PositionIn(d, w - 1) <= PositionIn(d, v - 1)
  BY <1>0, <1>1, Spacing
<1>3. CASE k < w
  <2>1. k \in 0..(w - 1) /\ k \in 0..(v - 1) /\ k < v
    BY <1>0, <1>3
  <2>2. PositionIn(d, k) = PositionIn(c, k) /\ PositionIn(d, k) \in Nat
    BY <1>1, <2>1, Spacing
  <2> QED
    BY <1>3, <2>1, <2>2 DEF Reach
<1>4. CASE ~(k < w) /\ k < v
  <2>1. k \in 0..(v - 1) /\ w - 1 < k
    BY <1>0, <1>4
  <2>2. PositionIn(d, w - 1) + SampleTicks <= PositionIn(d, k)
    BY <1>0, <2>1, Spacing
  <2> QED
    BY <1>2, <1>4, <2>2 DEF Reach
<1>5. CASE ~(k < w) /\ ~(k < v)
  BY <1>0, <1>2, <1>5 DEF Reach
<1> QED
  BY <1>3, <1>4, <1>5

LEMMA LocatedStays ==
  ASSUME NEW c, NEW w, NEW d, NEW v, Laid(c, w), Laid(d, v), w <= v,
         \A i \in 1..Len(c) : i \in 1..Len(d) /\ d[i] = c[i],
         NEW n \in Nat \ {0}, n <= w, NEW time \in Nat, NEW at, Located(c, w, n, time, at)
  PROVE  Located(d, v, n, time, at)
<1> DEFINE k == BytesFor(time)
<1>0. /\ w \in Nat /\ v \in Nat /\ SampleTicks \in Nat /\ k \in Nat /\ w > 0
      /\ at \in Nat
  <2>1. w \in Nat /\ v \in Nat
    BY DEF Laid
  <2>2. SampleTicks \in Nat /\ k \in Nat /\ at \in Nat
    BY Samples DEF Located
  <2> QED
    BY <2>1, <2>2
<1>1. \A x \in 0..(w - 1) : PositionIn(d, x) = PositionIn(c, x)
  BY LaidGrows
<1>2. k < n => at = PositionIn(d, k)
  BY <1>0, <1>1 DEF Located
<1>3. at <= Reach(d, v, k)
  <2>1. Reach(c, w, k) \in Nat /\ Reach(d, v, k) \in Nat
    BY <1>0, ReachGrows
  <2>2. Reach(c, w, k) <= Reach(d, v, k)
    BY <1>0, ReachStays
  <2> QED
    BY <1>0, <2>1, <2>2 DEF Located
<1>4. k # 0 => at >= PositionIn(d, Min({k, n}) - 1) + SampleTicks
  <2>1. k # 0 => Min({k, n}) - 1 \in 0..(w - 1)
    BY <1>0, MinOfTwo
  <2> QED
    BY <1>0, <1>1, <2>1 DEF Located
<1> QED
  BY <1>0, <1>2, <1>3, <1>4 DEF Located
-----------------------------------------------------------------------------
(* The index: what Add keeps.                                               *)
LEMMA RetainedSuffix ==
  ASSUME NEW e \in Seq(Chunk), e # <<>>, NEW v \in Nat
  PROVE  \E first \in 1..Len(e) :
           /\ Retained(e, v) = SubSeq(e, first, Len(e))
           /\ \A j \in 1..(first - 1) : Outdated(e, v, j)
<1> DEFINE Fits == {i \in 1..Len(e) : ~Outdated(e, v, i)}
           IsFirst(i) == ~Outdated(e, v, i) /\ \A j \in 1..(i - 1) : Outdated(e, v, j)
<1>1. Len(e) \in Nat /\ Len(e) \in 1..Len(e)
  BY EmptySeq
<1>2. Len(e) \in Fits
  BY <1>1 DEF Outdated
<1>3. Fits \subseteq Nat /\ Fits # {}
  BY <1>2
<1>4. Min(Fits) \in Fits /\ \A q \in Fits : Min(Fits) <= q
  BY <1>3, LeastOf
<1>5. PICK m \in 1..Len(e) : m \in Fits /\ \A q \in Fits : m <= q
  BY <1>4
<1>6. \A j \in 1..(m - 1) : Outdated(e, v, j)
  <2> TAKE j \in 1..(m - 1)
  <2>1. j \in 1..Len(e) /\ ~(m <= j)
    BY <1>1
  <2> QED
    BY <1>5, <2>1
<1>7. IsFirst(m)
  BY <1>5, <1>6
<1> DEFINE first == CHOOSE i \in 1..Len(e) : IsFirst(i)
<1>8. first \in 1..Len(e) /\ IsFirst(first)
  BY <1>7
<1>9. Retained(e, v) = SubSeq(e, first, Len(e))
  BY DEF Retained
<1> QED
  BY <1>8, <1>9

LEMMA AddLays ==
  ASSUME NEW c, NEW w, Laid(c, w), NEW n \in Nat \ {0}, NEW a \in Chunk,
         a.start = w, a.end = w + n, Duration(n) <= a.sourceEnd,
         c # <<>> => c[Len(c)].sourceEnd <= a.sourceEnd - Duration(n)
  PROVE  /\ Laid(Append(c, a), w + n)
         /\ \A i \in 1..Len(c) : i \in 1..Len(Append(c, a)) /\ Append(c, a)[i] = c[i]
<1> DEFINE d == Append(c, a)
           l == Len(c) + 1
<1>1. c \in Seq(Chunk) /\ w \in Nat
  BY DEF Laid
<1>2. /\ d \in Seq(Chunk) /\ d # <<>> /\ Len(c) \in Nat /\ Len(d) = l /\ 1..Len(d) = (1..Len(c)) \cup {l}
      /\ \A i \in 1..Len(c) : d[i] = c[i]
      /\ d[l] = a
  BY <1>1, Appended
<1> HIDE DEF d
<1>3. \A i \in 1..Len(d) : (i \in 1..Len(c) /\ d[i] = c[i]) \/ (i = l /\ d[i] = a)
  BY <1>2
<1>4. \A i \in 1..Len(d) : /\ d[i].start < d[i].end /\ d[i].end <= w + n
                           /\ Duration(d[i].end - d[i].start) <= d[i].sourceEnd
  <2> TAKE i \in 1..Len(d)
  <2>1. CASE i \in 1..Len(c) /\ d[i] = c[i]
    <3>1. c[i].start < c[i].end /\ c[i].end <= w /\ c[i].end \in Nat
          /\ Duration(c[i].end - c[i].start) <= c[i].sourceEnd
      BY <2>1, LaidTypes DEF Laid
    <3> QED
      BY <1>1, <2>1, <3>1
  <2>2. CASE d[i] = a
    <3>1. a.end - a.start = n
      BY <1>1
    <3> QED
      BY <1>1, <2>2, <3>1
  <2> QED
    BY <1>3, <2>1, <2>2
<1>5. ASSUME NEW i \in 1..Len(d), NEW j \in 1..Len(d), i < j
      PROVE  /\ d[i].end <= d[j].start
             /\ d[i].sourceEnd <= d[j].sourceEnd - Duration(d[j].end - d[j].start)
  <2>1. i \in 1..Len(c) /\ d[i] = c[i]
    BY <1>2, <1>5
  <2>2. CASE j \in 1..Len(c) /\ d[j] = c[j]
    BY <1>5, <2>1, <2>2 DEF Laid, Ordered
  <2>3. CASE j = l /\ d[j] = a
    <3>1. c[i].end <= w
      BY <2>1 DEF Laid
    <3>2. c # <<>> /\ Len(c) \in 1..Len(c) /\ (i < Len(c) \/ i = Len(c))
      BY <1>1, <1>2, <2>1, EmptySeq
    <3>3. c[i].sourceEnd <= c[Len(c)].sourceEnd
      <4>1. CASE i < Len(c)
        <5>1. /\ c[i].sourceEnd <= c[Len(c)].sourceEnd - Duration(c[Len(c)].end - c[Len(c)].start)
              /\ c[Len(c)].end - c[Len(c)].start \in Nat
              /\ c[i].sourceEnd \in Nat /\ c[Len(c)].sourceEnd \in Nat
          <6>1. /\ c[Len(c)].end \in Nat /\ c[Len(c)].start \in Nat
                /\ c[Len(c)].start < c[Len(c)].end
                /\ c[i].sourceEnd \in Nat /\ c[Len(c)].sourceEnd \in Nat
            BY <2>1, <3>2, LaidTypes DEF Laid
          <6> QED
            BY <2>1, <3>2, <4>1, <6>1 DEF Laid, Ordered
        <5>2. Duration(c[Len(c)].end - c[Len(c)].start) \in Nat
          BY <5>1, Durations
        <5> QED
          BY <5>1, <5>2
      <4>2. CASE i = Len(c)
        BY <2>1, <4>2, LaidTypes
      <4> QED
        BY <3>2, <4>1, <4>2
    <3>4. a.end - a.start = n /\ Duration(n) \in Nat /\ a.sourceEnd \in Nat
      BY <1>1, Durations DEF Chunk
    <3>5. c[i].sourceEnd \in Nat /\ c[Len(c)].sourceEnd \in Nat
      BY <2>1, <3>2, LaidTypes
    <3> QED
      BY <2>1, <2>3, <3>1, <3>2, <3>3, <3>4, <3>5
  <2> QED
    BY <1>3, <2>2, <2>3
<1>6. \A k \in 0..(w + n - 1) : \E i \in 1..Len(d) : Holds(d[i], k)
  <2> TAKE k \in 0..(w + n - 1)
  <2>1. CASE k < w
    <3>1. k \in 0..(w - 1)
      BY <1>1, <2>1
    <3>2. PICK i \in 1..Len(c) : Holds(c[i], k)
      BY <3>1 DEF Laid
    <3> QED
      BY <1>2, <3>2
  <2>2. CASE ~(k < w)
    <3>1. Holds(d[l], k)
      BY <1>1, <1>2, <2>2 DEF Holds
    <3> QED
      BY <1>2, <3>1
  <2> QED
    BY <2>1, <2>2
<1>7. Laid(d, w + n)
  BY <1>1, <1>2, <1>4, <1>5, <1>6 DEF Laid, Ordered
<1> QED
  BY <1>2, <1>7 DEF d

LEMMA AddKeepsSuffix ==
  ASSUME NEW c, NEW e, NEW w, Laid(c, w), Suffix(c, e, w), NEW n \in Nat \ {0}, NEW a \in Chunk
  PROVE  Suffix(Append(c, a), Retained(Append(e, a), w + n), w + n)
<1> DEFINE d == Append(c, a)
           f == Append(e, a)
           g == Retained(f, w + n)
<1>1. c \in Seq(Chunk) /\ w \in Nat /\ e \in Seq(Chunk) /\ Len(e) <= Len(c)
  BY DEF Laid, Suffix
<1>2. /\ d \in Seq(Chunk) /\ d # <<>> /\ Len(c) \in Nat /\ Len(d) = Len(c) + 1
      /\ \A i \in 1..Len(c) : d[i] = c[i]
      /\ d[Len(c) + 1] = a
  BY <1>1, Appended
<1>3. /\ f \in Seq(Chunk) /\ f # <<>> /\ Len(e) \in Nat /\ Len(f) = Len(e) + 1
      /\ \A i \in 1..Len(e) : f[i] = e[i]
      /\ f[Len(e) + 1] = a
  BY <1>1, Appended
<1> HIDE DEF d, f
<1>4. w + n \in Nat
  BY <1>1
<1>5. PICK first \in 1..Len(f) : /\ g = SubSeq(f, first, Len(f))
                                 /\ \A j \in 1..(first - 1) : Outdated(f, w + n, j)
  BY <1>3, <1>4, RetainedSuffix
<1> HIDE DEF g
<1> DEFINE b == Len(c) - Len(e)
<1>6. b \in Nat /\ Len(d) - Len(f) = b
  BY <1>1, <1>2, <1>3
<1>7. \A i \in 1..Len(f) : f[i] = d[i + b] /\ f[i] \in Chunk
  <2> TAKE i \in 1..Len(f)
  <2>1. f[i] \in Chunk
    BY <1>3, ElementOfSeq
  <2>2. CASE i \in 1..Len(e)
    <3>1. e[i] = c[i + b] /\ i + b \in 1..Len(c)
      BY <1>1, <1>2, <1>3, <2>2 DEF Suffix, Dropped
    <3> QED
      BY <1>2, <1>3, <2>1, <2>2, <3>1
  <2>3. CASE i = Len(e) + 1
    <3>1. i + b = Len(c) + 1
      BY <1>2, <1>3, <2>3
    <3> QED
      BY <1>2, <1>3, <2>1, <2>3, <3>1
  <2> QED
    BY <1>3, <2>2, <2>3
<1>8. /\ g \in Seq(Chunk) /\ Len(g) = Len(f) - first + 1
      /\ \A i \in 1..Len(g) : g[i] = f[first + i - 1]
  <2>1. first \in Int /\ Len(f) \in Int /\ first <= Len(f) /\ Len(f) - first + 1 = Len(f) - first + 1
    BY <1>3
  <2>2. \A i \in first..Len(f) : f[i] \in Chunk
    BY <1>7
  <2> QED
    BY <1>5, <2>1, <2>2, SubSeqProperties
<1>9. Len(g) \in Nat /\ Len(g) <= Len(d) /\ Dropped(d, g) = b + first - 1
  BY <1>2, <1>3, <1>6, <1>8 DEF Dropped
<1>10. g # <<>>
  <2>1. Len(g) # 0
    BY <1>3, <1>8
  <2> QED
    BY <2>1, EmptySeq
<1>11. \A i \in 1..Len(g) : g[i] = d[i + Dropped(d, g)]
  <2> TAKE i \in 1..Len(g)
  <2>1. first + i - 1 \in 1..Len(f)
    BY <1>3, <1>8
  <2>2. g[i] = f[first + i - 1] /\ f[first + i - 1] = d[(first + i - 1) + b]
    BY <1>7, <1>8, <2>1
  <2>3. (first + i - 1) + b = i + (b + first - 1)
    BY <1>3, <1>6, <1>8
  <2> QED
    BY <1>9, <2>2, <2>3
<1>12. \A i \in 1..Dropped(d, g) : (w + n) - d[i].end > Window \/ Len(d) - i >= MaxAnchors
  <2> TAKE i \in 1..Dropped(d, g)
  <2>0. Window \in Nat /\ MaxAnchors \in Nat
    BY AnchorSizes
  <2>1. CASE i <= b
    <3>1. i \in 1..b /\ i \in 1..Len(c)
      BY <1>1, <1>2, <1>3, <2>1
    <3>2. w - c[i].end > Window \/ Len(c) - i >= MaxAnchors
      BY <3>1 DEF Suffix, Dropped
    <3>3. d[i] = c[i] /\ c[i].end \in Nat
      BY <1>2, <3>1, LaidTypes
    <3> QED
      BY <1>1, <1>2, <2>0, <3>1, <3>2, <3>3
  <2>2. CASE ~(i <= b)
    <3>1. i - b \in 1..(first - 1) /\ i - b \in 1..Len(f)
      BY <1>3, <1>6, <1>9, <2>2
    <3>2. Outdated(f, w + n, i - b) /\ f[i - b] = d[(i - b) + b]
      BY <1>5, <1>7, <3>1
    <3>3. (i - b) + b = i /\ Len(f) - (i - b) = Len(d) - i
      BY <1>2, <1>3, <1>6
    <3> QED
      BY <3>2, <3>3 DEF Outdated
  <2> QED
    BY <1>6, <2>1, <2>2
<1>13. Suffix(d, g, w + n)
  BY <1>8, <1>9, <1>10, <1>11, <1>12 DEF Suffix
<1> QED
  BY <1>13 DEF d, f, g
-----------------------------------------------------------------------------
(* The index: what a lookup finds.                                          *)
LEMMA CoveringOf ==
  ASSUME NEW c, NEW idx, Laid(c, idx.written), Suffix(c, idx.entries, idx.written),
         NEW k \in Nat, Covered(idx, k)
  PROVE  /\ c # <<>>
         /\ k < idx.written => \E i \in 1..Len(c) : Covering(idx, k) = c[i] /\ Holds(c[i], k)
         /\ ~(k < idx.written) => Covering(idx, k) = c[Len(c)]
<1> DEFINE e == idx.entries
           w == idx.written
           b == Dropped(c, e)
<1>1. /\ c \in Seq(Chunk) /\ e \in Seq(Chunk) /\ w \in Nat /\ Len(c) \in Nat /\ Len(e) \in Nat
      /\ Len(e) <= Len(c) /\ Len(e) > 0 /\ b \in Nat /\ b = Len(c) - Len(e)
      /\ \A i \in 1..Len(e) : e[i] = c[i + b] /\ i + b \in 1..Len(c)
      /\ k >= w \/ k >= e[1].start
  <2>1. /\ c \in Seq(Chunk) /\ e \in Seq(Chunk) /\ w \in Nat /\ Len(e) <= Len(c) /\ Len(e) > 0
        /\ b = Len(c) - Len(e)
        /\ \A i \in 1..Len(e) : e[i] = c[i + b]
        /\ k >= w \/ k >= e[1].start
    BY DEF Laid, Suffix, Covered, Dropped
  <2>2. Len(c) \in Nat /\ Len(e) \in Nat
    BY <2>1, LenProperties
  <2> HIDE DEF b, e, w
  <2>3. b \in Nat /\ \A i \in 1..Len(e) : i + b \in 1..Len(c)
    BY <2>1, <2>2
  <2> QED
    BY <2>1, <2>2, <2>3
<1> HIDE DEF b
<1>2. c # <<>>
  BY <1>1, EmptySeq
<1>3. ASSUME ~(k < w)
      PROVE  Covering(idx, k) = c[Len(c)]
  <2>1. Covering(idx, k) = e[Len(e)]
    BY <1>1, <1>3 DEF Covering, Last
  <2>2. Len(e) \in 1..Len(e) /\ Len(e) + b = Len(c)
    BY <1>1
  <2> QED
    BY <1>1, <2>1, <2>2
<1>4. ASSUME k < w
      PROVE  \E i \in 1..Len(c) : Covering(idx, k) = c[i] /\ Holds(c[i], k)
  <2>1. k \in 0..(w - 1)
    BY <1>1, <1>4
  <2>2. PICK i \in 1..Len(c) : Holds(c[i], k)
    BY <2>1 DEF Laid
  <2>3. 1 + b <= i
    <3>1. 1 \in 1..Len(e) /\ 1 + b \in 1..Len(c) /\ e[1] = c[1 + b]
      <4>1. 1 \in 1..Len(e)
        BY <1>1
      <4> QED
        BY <1>1, <4>1, Zenon
    <3>2. c[1 + b].start \in Nat /\ c[1 + b].start <= k /\ c[1 + b].start < c[1 + b].end
      <4>1. k >= e[1].start
        BY <1>1, <1>4
      <4>2. c[1 + b].start \in Nat /\ c[1 + b].start < c[1 + b].end
        BY <3>1, LaidTypes DEF Laid
      <4> QED
        BY <3>1, <4>1, <4>2
    <3>3. Holds(c[1 + b], c[1 + b].start)
      BY <3>2 DEF Holds
    <3> QED
      BY <2>2, <3>1, <3>2, <3>3, OneHolds
  <2>4. PICK j \in 1..Len(e) : i = j + b /\ e[j] = c[i]
    <3>1. i - b \in 1..Len(e) /\ (i - b) + b = i
      BY <1>1, <2>3
    <3> QED
      BY <1>1, <3>1
  <2> DEFINE Fits(m) == e[m].end > k /\ \A n \in 1..(m - 1) : e[n].end <= k
             first == CHOOSE m \in 1..Len(e) : Fits(m)
  <2>5. Fits(j)
    <3>1. e[j].end > k
      BY <1>1, <2>2, <2>4, LaidTypes DEF Holds
    <3>2. ASSUME NEW n \in 1..(j - 1)
          PROVE  e[n].end <= k
      <4>1. n \in 1..Len(e) /\ n + b \in 1..Len(c) /\ n + b < i /\ e[n] = c[n + b]
        <5>0. Len(e) \in Nat /\ b \in Nat
          BY <1>1
        <5>1. n \in 1..Len(e) /\ n + b < j + b
          BY <5>0
        <5> QED
          BY <1>1, <2>4, <5>1
      <4>2. c[n + b].end <= c[i].start /\ c[i].start <= k
        BY <2>2, <4>1 DEF Laid, Ordered, Holds
      <4>3. c[n + b].end \in Nat /\ c[i].start \in Nat
        BY <4>1, LaidTypes
      <4> QED
        BY <4>1, <4>2, <4>3
    <3> QED
      BY <3>1, <3>2
  <2>6. first \in 1..Len(e) /\ Fits(first)
    BY <2>5
  <2>7. first = j
    <3> HIDE DEF first
    <3>1. e[first].end \in Nat /\ e[j].end \in Nat
      <4>1. e[first] \in Chunk /\ e[j] \in Chunk
        BY <1>1, <2>6, ElementOfSeq
      <4> QED
        BY <4>1 DEF Chunk
    <3>2. ~(first < j)
      <4> SUFFICES ASSUME first < j PROVE FALSE
        OBVIOUS
      <4>1. first \in 1..(j - 1)
        BY <2>6
      <4> QED
        BY <2>5, <2>6, <3>1, <4>1
    <3>3. ~(j < first)
      <4> SUFFICES ASSUME j < first PROVE FALSE
        OBVIOUS
      <4>1. j \in 1..(first - 1)
        BY <2>6
      <4> QED
        BY <2>5, <2>6, <3>1, <4>1
    <3> QED
      BY <2>6, <3>2, <3>3
  <2>8. Covering(idx, k) = e[first]
    BY <1>1, <1>4 DEF Covering
  <2> QED
    BY <2>2, <2>4, <2>7, <2>8
<1> QED
  BY <1>2, <1>3, <1>4

LEMMA SourceAtPlaces ==
  ASSUME NEW c, NEW idx, Laid(c, idx.written), Suffix(c, idx.entries, idx.written),
         NEW time \in Nat
  PROVE  /\ SourceAt(idx, time) \in [ok : BOOLEAN, at : Nat]
         /\ SourceAt(idx, time).ok <=> Covered(idx, BytesFor(time))
         /\ SourceAt(idx, time).ok =>
              SourceAt(idx, time).at = Reach(c, idx.written, BytesFor(time))
<1> DEFINE k == BytesFor(time)
           w == idx.written
           e == Covering(idx, k)
           at == e.sourceEnd - Back(e, k)
<1>1. k \in Nat /\ w \in Nat /\ SampleTicks \in Nat \ {0}
  BY Samples DEF Laid
<1>2. SourceAt(idx, time) = IF Covered(idx, k) /\ e.sourceEnd # 0
                            THEN [ok |-> TRUE, at |-> IF at < 0 THEN 0 ELSE at]
                            ELSE [ok |-> FALSE, at |-> 0]
  BY DEF SourceAt, Unknown
<1>3. ASSUME Covered(idx, k)
      PROVE  e.sourceEnd # 0 /\ at \in Nat /\ at = Reach(c, w, k)
  <2>1. CASE k < w
    <3>1. PICK i \in 1..Len(c) : e = c[i] /\ Holds(c[i], k)
      BY <1>1, <1>3, <2>1, CoveringOf
    <3>2. e.sourceEnd \in Nat \ {0} /\ e.end \in Nat /\ k < e.end
      BY <3>1, LaidTypes DEF Holds
    <3>3. Back(e, k) = Duration(e.end - k)
      BY <1>1, <3>2 DEF Back
    <3>4. /\ PositionIn(c, k) = e.sourceEnd - Duration(e.end - k)
          /\ PositionIn(c, k) \in Nat
      BY <1>1, <3>1, PositionOf
    <3>5. Reach(c, w, k) = PositionIn(c, k)
      BY <2>1 DEF Reach
    <3> HIDE DEF e, w, k
    <3> QED
      BY <3>2, <3>3, <3>4, <3>5
  <2>2. CASE ~(k < w)
    <3>1. e = c[Len(c)] /\ c # <<>>
      BY <1>1, <1>3, <2>2, CoveringOf
    <3>2. Len(c) \in 1..Len(c) /\ e.end = w
      BY <3>1, EmptySeq DEF Laid
    <3>3. e.sourceEnd \in Nat \ {0} /\ e.start \in Nat /\ e.start < e.end
      BY <3>1, <3>2, LaidTypes DEF Laid
    <3>4. Back(e, k) = 0
      BY <1>1, <2>2, <3>2 DEF Back
    <3>5. w - 1 \in Nat /\ Holds(c[Len(c)], w - 1) /\ w - (w - 1) = 1
      BY <1>1, <3>1, <3>2, <3>3 DEF Holds
    <3>6. /\ PositionIn(c, w - 1) = e.sourceEnd - Duration(w - (w - 1))
          /\ PositionIn(c, w - 1) \in Nat
      BY <3>1, <3>2, <3>5, PositionOf
    <3>7. Duration(w - (w - 1)) = SampleTicks
      BY <3>5, Durations
    <3>8. Reach(c, w, k) = PositionIn(c, w - 1) + SampleTicks
      BY <2>2 DEF Reach
    <3> HIDE DEF e, w, k
    <3> QED
      BY <1>1, <3>3, <3>4, <3>6, <3>7, <3>8
  <2> QED
    BY <2>1, <2>2
<1> HIDE DEF e, at, k, w
<1>4. CASE Covered(idx, k)
  <2>1. SourceAt(idx, time) = [ok |-> TRUE, at |-> at]
    <3>1. ~(at < 0)
      BY <1>3, <1>4
    <3> QED
      BY <1>2, <1>3, <1>4, <3>1
  <2> QED
    BY <1>3, <1>4, <2>1 DEF k, w
<1>5. CASE ~Covered(idx, k)
  BY <1>2, <1>5 DEF k
<1> QED
  BY <1>4, <1>5

LEMMA AtStamps ==
  ASSUME NEW c, NEW idx, Laid(c, idx.written), Suffix(c, idx.entries, idx.written),
         NEW time \in Nat
  PROVE  /\ At(idx, time) \in [ok : BOOLEAN, capturedAt : Int, sentAt : Nat]
         /\ At(idx, time).ok <=> Covered(idx, BytesFor(time))
         /\ \A i \in 1..Len(c) :
              At(idx, time).ok /\ Holds(c[i], BytesFor(time)) =>
                /\ At(idx, time).capturedAt = c[i].capturedAt - Duration(c[i].end - BytesFor(time))
                /\ At(idx, time).sentAt = c[i].sentAt
<1> DEFINE k == BytesFor(time)
           w == idx.written
           e == Covering(idx, k)
<1>1. k \in Nat /\ w \in Nat
  BY Samples DEF Laid
<1>2. At(idx, time) = IF Covered(idx, k) /\ e.capturedAt # 0
                      THEN [ok |-> TRUE, capturedAt |-> e.capturedAt - Back(e, k), sentAt |-> e.sentAt]
                      ELSE [ok |-> FALSE, capturedAt |-> 0, sentAt |-> 0]
  BY DEF At, Unknown
<1>3. ASSUME Covered(idx, k)
      PROVE  \E i \in 1..Len(c) : e = c[i]
  <2>1. Len(c) \in Nat
    BY LaidTypes
  <2>2. c # <<>> => Len(c) \in 1..Len(c)
    BY <2>1, EmptySeq DEF Laid
  <2> QED
    BY <1>1, <1>3, <2>2, CoveringOf
<1>4. ASSUME Covered(idx, k)
      PROVE  /\ e.capturedAt \in Nat \ {0} /\ e.sentAt \in Nat /\ e.end \in Nat
             /\ Back(e, k) \in Nat
  <2>1. e.capturedAt \in Nat \ {0} /\ e.sentAt \in Nat /\ e.end \in Nat
    BY <1>3, <1>4, LaidTypes
  <2> HIDE DEF e
  <2>2. CASE k >= e.end
    BY <2>1, <2>2 DEF Back
  <2>3. CASE ~(k >= e.end)
    <3>1. e.end - k \in Nat
      BY <1>1, <2>1, <2>3
    <3>2. Back(e, k) = Duration(e.end - k)
      BY <2>3 DEF Back
    <3> QED
      BY <2>1, <3>1, <3>2, Durations
  <2> QED
    BY <2>2, <2>3
<1>5. ASSUME Covered(idx, k), NEW i \in 1..Len(c), Holds(c[i], k)
      PROVE  e = c[i] /\ Back(e, k) = Duration(c[i].end - k)
  <2>1. k < c[i].end /\ c[i].end <= w /\ c[i].end \in Nat
    BY <1>5, LaidTypes DEF Holds, Laid
  <2>2. k < w
    BY <1>1, <2>1
  <2>3. PICK j \in 1..Len(c) : e = c[j] /\ Holds(c[j], k)
    BY <1>1, <1>5, <2>2, CoveringOf
  <2>4. i = j
    BY <1>1, <1>5, <2>3, OneHolds
  <2> QED
    BY <1>1, <2>1, <2>3, <2>4 DEF Back
<1> HIDE DEF e, k
<1>6. CASE Covered(idx, k)
  <2>1. At(idx, time) = [ok |-> TRUE, capturedAt |-> e.capturedAt - Back(e, k), sentAt |-> e.sentAt]
    BY <1>2, <1>4, <1>6
  <2> QED
    BY <1>4, <1>5, <1>6, <2>1 DEF k
<1>7. CASE ~Covered(idx, k)
  BY <1>2, <1>7 DEF k
<1> QED
  BY <1>6, <1>7
-----------------------------------------------------------------------------
(* The writer's steps.                                                      *)
LEMMA ClockStep == ClockInv /\ IndexInv /\ [Next]_vars => ClockInv'
<1> SUFFICES ASSUME ClockInv, IndexInv, [Next]_vars PROVE ClockInv'
  OBVIOUS
<1>1. ASSUME NEW n \in ChunkSizes, NEW gap \in Gaps, Record(n, gap)
      PROVE  ClockInv'
  <2>1. n \in Nat /\ gap \in Nat /\ Duration(n) \in Nat
    BY ResultSizes, Durations
  <2>2. clock' \in Nat \ {0} /\ source' \in Nat
    BY <1>1, <2>1 DEF Record, ClockInv
  <2>3. chunks \in Seq(Chunk)
    BY DEF IndexInv, Laid
  <2> DEFINE a == Anchor(index.written, n, clock, clock', source')
  <2>4. chunks' = Append(chunks, a)
    BY <1>1 DEF Record
  <2>5. a.sourceEnd = source'
    BY DEF Anchor
  <2>6. a \in Chunk
    <3>1. index.written \in Nat /\ clock \in Nat \ {0} /\ source' # 0 /\ n > 0
      <4>1. n > 0 /\ SampleTicks <= Duration(n) /\ SampleTicks > 0 /\ SampleTicks \in Nat
        BY <2>1, Durations, ResultSizes
      <4> QED
        BY <1>1, <2>1, <4>1 DEF IndexInv, Laid, ClockInv, Record
    <3> QED
      BY <2>1, <2>2, <3>1 DEF Anchor, Chunk
  <2> HIDE DEF a
  <2>7. chunks'[Len(chunks')] = a
    BY <2>3, <2>4, <2>6, Appended
  <2> QED
    BY <2>2, <2>5, <2>7 DEF ClockInv
<1>2. CASE Reconnect
  BY <1>2 DEF Reconnect, ReconnectWith, ClockInv
<1>3. CASE UNCHANGED <<clock, source, chunks>>
  BY <1>3 DEF ClockInv
<1> QED
  BY <1>1, <1>2, <1>3 DEF Next, Send, ReportWords, ReportText, ReportMusic, Report, Read, Resolve,
     PublishTranscript, PublishMusic, connVars, vars

(* The writer may come in between: what is noted stays.                     *)
Grows ==
  /\ index.written <= index'.written
  /\ \A i \in 1..Len(chunks) : i \in 1..Len(chunks') /\ chunks'[i] = chunks[i]

WriterMoves == \E n \in ChunkSizes, gap \in Gaps : Record(n, gap)

LEMMA IndexGrows ==
  ASSUME ClockInv, IndexInv, WriterMoves \/ UNCHANGED <<index, chunks>>
  PROVE  IndexInv' /\ Grows
<1>1. ASSUME NEW n \in ChunkSizes, NEW gap \in Gaps, Record(n, gap)
      PROVE  IndexInv' /\ Grows
  <2>0. n \in Nat \ {0} /\ gap \in Nat /\ Duration(n) \in Nat /\ SampleTicks <= Duration(n)
        /\ SampleTicks \in Nat \ {0}
    BY ResultSizes, Durations
  <2>1. /\ Laid(chunks, index.written) /\ Suffix(chunks, index.entries, index.written)
        /\ index.written \in Nat
    BY DEF IndexInv, Laid
  <2> DEFINE a == Anchor(index.written, n, clock, clock', source')
             w == index.written
  <2>2. /\ clock \in Nat \ {0} /\ clock' \in Nat /\ source \in Nat /\ source' \in Nat \ {0}
        /\ source <= source' - Duration(n) /\ Duration(n) <= source'
    BY <1>1, <2>0 DEF ClockInv, Record
  <2>3. /\ a \in Chunk /\ a.start = w /\ a.end = w + n /\ a.sourceEnd = source'
    BY <2>0, <2>1, <2>2 DEF Anchor, Chunk
  <2>4. chunks' = Append(chunks, a) /\ index' = Add(index, n, clock, clock', source')
    BY <1>1 DEF Record
  <2>5. index'.written = w + n /\ index'.entries = Retained(Append(index.entries, a), w + n)
    <3>1. ~(n <= 0)
      BY <2>0
    <3>2. Add(index, n, clock, clock', source') =
            [entries |-> Retained(Append(index.entries, a), a.end), written |-> a.end]
      BY <3>1 DEF Add
    <3> QED
      BY <2>3, <2>4, <3>2
  <2> HIDE DEF a
  <2>6. chunks # <<>> => chunks[Len(chunks)].sourceEnd <= a.sourceEnd - Duration(n)
    BY <2>2, <2>3 DEF ClockInv
  <2>7. /\ Laid(Append(chunks, a), w + n)
        /\ \A i \in 1..Len(chunks) : i \in 1..Len(Append(chunks, a)) /\ Append(chunks, a)[i] = chunks[i]
    BY <2>0, <2>1, <2>2, <2>3, <2>6, AddLays
  <2>8. Suffix(Append(chunks, a), Retained(Append(index.entries, a), w + n), w + n)
    BY <2>0, <2>1, <2>3, AddKeepsSuffix
  <2>9. w <= w + n
    BY <2>0, <2>1
  <2> QED
    BY <2>4, <2>5, <2>7, <2>8, <2>9 DEF IndexInv, Grows
<1>2. ASSUME UNCHANGED <<index, chunks>>
      PROVE  IndexInv' /\ Grows
  <2>1. index.written \in Nat
    BY DEF IndexInv, Laid
  <2> QED
    BY <1>2, <2>1 DEF IndexInv, Grows
<1> QED
  BY <1>1, <1>2 DEF WriterMoves

LEMMA IndexStep == ClockInv /\ IndexInv /\ [Next]_vars => IndexInv'
<1> SUFFICES ASSUME ClockInv, IndexInv, [Next]_vars PROVE IndexInv'
  OBVIOUS
<1>1. CASE WriterMoves \/ UNCHANGED <<index, chunks>>
  BY <1>1, IndexGrows
<1>2. CASE Reconnect
  <2>1. chunks' = <<>> /\ index'.entries = <<>> /\ index'.written = 0
    BY <1>2 DEF Reconnect, ReconnectWith, FreshIndex
  <2>2. <<>> \in Seq(Chunk) /\ Len(<<>>) = 0
    BY EmptySeq
  <2>3. Laid(<<>>, 0)
    BY <2>2 DEF Laid, Ordered
  <2>4. Suffix(<<>>, <<>>, 0)
    BY <2>2 DEF Suffix, Dropped
  <2> QED
    BY <2>1, <2>3, <2>4 DEF IndexInv
<1> QED
  BY <1>1, <1>2 DEF WriterMoves, Next, Send, ReportWords, ReportText, ReportMusic, Report, Read,
     Resolve, PublishTranscript, PublishMusic, connVars, vars

LEMMA IndexInit == Init => IndexInv /\ ClockInv
<1> SUFFICES ASSUME Init PROVE IndexInv /\ ClockInv
  OBVIOUS
<1>1. chunks = <<>> /\ index.entries = <<>> /\ index.written = 0
  BY DEF Init, FreshIndex
<1>2. <<>> \in Seq(Chunk) /\ Len(<<>>) = 0
  BY EmptySeq
<1>3. Laid(<<>>, 0)
  BY <1>2 DEF Laid, Ordered
<1>4. Suffix(<<>>, <<>>, 0)
  BY <1>2 DEF Suffix, Dropped
<1> QED
  BY <1>1, <1>3, <1>4 DEF IndexInv, ClockInv, Init

(* Recent audio resolves, and to the chunk that carried it.                 *)
THEOREM IndexAnchorsRecentAudio == Spec => []RecentAudioIsAnchored
<1>1. ASSUME IndexInv, NEW i \in 1..Len(chunks), NEW k \in chunks[i].start..(chunks[i].end - 1)
      PROVE  LET found == SourceAt(index, Duration(k))
                 stamps == At(index, Duration(k))
             IN  /\ (k >= index.written - Window /\ Len(chunks) - i < MaxAnchors) => found.ok
                 /\ found.ok => found.at = Position(k)
                 /\ stamps.ok = found.ok
                 /\ stamps.ok =>
                      /\ stamps.capturedAt = chunks[i].capturedAt - Duration(chunks[i].end - k)
                      /\ stamps.sentAt = chunks[i].sentAt
  <2> DEFINE w == index.written
             e == index.entries
             b == Dropped(chunks, e)
  <2>1. Laid(chunks, w) /\ Suffix(chunks, e, w)
    BY <1>1 DEF IndexInv
  <2>2. /\ w \in Nat /\ Len(chunks) \in Nat /\ chunks[i].start \in Nat /\ chunks[i].end \in Nat
        /\ chunks[i].end <= w
    BY <1>1, <2>1, LaidTypes DEF Laid
  <2>3. k \in Nat /\ Holds(chunks[i], k) /\ k < w
    BY <1>1, <2>2 DEF Holds
  <2>4. Duration(k) \in Nat /\ BytesFor(Duration(k)) = k
    BY <2>3, Durations, Samples
  <2>5. /\ SourceAt(index, Duration(k)).ok <=> Covered(index, k)
        /\ SourceAt(index, Duration(k)).ok => SourceAt(index, Duration(k)).at = Position(k)
        /\ SourceAt(index, Duration(k)).ok \in BOOLEAN
    <3>1. Reach(chunks, w, k) = Position(k)
      BY <2>3 DEF Reach, Position, PositionIn, Holds
    <3> HIDE DEF w, e
    <3> QED
      BY <2>1, <2>4, <3>1, SourceAtPlaces DEF w, e
  <2>6. /\ At(index, Duration(k)).ok <=> Covered(index, k)
        /\ At(index, Duration(k)).ok \in BOOLEAN
        /\ At(index, Duration(k)).ok =>
             /\ At(index, Duration(k)).capturedAt = chunks[i].capturedAt - Duration(chunks[i].end - k)
             /\ At(index, Duration(k)).sentAt = chunks[i].sentAt
    <3> HIDE DEF w, e
    <3>1. At(index, Duration(k)) \in [ok : BOOLEAN, capturedAt : Int, sentAt : Nat]
      BY <2>1, <2>4, AtStamps DEF w, e
    <3>2. /\ At(index, Duration(k)).ok <=> Covered(index, k)
          /\ At(index, Duration(k)).ok =>
               /\ At(index, Duration(k)).capturedAt = chunks[i].capturedAt - Duration(chunks[i].end - k)
               /\ At(index, Duration(k)).sentAt = chunks[i].sentAt
      <4>1. /\ At(index, Duration(k)).ok <=> Covered(index, BytesFor(Duration(k)))
            /\ At(index, Duration(k)).ok /\ Holds(chunks[i], BytesFor(Duration(k))) =>
               /\ At(index, Duration(k)).capturedAt =
                    chunks[i].capturedAt - Duration(chunks[i].end - BytesFor(Duration(k)))
               /\ At(index, Duration(k)).sentAt = chunks[i].sentAt
        BY <2>1, <2>4, AtStamps DEF w, e
      <4> QED
        BY <2>3, <2>4, <4>1, Zenon
    <3> QED
      BY <3>1, <3>2
  <2>7. ASSUME k >= w - Window, Len(chunks) - i < MaxAnchors
        PROVE  Covered(index, k)
    <3>0. Window \in Nat /\ MaxAnchors \in Nat
      BY AnchorSizes
    <3>1. /\ e \in Seq(Chunk) /\ Len(e) \in Nat /\ b = Len(chunks) - Len(e) /\ b \in Nat
          /\ e # <<>> /\ Len(e) > 0
      <4>1. e \in Seq(Chunk) /\ Len(e) <= Len(chunks) /\ (chunks # <<>> => e # <<>>)
        BY <2>1 DEF Suffix
      <4>2. chunks # <<>>
        BY <2>2
      <4>3. Len(e) \in Nat \ {0}
        BY <4>1, <4>2, EmptySeq
      <4> HIDE DEF e
      <4> QED
        BY <2>2, <4>1, <4>2, <4>3 DEF Dropped
    <3>2. ~(i <= b)
      <4> SUFFICES ASSUME i <= b PROVE FALSE
        OBVIOUS
      <4>1. i \in 1..b
        BY <3>1
      <4>2. w - chunks[i].end > Window \/ Len(chunks) - i >= MaxAnchors
        BY <2>1, <4>1 DEF Suffix
      <4> HIDE DEF w, e, b
      <4> QED
        BY <2>2, <2>3, <2>7, <3>0, <4>2 DEF Holds
    <3>3. 1 \in 1..Len(e) /\ e[1] = chunks[1 + b] /\ 1 + b \in 1..Len(chunks)
      <4>1. 1 \in 1..Len(e) /\ 1 + b \in 1..Len(chunks)
        BY <2>2, <3>1
      <4> QED
        BY <2>1, <4>1 DEF Suffix
    <3>4. e[1].start <= k
      <4>1. CASE i = 1 + b
        BY <2>3, <3>3, <4>1 DEF Holds
      <4>2. CASE 1 + b < i
        <5>1. chunks[1 + b].end <= chunks[i].start /\ chunks[1 + b].start < chunks[1 + b].end
          BY <2>1, <3>3, <4>2 DEF Laid, Ordered
        <5>2. chunks[1 + b].end \in Nat /\ chunks[1 + b].start \in Nat
          BY <2>1, <3>3, LaidTypes
        <5> HIDE DEF w, e, b
        <5> QED
          BY <2>2, <2>3, <3>3, <5>1, <5>2 DEF Holds
      <4>3. i = 1 + b \/ 1 + b < i
        <5> HIDE DEF b
        <5>1. i \in Nat /\ b \in Nat
          BY <2>2, <3>1
        <5> QED
          BY <3>2, <5>1
      <4> QED
        BY <4>1, <4>2, <4>3
    <3>5. e[1].start \in Nat
      BY <2>1, <3>3, LaidTypes
    <3> QED
      BY <2>3, <3>1, <3>4, <3>5 DEF Covered
  <2> HIDE DEF w, e, b
  <2> QED
    BY <2>5, <2>6, <2>7 DEF w
<1>2. IndexInv => RecentAudioIsAnchored
  BY <1>1 DEF RecentAudioIsAnchored
<1> QED
  BY <1>2, IndexInit, IndexStep, ClockStep, PTL DEF Spec
-----------------------------------------------------------------------------
(* Messages.                                                                *)
LEMMA TimedWord ==
  ASSUME delivered \in Nat, NEW t \in Nat, NEW w \in Timed(t)
  PROVE  /\ w \in WordTimes /\ t <= w.start /\ w.start < Duration(delivered)
         /\ w.start < w.end /\ w.end <= Duration(delivered) + Rounding
         /\ BytesFor(w.end) # 0 /\ delivered # 0
<1>1. Duration(delivered) \in Nat /\ Rounding \in Nat /\ Duration(0) = 0
  BY Durations, ResultSizes
<1>2. PICK s \in t..(Duration(delivered) - 1), e \in (t + 1)..(Duration(delivered) + Rounding) :
        w = Word(s, e) /\ w.start < w.end /\ BytesFor(w.end) # 0
  BY DEF Timed, WordFrom, Limit
<1>3. w.start = s /\ w.end = e /\ s \in Nat /\ e \in Nat /\ w = [start |-> s, end |-> e]
  BY <1>1, <1>2 DEF Word
<1>4. w \in WordTimes
  BY <1>3 DEF WordTimes
<1>5. t <= s /\ s < Duration(delivered) /\ e <= Duration(delivered) + Rounding
  BY <1>1, <1>2
<1>6. delivered # 0
  BY <1>1, <1>3, <1>5
<1> QED
  BY <1>2, <1>3, <1>4, <1>5, <1>6

LEMMA SensibleGrows ==
  ASSUME NEW m, NEW n \in Nat, NEW v \in Nat, n <= v, Sensible(m, n)
  PROVE  Sensible(m, v)
BY DEF Sensible, MessageType

LEMMA NothingIsSensible ==
  /\ \A n : Sensible(Nothing, n)
  /\ Nothing.kind = "none" /\ Nothing.kind \notin Spoken
  /\ Unpublished.of = Nothing
BY DEF Sensible, Nothing, Unpublished, Spoken

(* What the recognizer has to say.                                          *)
LEMMA ReportSensible ==
  ASSUME FlowInv, ReportWords \/ ReportText \/ ReportMusic
  PROVE  /\ Sensible(socket', delivered) /\ socket' # Nothing
         /\ socket = Nothing /\ reader = "read"
         /\ reported' \in Nat /\ reported' <= Duration(delivered) + Rounding
         /\ socket'.kind \in Spoken => reported' = socket'.end /\ reported <= socket'.start
         /\ socket'.kind \notin Spoken => reported' = reported
         /\ UNCHANGED <<clock, source, connVars, readerVars>>
<1>0. /\ delivered \in Nat /\ Duration(delivered) \in Nat /\ Rounding \in Nat
      /\ reported \in Nat /\ reported <= Duration(delivered) + Rounding
  BY Durations, ResultSizes DEF FlowInv
<1> DEFINE Msg(kind, words, start, end) ==
             [kind |-> kind, words |-> words, start |-> start, end |-> end, covers |-> delivered]
<1>1. ASSUME NEW kind \in {"words", "text", "music"}, NEW words \in Seq(WordTimes),
             NEW start \in Nat, NEW end \in Nat, Report(kind, words, start, end),
             delivered # 0, kind # "music" => start < Duration(delivered),
             kind = "words" => Len(words) > 0 /\ WordsInOrder(Msg(kind, words, start, end)),
             kind # "words" => words = <<>>,
             kind = "text" => start < end /\ BytesFor(end) # 0,
             kind = "music" => start = end,
             kind # "music" => reported <= start /\ end <= Duration(delivered) + Rounding
      PROVE  /\ Sensible(socket', delivered) /\ socket' # Nothing
             /\ socket = Nothing /\ reader = "read"
             /\ reported' \in Nat /\ reported' <= Duration(delivered) + Rounding
             /\ socket'.kind \in Spoken => reported' = socket'.end /\ reported <= socket'.start
             /\ socket'.kind \notin Spoken => reported' = reported
             /\ UNCHANGED <<clock, source, connVars, readerVars>>
  <2>1. /\ socket' = Msg(kind, words, start, end)
        /\ socket = Nothing /\ reader = "read"
        /\ reported' = IF kind = "music" THEN reported ELSE end
        /\ UNCHANGED <<clock, source, connVars, readerVars>>
    BY <1>1 DEF Report
  <2> DEFINE m == Msg(kind, words, start, end)
  <2>2. m \in MessageType
    BY <1>0, <1>1 DEF MessageType
  <2>3. m.kind = kind /\ m.words = words /\ m.start = start /\ m.end = end /\ m.covers = delivered
    OBVIOUS
  <2>4. m # Nothing
    BY <1>1, <2>3, NothingIsSensible
  <2> HIDE DEF m
  <2>5. Sensible(m, delivered)
    BY <1>0, <1>1, <2>2, <2>3 DEF Sensible, m
  <2>6. socket' = m
    BY <2>1 DEF m
  <2>7. kind \in Spoken <=> kind # "music"
    BY <1>1 DEF Spoken
  <2> QED
    BY <1>0, <1>1, <2>1, <2>3, <2>4, <2>5, <2>6, <2>7
<1> HIDE DEF Msg
<1>2. ASSUME NEW w \in Timed(reported), Report("words", <<w>>, w.start, w.end)
      PROVE  <<w>> \in Seq(WordTimes) /\ WordsInOrder(Msg("words", <<w>>, w.start, w.end))
  <2>1. /\ w \in WordTimes /\ w.start < Duration(delivered) /\ w.start < w.end /\ BytesFor(w.end) # 0
    BY <1>0, TimedWord
  <2>2. Len(<<w>>) = 1 /\ <<w>>[1] = w /\ <<w>> \in Seq(WordTimes) /\ \A i \in 1..1 : i = 1
    BY <2>1
  <2>3. w.start \in Nat /\ w.end \in Nat
    BY <2>1 DEF WordTimes
  <2> QED
    BY <2>1, <2>2, <2>3 DEF WordsInOrder, Msg
<1>3. ASSUME NEW w \in Timed(reported), NEW v \in Timed(w.end), Report("words", <<w, v>>, w.start, v.end)
      PROVE  <<w, v>> \in Seq(WordTimes) /\ WordsInOrder(Msg("words", <<w, v>>, w.start, v.end))
  <2>1. /\ w \in WordTimes /\ w.start < Duration(delivered) /\ w.start < w.end /\ BytesFor(w.end) # 0
        /\ w.start \in Nat /\ w.end \in Nat
    BY <1>0, TimedWord DEF WordTimes
  <2>2. /\ v \in WordTimes /\ v.start < Duration(delivered) /\ v.start < v.end /\ w.end <= v.start
        /\ BytesFor(v.end) # 0
        /\ v.start \in Nat /\ v.end \in Nat
    BY <1>0, <2>1, TimedWord DEF WordTimes
  <2>3. /\ Len(<<w, v>>) = 2 /\ <<w, v>>[1] = w /\ <<w, v>>[2] = v /\ <<w, v>> \in Seq(WordTimes)
        /\ \A i \in 1..2 : i = 1 \/ i = 2
    BY <2>1, <2>2
  <2>4. w.start <= v.start /\ w.end <= v.end
    BY <2>1, <2>2
  <2> DEFINE m == Msg("words", <<w, v>>, w.start, v.end)
  <2>5. m.words = <<w, v>> /\ m.start = w.start /\ m.end = v.end /\ m.covers = delivered
    BY DEF Msg
  <2> HIDE DEF m
  <2>6. \A i \in 1..Len(m.words) :
          /\ m.words[i].start < m.words[i].end /\ BytesFor(m.words[i].end) # 0
          /\ m.words[i].start < Duration(m.covers)
          /\ m.start <= m.words[i].start /\ m.words[i].end <= m.end
    BY <2>1, <2>2, <2>3, <2>4, <2>5
  <2>7. \A i, j \in 1..Len(m.words) : i < j => m.words[i].end <= m.words[j].start
    BY <2>1, <2>2, <2>3, <2>5
  <2> QED
    BY <2>3, <2>6, <2>7 DEF WordsInOrder, m
<1>4. CASE ReportWords
  <2>1. PICK w \in Timed(reported) :
          \/ Report("words", <<w>>, w.start, w.end)
          \/ \E v \in Timed(w.end) : Report("words", <<w, v>>, w.start, v.end)
    BY <1>4 DEF ReportWords
  <2>2. /\ w \in WordTimes /\ w.start \in Nat /\ w.end \in Nat /\ reported <= w.start
        /\ w.start < Duration(delivered) /\ delivered # 0 /\ w.end <= Duration(delivered) + Rounding
    BY <1>0, TimedWord DEF WordTimes
  <2>3. CASE Report("words", <<w>>, w.start, w.end)
    <3>1. Len(<<w>>) > 0
      OBVIOUS
    <3> QED
      BY <1>1, <1>2, <2>2, <2>3, <3>1 DEF Msg
  <2>4. CASE \E v \in Timed(w.end) : Report("words", <<w, v>>, w.start, v.end)
    <3>1. PICK v \in Timed(w.end) : Report("words", <<w, v>>, w.start, v.end)
      BY <2>4
    <3>2. v.end \in Nat /\ v.end <= Duration(delivered) + Rounding /\ Len(<<w, v>>) > 0
      BY <1>0, <2>2, TimedWord DEF WordTimes
    <3> QED
      BY <1>1, <1>3, <2>2, <3>1, <3>2 DEF Msg
  <2> QED
    BY <2>1, <2>3, <2>4
<1>5. CASE ReportText
  <2>1. PICK w \in Timed(reported) : Report("text", <<>>, w.start, w.end)
    BY <1>5 DEF ReportText
  <2>2. /\ w.start \in Nat /\ w.end \in Nat /\ reported <= w.start /\ w.start < w.end
        /\ w.start < Duration(delivered) /\ delivered # 0 /\ w.end <= Duration(delivered) + Rounding
        /\ BytesFor(w.end) # 0
    BY <1>0, TimedWord DEF WordTimes
  <2>3. <<>> \in Seq(WordTimes)
    BY EmptySeq
  <2> QED
    BY <1>1, <2>1, <2>2, <2>3
<1>6. CASE ReportMusic
  <2>1. PICK at \in 0..Limit : Report("music", <<>>, at, at)
    BY <1>6, ResultSizes DEF ReportMusic
  <2>2. at \in Nat /\ delivered # 0
    BY <1>0, <1>6 DEF ReportMusic, Limit
  <2>3. <<>> \in Seq(WordTimes)
    BY EmptySeq
  <2> QED
    BY <1>1, <2>1, <2>2, <2>3
<1> QED
  BY <1>4, <1>5, <1>6

LEMMA FlowInit == Init => FlowInv
<1> SUFFICES ASSUME Init PROVE FlowInv
  OBVIOUS
<1>1. Duration(0) = 0 /\ Rounding \in Nat /\ 1 \in 1..MaxConns
  BY Durations, ResultSizes
<1> QED
  BY <1>1, NothingIsSensible DEF Init, FlowInv, FreshIndex

LEMMA FlowStep == ClockInv /\ IndexInv /\ FlowInv /\ [Next]_vars => FlowInv'
<1> SUFFICES ASSUME ClockInv, IndexInv, FlowInv, [Next]_vars PROVE FlowInv'
  OBVIOUS
<1>0. /\ index.written \in Nat /\ delivered \in Nat /\ Duration(delivered) \in Nat /\ Rounding \in Nat
      /\ delivered <= index.written
  BY Durations, ResultSizes DEF IndexInv, Laid, FlowInv
<1>1. CASE WriterMoves
  <2>1. index'.written \in Nat /\ index.written <= index'.written
    BY <1>1, IndexGrows DEF Grows, IndexInv, Laid
  <2>2. delivered <= index'.written
    BY <1>0, <2>1
  <2>3. /\ writer' = "send"
        /\ UNCHANGED <<conn, delivered, reported, socket, reader, message, published>>
    BY <1>1 DEF WriterMoves, Record, recognizerVars, readerVars
  <2> QED
    BY <2>2, <2>3 DEF FlowInv
<1>2. CASE Send
  <2>1. /\ delivered' = index.written /\ writer' = "pop"
        /\ UNCHANGED <<conn, index, reported, socket, reader, message, published>>
    BY <1>2 DEF Send, recognizerVars, readerVars
  <2>2. /\ Sensible(socket, index.written) /\ Sensible(message, index.written)
        /\ Sensible(published.of, index.written)
    BY <1>0, SensibleGrows DEF FlowInv
  <2>3. reported <= Duration(index.written) + Rounding
    <3>1. Duration(index.written) \in Nat /\ Duration(delivered) <= Duration(index.written)
      BY <1>0, Durations
    <3> QED
      BY <1>0, <3>1 DEF FlowInv
  <2> QED
    BY <1>0, <2>1, <2>2, <2>3 DEF FlowInv
<1>3. CASE ReportWords \/ ReportText \/ ReportMusic
  <2>1. /\ Sensible(socket', delivered) /\ socket' # Nothing
        /\ socket = Nothing /\ reader = "read"
        /\ reported' \in Nat /\ reported' <= Duration(delivered) + Rounding
        /\ socket'.kind \in Spoken => reported' = socket'.end
        /\ UNCHANGED <<conn, index, writer, delivered, reader, message, published>>
    BY <1>3, ReportSensible DEF connVars, readerVars
  <2>2. message = Nothing
    BY <2>1 DEF FlowInv
  <2> QED
    BY <2>1, <2>2, NothingIsSensible DEF FlowInv
<1>4. CASE Read
  <2>1. /\ reader = "read" /\ socket # Nothing /\ message' = socket /\ socket' = Nothing
        /\ reader' = "resolve" /\ published' = Unpublished
        /\ UNCHANGED <<conn, index, writer, delivered, reported>>
    BY <1>4 DEF Read, connVars
  <2> QED
    BY <2>1, NothingIsSensible DEF FlowInv
<1>5. CASE Resolve
  BY <1>5 DEF Resolve, FlowInv, connVars, recognizerVars
<1>6. CASE PublishTranscript
  <2>1. /\ reader = "resolve" /\ reader' = "read" /\ message' = Nothing
        /\ published'.of = message
        /\ UNCHANGED <<conn, index, writer, delivered, reported, socket>>
    BY <1>6 DEF PublishTranscript, NextMessage, connVars, recognizerVars
  <2> QED
    BY <2>1, NothingIsSensible DEF FlowInv
<1>7. CASE PublishMusic
  <2>1. /\ reader = "resolve" /\ reader' = "read" /\ message' = Nothing
        /\ published'.of = message \/ published'.of = Nothing
        /\ UNCHANGED <<conn, index, writer, delivered, reported, socket>>
    BY <1>7 DEF PublishMusic, NextMessage, connVars, recognizerVars, Unpublished
  <2> QED
    BY <2>1, NothingIsSensible DEF FlowInv
<1>8. CASE Reconnect
  <2>1. /\ conn < MaxConns /\ conn' = conn + 1 /\ delivered' = 0 /\ writer' = "pop"
        /\ reported' = 0 /\ socket' = Nothing /\ reader' = "read" /\ message' = Nothing
        /\ published' = Unpublished /\ index'.written = 0
    BY <1>8 DEF Reconnect, ReconnectWith, NextMessage, FreshIndex
  <2>2. conn' \in 1..MaxConns
    BY <2>1, ResultSizes DEF FlowInv
  <2>3. Duration(0) = 0
    BY Durations
  <2> QED
    BY <1>0, <2>1, <2>2, <2>3, NothingIsSensible DEF FlowInv
<1>9. CASE UNCHANGED vars
  BY <1>9 DEF vars, FlowInv, connVars, recognizerVars, readerVars
<1> QED
  BY <1>1, <1>2, <1>3, <1>4, <1>5, <1>6, <1>7, <1>8, <1>9 DEF Next, WriterMoves
-----------------------------------------------------------------------------
(* Lookups.  A text without timing is looked up like its only word.         *)
TimesOf(m) == IF m.kind = "text" THEN <<[start |-> m.start, end |-> m.end]>> ELSE m.words

LEMMA TimesInOrder ==
  ASSUME NEW m, NEW n, m # Nothing, Sensible(m, n), m.kind # "music"
  PROVE  LET ts == TimesOf(m) IN
         /\ ts \in Seq(WordTimes) /\ Len(ts) \in Nat /\ Len(ts) > 0
         /\ \A i \in 1..Len(ts) : /\ ts[i] \in WordTimes /\ ts[i].start \in Nat /\ ts[i].end \in Nat
                                  /\ ts[i].start < ts[i].end /\ ts[i].start < Duration(m.covers)
                                  /\ BytesFor(ts[i].end) # 0
                                  /\ m.start <= ts[i].start /\ ts[i].end <= m.end
         /\ \A i, j \in 1..Len(ts) : i < j => ts[i].end <= ts[j].start
<1> DEFINE ts == TimesOf(m)
<1>1. m \in MessageType /\ m.start \in Nat /\ m.end \in Nat /\ m.words \in Seq(WordTimes)
  BY DEF Sensible, MessageType
<1>2. CASE m.kind = "text"
  <2> DEFINE t == [start |-> m.start, end |-> m.end]
  <2>1. /\ t \in WordTimes /\ t.start = m.start /\ t.end = m.end
        /\ m.start < m.end /\ m.start < Duration(m.covers) /\ BytesFor(m.end) # 0
    BY <1>1, <1>2 DEF Sensible, WordTimes
  <2>2. ts = <<t>>
    BY <1>2 DEF TimesOf
  <2> HIDE DEF t, ts
  <2>3. ts \in Seq(WordTimes) /\ Len(ts) = 1 /\ ts[1] = t /\ \A i \in 1..1 : i = 1
    BY <2>1, <2>2
  <2> QED
    BY <1>1, <2>1, <2>3 DEF ts
<1>3. CASE m.kind = "words"
  <2>1. ts = m.words /\ WordsInOrder(m) /\ Len(ts) > 0
    BY <1>3 DEF TimesOf, Sensible
  <2> HIDE DEF ts
  <2>2. ts \in Seq(WordTimes) /\ Len(ts) \in Nat /\ \A i \in 1..Len(ts) : ts[i] \in WordTimes
    BY <1>1, <2>1, LenProperties, ElementOfSeq
  <2> QED
    BY <2>1, <2>2 DEF WordsInOrder, WordTimes, ts
<1> QED
  BY <1>1, <1>2, <1>3 DEF MessageType

LEMMA LookupsOf ==
  ASSUME NEW m, NEW n, m # Nothing, Sensible(m, n)
  PROVE  /\ Lookups(m) \in Seq(Nat)
         /\ m.kind = "music" => Len(Lookups(m)) = 1 /\ Lookups(m)[1] = m.start
         /\ m.kind # "music" =>
              /\ Len(Lookups(m)) = 1 + 2 * Len(TimesOf(m))
              /\ \A i \in 1..Len(TimesOf(m)) :
                   /\ Lookups(m)[2 * i] = TimesOf(m)[i].start
                   /\ Lookups(m)[2 * i + 1] = TimesOf(m)[i].end
<1>1. /\ m \in MessageType /\ m.start \in Nat /\ m.end \in Nat /\ m.words \in Seq(WordTimes)
      /\ m.kind \in {"words", "text", "music"}
  BY DEF Sensible, MessageType
<1>2. CASE m.kind = "music"
  <2>1. Lookups(m) = <<m.start>>
    BY <1>2 DEF Lookups
  <2> QED
    BY <1>1, <1>2, <2>1
<1>3. CASE m.kind = "text"
  <2>1. Lookups(m) = <<m.end, m.start, m.end>>
    BY <1>3 DEF Lookups
  <2>2. TimesOf(m) = <<[start |-> m.start, end |-> m.end]>>
    BY <1>3 DEF TimesOf
  <2>3. Lookups(m) \in Seq(Nat) /\ Len(Lookups(m)) = 3
        /\ Lookups(m)[2] = m.start /\ Lookups(m)[3] = m.end
    BY <1>1, <2>1
  <2>4. Len(TimesOf(m)) = 1 /\ TimesOf(m)[1].start = m.start /\ TimesOf(m)[1].end = m.end
        /\ \A i \in 1..1 : i = 1
    BY <2>2
  <2> QED
    BY <1>3, <2>3, <2>4
<1>4. CASE m.kind = "words"
  <2> DEFINE l == Len(m.words)
             f == [i \in 1..(2 * l) |->
                     LET w == m.words[(i + 1) \div 2] IN IF i % 2 = 1 THEN w.start ELSE w.end]
  <2>1. /\ l \in Nat
        /\ \A j \in 1..l : m.words[j] \in WordTimes
        /\ \A j \in 1..l : m.words[j].start \in Nat /\ m.words[j].end \in Nat
    <3>1. l \in Nat
      BY <1>1, LenProperties
    <3>2. \A j \in 1..l : m.words[j] \in WordTimes
      BY <1>1, ElementOfSeq
    <3> QED
      BY <3>1, <3>2 DEF WordTimes
  <2>2. Lookups(m) = <<m.end>> \o f
    BY <1>4 DEF Lookups
  <2>3. TimesOf(m) = m.words
    BY <1>4 DEF TimesOf
  <2> HIDE DEF l
  <2>4. \A i \in 1..(2 * l) : (i + 1) \div 2 \in 1..l
    BY <2>1
  <2>5. f \in [1..(2 * l) -> Nat] /\ 2 * l \in Nat
    BY <2>1, <2>4
  <2>6. f \in Seq(Nat) /\ Len(f) = 2 * l
    <3> HIDE DEF f
    <3> QED
      BY <2>5
  <2>7. \A i \in 1..l : f[2 * i - 1] = m.words[i].start /\ f[2 * i] = m.words[i].end
    <3> TAKE i \in 1..l
    <3>1. /\ 2 * i - 1 \in 1..(2 * l) /\ 2 * i \in 1..(2 * l)
          /\ (2 * i - 1) % 2 = 1 /\ (2 * i) % 2 = 0
          /\ ((2 * i - 1) + 1) \div 2 = i /\ (2 * i + 1) \div 2 = i
      BY <2>1
    <3> QED
      BY <3>1
  <2> HIDE DEF f
  <2>8. PICK one \in Seq(Nat) : one = <<m.end>> /\ Len(one) = 1
    BY <1>1, SingleSeq
  <2>9. /\ one \o f \in Seq(Nat) /\ Len(one \o f) = 1 + 2 * l
        /\ \A i \in 1 .. 1 + 2 * l : (one \o f)[i] = IF i <= 1 THEN one[i] ELSE f[i - 1]
    BY <2>6, <2>8, ConcatProperties
  <2>10. Lookups(m) = one \o f
    BY <2>2, <2>8
  <2>11. \A i \in 1..l : /\ Lookups(m)[2 * i] = m.words[i].start
                         /\ Lookups(m)[2 * i + 1] = m.words[i].end
    <3> TAKE i \in 1..l
    <3>1. /\ 2 * i \in 1 .. 1 + 2 * l /\ 2 * i + 1 \in 1 .. 1 + 2 * l
          /\ ~(2 * i <= 1) /\ ~(2 * i + 1 <= 1) /\ (2 * i + 1) - 1 = 2 * i
      BY <2>1
    <3>2. (one \o f)[2 * i] = f[2 * i - 1] /\ (one \o f)[2 * i + 1] = f[(2 * i + 1) - 1]
      BY <2>9, <3>1
    <3> QED
      BY <2>7, <2>10, <3>1, <3>2
  <2> QED
    BY <1>4, <2>3, <2>9, <2>10, <2>11 DEF l
<1> QED
  BY <1>1, <1>2, <1>3, <1>4

(* Whatever is looked up is located.                                        *)
LEMMA ReachLocated ==
  ASSUME NEW c, NEW w, Laid(c, w), NEW n \in Nat \ {0}, n <= w, NEW time \in Nat
  PROVE  Located(c, w, n, time, Reach(c, w, BytesFor(time)))
<1> DEFINE k == BytesFor(time)
<1>0. w \in Nat /\ w > 0 /\ k \in Nat /\ SampleTicks \in Nat /\ w - 1 \in 0..(w - 1)
  <2>1. w \in Nat /\ k \in Nat /\ SampleTicks \in Nat
    BY Samples DEF Laid
  <2> QED
    BY <2>1
<1> HIDE DEF k
<1>1. Reach(c, w, k) \in Nat
  BY <1>0, ReachGrows
<1>2. k < n => Reach(c, w, k) = PositionIn(c, k)
  <2>1. k < n => k < w
    BY <1>0
  <2> QED
    BY <2>1 DEF Reach
<1>3. Reach(c, w, k) <= Reach(c, w, k)
  BY <1>1
<1>4. ASSUME k # 0
      PROVE  Reach(c, w, k) >= PositionIn(c, Min({k, n}) - 1) + SampleTicks
  <2> DEFINE j == Min({k, n}) - 1
  <2>1. j \in 0..(w - 1) /\ j < k /\ j <= w - 1
    BY <1>0, <1>4, MinOfTwo
  <2> HIDE DEF j
  <2>2. CASE k < w
    <3>1. k \in 0..(w - 1)
      BY <1>0, <2>2
    <3>2. PositionIn(c, j) + SampleTicks <= PositionIn(c, k) /\ PositionIn(c, j) \in Nat
      BY <2>1, <3>1, Spacing
    <3> QED
      BY <1>0, <1>1, <2>2, <3>2 DEF Reach, j
  <2>3. CASE ~(k < w)
    <3>1. PositionIn(c, j) <= PositionIn(c, w - 1) /\ PositionIn(c, j) \in Nat
      BY <1>0, <2>1, Spacing
    <3>2. PositionIn(c, w - 1) \in Nat
      BY <1>0, Spacing
    <3> QED
      BY <1>0, <1>1, <2>3, <3>1, <3>2 DEF Reach, j
  <2> QED
    BY <2>2, <2>3
<1> QED
  BY <1>1, <1>2, <1>3, <1>4 DEF Located, k

LEMMA LookupLocated ==
  ASSUME IndexInv, NEW n \in Nat \ {0}, n <= index.written, NEW time \in Nat,
         SourceAt(index, time).ok
  PROVE  Located(chunks, index.written, n, time, SourceAt(index, time).at)
<1>1. Laid(chunks, index.written) /\ Suffix(chunks, index.entries, index.written)
  BY DEF IndexInv
<1>2. SourceAt(index, time).at = Reach(chunks, index.written, BytesFor(time))
  BY <1>1, SourceAtPlaces
<1> QED
  BY <1>1, <1>2, ReachLocated

LEMMA StillLocated ==
  ASSUME IndexInv, IndexInv', Grows, NEW n \in Nat \ {0}, n <= index.written,
         NEW time \in Nat, NEW at, Located(chunks, index.written, n, time, at)
  PROVE  Located(chunks', index'.written, n, time, at)
BY LocatedStays DEF IndexInv, Grows
-----------------------------------------------------------------------------
(* The reader's lookups, one after the other.                               *)
LEMMA AnswersStay ==
  ASSUME ClockInv, IndexInv, FlowInv, AnswersInv, WriterMoves \/ UNCHANGED <<index, chunks>>,
         UNCHANGED <<message, answers>>
  PROVE  AnswersInv'
<1>1. IndexInv' /\ Grows
  BY IndexGrows
<1>2. answers' \in Seq(Answer) /\ message' = message /\ answers' = answers
  BY DEF AnswersInv
<1>3. ASSUME message # Nothing
      PROVE  /\ Len(answers) <= Len(Lookups(message))
             /\ \A i \in 1..Len(answers) :
                  (i > 1 \/ message.kind = "music") =>
                    /\ answers[i] \in [ok : BOOLEAN, at : Nat]
                    /\ answers[i].ok =>
                         Located(chunks', index'.written, message.covers, Lookups(message)[i], answers[i].at)
  <2>1. Len(answers) <= Len(Lookups(message))
    BY <1>3 DEF AnswersInv
  <2>2. /\ Sensible(message, delivered) /\ delivered \in Nat /\ delivered <= index.written
        /\ index.written \in Nat
    BY DEF FlowInv, IndexInv, Laid
  <2>3. message.covers \in Nat \ {0} /\ message.covers <= index.written
    <3>1. message.covers \in Nat \ {0} /\ message.covers <= delivered
      BY <1>3, <2>2 DEF Sensible, MessageType
    <3> QED
      BY <2>2, <3>1
  <2>4. Lookups(message) \in Seq(Nat)
    BY <1>3, <2>2, LookupsOf
  <2>5. ASSUME NEW i \in 1..Len(answers), i > 1 \/ message.kind = "music"
        PROVE  /\ answers[i] \in [ok : BOOLEAN, at : Nat]
               /\ answers[i].ok =>
                    Located(chunks', index'.written, message.covers, Lookups(message)[i], answers[i].at)
    <3>1. /\ answers[i] \in [ok : BOOLEAN, at : Nat]
          /\ answers[i].ok =>
               Located(chunks, index.written, message.covers, Lookups(message)[i], answers[i].at)
      BY <1>3, <2>5 DEF AnswersInv
    <3>2. Lookups(message)[i] \in Nat
      <4>1. answers \in Seq(Answer) /\ Len(answers) \in Nat /\ Len(Lookups(message)) \in Nat
        BY <2>4, LenProperties DEF AnswersInv
      <4>2. i \in 1..Len(Lookups(message))
        BY <2>1, <4>1
      <4> QED
        BY <2>4, <4>2, ElementOfSeq
    <3> QED
      BY <1>1, <2>3, <3>1, <3>2, StillLocated
  <2> QED
    BY <2>1, <2>5
<1> QED
  BY <1>2, <1>3 DEF AnswersInv

LEMMA NoAnswers ==
  ASSUME answers' = <<>>
  PROVE  AnswersInv'
BY EmptySeq DEF AnswersInv

LEMMA AnswersStep ==
  ClockInv /\ IndexInv /\ FlowInv /\ AnswersInv /\ [Next]_vars => AnswersInv'
<1> SUFFICES ASSUME ClockInv, IndexInv, FlowInv, AnswersInv, [Next]_vars PROVE AnswersInv'
  OBVIOUS
<1>1. CASE WriterMoves
  BY <1>1, AnswersStay DEF WriterMoves, Record, readerVars
<1>2. CASE UNCHANGED <<index, chunks, message, answers>>
  BY <1>2, AnswersStay
<1>3. CASE answers' = <<>>
  BY <1>3, NoAnswers
<1>4. CASE Resolve
  <2> DEFINE l == Len(answers) + 1
             time == Lookups(message)[l]
             a == IF answers = <<>> /\ message.kind # "music" THEN At(index, time)
                  ELSE SourceAt(index, time)
  <2>1. /\ message # Nothing /\ Len(answers) < Len(Lookups(message))
        /\ answers' = Append(answers, a)
        /\ UNCHANGED <<index, chunks, message>>
    BY <1>4 DEF Resolve, FlowInv, connVars
  <2>2. /\ Sensible(message, delivered) /\ delivered \in Nat /\ delivered <= index.written
        /\ index.written \in Nat
        /\ Laid(chunks, index.written) /\ Suffix(chunks, index.entries, index.written)
    BY DEF FlowInv, IndexInv, Laid
  <2>3. message.covers \in Nat \ {0} /\ message.covers <= index.written
    <3>1. message.covers \in Nat \ {0} /\ message.covers <= delivered
      BY <2>1, <2>2 DEF Sensible, MessageType
    <3> QED
      BY <2>2, <3>1
  <2>4. Lookups(message) \in Seq(Nat)
    BY <2>1, <2>2, LookupsOf
  <2>5. answers \in Seq(Answer) /\ Len(answers) \in Nat /\ Len(Lookups(message)) \in Nat
    BY <2>4, LenProperties DEF AnswersInv
  <2>6. time \in Nat
    <3>1. l \in 1..Len(Lookups(message))
      BY <2>1, <2>5
    <3> QED
      BY <2>4, <3>1, ElementOfSeq
  <2> HIDE DEF time
  <2>7. /\ SourceAt(index, time) \in [ok : BOOLEAN, at : Nat]
        /\ At(index, time) \in [ok : BOOLEAN, capturedAt : Int, sentAt : Nat]
        /\ SourceAt(index, time).ok =>
             Located(chunks, index.written, message.covers, time, SourceAt(index, time).at)
    BY <2>2, <2>3, <2>6, SourceAtPlaces, AtStamps, LookupLocated
  <2>8. a \in Answer
    BY <2>7 DEF Answer
  <2>9. l > 1 \/ message.kind = "music" => a = SourceAt(index, time)
    <3>1. l > 1 => answers # <<>>
      BY EmptySeq
    <3> QED
      BY <3>1
  <2> HIDE DEF a
  <2>10. /\ answers' \in Seq(Answer) /\ Len(answers') = l /\ answers'[l] = a
         /\ 1..Len(answers') = (1..Len(answers)) \cup {l}
         /\ \A i \in 1..Len(answers) : answers'[i] = answers[i]
    BY <2>1, <2>5, <2>8, Appended
  <2>11. Len(answers') <= Len(Lookups(message))
    BY <2>1, <2>5, <2>10
  <2>12. ASSUME NEW i \in 1..Len(answers'), i > 1 \/ message.kind = "music"
         PROVE  /\ answers'[i] \in [ok : BOOLEAN, at : Nat]
                /\ answers'[i].ok =>
                     Located(chunks, index.written, message.covers, Lookups(message)[i], answers'[i].at)
    <3>1. CASE i \in 1..Len(answers)
      <4>1. /\ answers[i] \in [ok : BOOLEAN, at : Nat]
            /\ answers[i].ok =>
                 Located(chunks, index.written, message.covers, Lookups(message)[i], answers[i].at)
        BY <2>1, <2>12, <3>1 DEF AnswersInv
      <4> QED
        BY <2>10, <3>1, <4>1
    <3>2. CASE i = l
      <4>1. a = SourceAt(index, time) /\ Lookups(message)[i] = time /\ answers'[i] = a
        BY <2>9, <2>10, <2>12, <3>2 DEF time
      <4> QED
        BY <2>7, <4>1
    <3> QED
      BY <2>10, <3>1, <3>2
  <2> QED
    BY <2>1, <2>10, <2>11, <2>12 DEF AnswersInv
<1> QED
  BY <1>1, <1>2, <1>3, <1>4 DEF Next, WriterMoves, Send, ReportWords, ReportText, ReportMusic, Report,
     Read, PublishTranscript, PublishMusic, NextMessage, Reconnect, ReconnectWith, connVars, readerVars, vars
-----------------------------------------------------------------------------
(* What sourceTime makes of the answers.                                    *)
LEMMA IntervalPlaced ==
  ASSUME NEW c, NEW w, NEW n, NEW t \in WordTimes,
         NEW a \in [ok : BOOLEAN, at : Nat], NEW b \in [ok : BOOLEAN, at : Nat],
         a.ok => Located(c, w, n, t.start, a.at), b.ok => Located(c, w, n, t.end, b.at)
  PROVE  /\ Interval(a, b) \in WordTimes
         /\ Interval(a, b).start <= Interval(a, b).end
         /\ Put(c, w, n, t, Interval(a, b))
<1>1. a.at \in Nat /\ b.at \in Nat
  OBVIOUS
<1>2. CASE a.ok /\ b.ok /\ b.at >= a.at
  <2>1. Interval(a, b) = [start |-> a.at, end |-> b.at]
    BY <1>2 DEF Interval, Placeable
  <2> QED
    BY <1>1, <1>2, <2>1 DEF Put, WordTimes
<1>3. CASE ~(a.ok /\ b.ok /\ b.at >= a.at)
  <2>1. Interval(a, b) = [start |-> 0, end |-> 0]
    BY <1>3 DEF Interval, Placeable
  <2> QED
    BY <2>1 DEF Put, WordTimes
<1> QED
  BY <1>2, <1>3

(* What could be placed has an end, for no word ends with the first sample. *)

LEMMA PlaceableIs ==
  ASSUME NEW c, NEW w, Laid(c, w), NEW n \in Nat \ {0}, n <= w, NEW t \in WordTimes,
         BytesFor(t.end) # 0, NEW a, NEW b \in [ok : BOOLEAN, at : Nat],
         b.ok => Located(c, w, n, t.end, b.at)
  PROVE  Placeable(a, b) <=> Interval(a, b).end # 0
<1>1. CASE ~Placeable(a, b)
  BY <1>1 DEF Interval
<1>2. CASE Placeable(a, b)
  <2>1. Interval(a, b).end = b.at /\ b.ok /\ b.at \in Nat
    BY <1>2 DEF Interval, Placeable
  <2>2. PICK k \in Nat \ {0} : k = BytesFor(t.end)
    BY Samples DEF WordTimes
  <2>3. PICK k0 \in 0..(w - 1) : k0 = Min({k, n}) - 1
    <3>1. w \in Nat
      BY DEF Laid
    <3> QED
      BY <2>2, <3>1, MinOfTwo
  <2>4. b.at >= PositionIn(c, k0) + SampleTicks
    BY <2>1, <2>2, <2>3 DEF Located
  <2>5. PositionIn(c, k0) \in Nat /\ SampleTicks \in Nat \ {0}
    BY <2>3, Spacing, Samples
  <2> QED
    BY <1>2, <2>1, <2>4, <2>5
<1> QED
  BY <1>1, <1>2

(* The intervals ws of the times ts, which lie from `from' to `to', and     *)
(* what was heard before.                                                   *)
Intervals(c, w, n, ts, ws) ==
  /\ ws \in Seq(WordTimes) /\ Len(ws) = Len(ts)
  /\ \A i \in 1..Len(ws) : ws[i].start <= ws[i].end /\ Put(c, w, n, ts[i], ws[i])

LEMMA MeasuredInOrder ==
  ASSUME NEW c, NEW w, Laid(c, w), NEW n \in Nat \ {0}, n <= w,
         NEW m, m # Nothing, Sensible(m, n), m.kind # "music", m.covers = n,
         NEW ws, Intervals(c, w, n, TimesOf(m), ws),
         NEW h \in Nat, h <= Reach(c, w, BytesFor(m.start))
  PROVE  /\ \A i \in Measured(ws) : /\ i \in 1..Len(ws) /\ ws[i].start \in Nat /\ ws[i].end \in Nat
                                    /\ h <= ws[i].start /\ ws[i].start <= ws[i].end
                                    /\ ws[i].end <= Reach(c, w, BytesFor(m.end))
         /\ \A i, j \in Measured(ws) : i < j => ws[i].end <= ws[j].start
<1> DEFINE ts == TimesOf(m)
<1>1. /\ ts \in Seq(WordTimes) /\ Len(ts) \in Nat
      /\ \A i \in 1..Len(ts) : /\ ts[i].start \in Nat /\ ts[i].end \in Nat
                               /\ ts[i].start < Duration(n)
                               /\ m.start <= ts[i].start /\ ts[i].end <= m.end
      /\ \A i, j \in 1..Len(ts) : i < j => ts[i].end <= ts[j].start
  BY TimesInOrder
<1>2. /\ ws \in Seq(WordTimes) /\ Len(ws) = Len(ts)
      /\ \A i \in 1..Len(ws) : ws[i].start <= ws[i].end /\ Put(c, w, n, ts[i], ws[i])
  BY DEF Intervals
<1> HIDE DEF ts
<1>3. /\ m.start \in Nat /\ m.end \in Nat /\ w \in Nat /\ w > 0
  <2>1. m.start \in Nat /\ m.end \in Nat /\ w \in Nat
    BY DEF Sensible, MessageType, Laid
  <2> QED
    BY <2>1
<1>4. ASSUME NEW x \in Nat, NEW y \in Nat, x <= y
      PROVE  /\ Reach(c, w, BytesFor(x)) \in Nat /\ Reach(c, w, BytesFor(y)) \in Nat
             /\ Reach(c, w, BytesFor(x)) <= Reach(c, w, BytesFor(y))
  <2>1. BytesFor(x) \in Nat /\ BytesFor(y) \in Nat /\ BytesFor(x) <= BytesFor(y)
    BY <1>4, Samples
  <2>2. BytesFor(y) <= BytesFor(y)
    BY <2>1
  <2> QED
    BY <1>3, <2>1, <2>2, ReachGrows
<1>5. ASSUME NEW i \in Measured(ws)
      PROVE  /\ i \in 1..Len(ws) /\ i \in 1..Len(ts) /\ ws[i].start \in Nat /\ ws[i].end \in Nat
             /\ ws[i].start = Reach(c, w, BytesFor(ts[i].start))
             /\ ws[i].start <= ws[i].end
             /\ ws[i].end <= Reach(c, w, BytesFor(ts[i].end))
  <2>1. i \in 1..Len(ws) /\ i \in 1..Len(ts) /\ ws[i].end # 0
    BY <1>2 DEF Measured
  <2>2. ws[i] \in WordTimes
    BY <1>2, <2>1, ElementOfSeq
  <2>3. Put(c, w, n, ts[i], ws[i])
    BY <1>2, <2>1
  <2>4. ts[i].start \in Nat /\ ts[i].start < Duration(n)
    BY <1>1, <2>1
  <2>5. BytesFor(ts[i].start) < n /\ BytesFor(ts[i].start) \in Nat
    BY <2>4, Samples
  <2>6. BytesFor(ts[i].start) < w
    BY <1>3, <2>5
  <2>7. ws[i].start = PositionIn(c, BytesFor(ts[i].start))
    BY <2>1, <2>3, <2>5 DEF Put, Located
  <2>8. ws[i].end <= Reach(c, w, BytesFor(ts[i].end))
    BY <2>1, <2>3 DEF Put, Located
  <2> QED
    BY <1>2, <2>1, <2>2, <2>6, <2>7, <2>8 DEF WordTimes, Reach
<1>6. ASSUME NEW i \in Measured(ws)
      PROVE  h <= ws[i].start /\ ws[i].end <= Reach(c, w, BytesFor(m.end))
  <2>1. /\ ts[i].start \in Nat /\ ts[i].end \in Nat /\ m.start <= ts[i].start /\ ts[i].end <= m.end
    BY <1>1, <1>5
  <2>2. /\ Reach(c, w, BytesFor(m.start)) \in Nat
        /\ Reach(c, w, BytesFor(m.start)) <= Reach(c, w, BytesFor(ts[i].start))
    BY <1>3, <1>4, <2>1
  <2>3. /\ Reach(c, w, BytesFor(ts[i].end)) \in Nat /\ Reach(c, w, BytesFor(m.end)) \in Nat
        /\ Reach(c, w, BytesFor(ts[i].end)) <= Reach(c, w, BytesFor(m.end))
    BY <1>3, <1>4, <2>1
  <2>4. /\ ws[i].start \in Nat /\ ws[i].end \in Nat
        /\ ws[i].start = Reach(c, w, BytesFor(ts[i].start))
        /\ ws[i].end <= Reach(c, w, BytesFor(ts[i].end))
    BY <1>5
  <2> QED
    BY <2>2, <2>3, <2>4
<1>7. ASSUME NEW i \in Measured(ws), NEW j \in Measured(ws), i < j
      PROVE  ws[i].end <= ws[j].start
  <2>1. ts[i].end \in Nat /\ ts[j].start \in Nat /\ ts[i].end <= ts[j].start
    BY <1>1, <1>5, <1>7
  <2>2. /\ Reach(c, w, BytesFor(ts[i].end)) \in Nat
        /\ Reach(c, w, BytesFor(ts[i].end)) <= Reach(c, w, BytesFor(ts[j].start))
    BY <1>4, <2>1
  <2>3. /\ ws[i].end \in Nat /\ ws[j].start \in Nat
        /\ ws[j].start = Reach(c, w, BytesFor(ts[j].start))
        /\ ws[i].end <= Reach(c, w, BytesFor(ts[i].end))
    BY <1>5
  <2> QED
    BY <2>2, <2>3
<1> QED
  BY <1>5, <1>6, <1>7

(* The transcript sourceTime returns for the message in hand: the words it  *)
(* could place, and their bounds.                                           *)
Placements ==
  [i \in 1..(Len(answers) \div 2) |-> Interval(answers[2 * i], answers[2 * i + 1])]

Placed ==
  {i \in 1..(Len(answers) \div 2) : Placeable(answers[2 * i], answers[2 * i + 1])}

Sourced(t, ws) ==
  /\ Intervals(chunks, index.written, message.covers, TimesOf(message), ws)
  /\ t.words = IF message.kind = "text" THEN <<>> ELSE ws
  /\ t.start \in Nat /\ t.duration \in Nat
  /\ Measured(ws) = {} => t.start = 0 /\ t.duration = 0
  /\ Measured(ws) # {} => /\ Min(Measured(ws)) \in Measured(ws)
                          /\ Max(Measured(ws)) \in Measured(ws)
                          /\ t.start = ws[Min(Measured(ws))].start
                          /\ t.start + t.duration = ws[Max(Measured(ws))].end
  /\ \A i \in Measured(ws) : heard <= ws[i].start /\ ws[i].start <= ws[i].end
  /\ \A i, j \in Measured(ws) : i < j => ws[i].end <= ws[j].start
  /\ t.start + t.duration <= Reach(chunks, index.written, BytesFor(message.end))

LEMMA SourceTimePlaces ==
  ASSUME IndexInv, FlowInv, AnswersInv, HeardInv, message # Nothing, message.kind # "music",
         Len(answers) = Len(Lookups(message)),
         NEW t, t = SourceTime(message), NEW ws, ws = Placements
  PROVE  Sourced(t, ws)
<1> DEFINE c == chunks
           w == index.written
           n == message.covers
           ts == TimesOf(message)
<1>1. /\ Laid(c, w) /\ Sensible(message, delivered) /\ message \in MessageType
      /\ n \in Nat \ {0} /\ n <= w /\ w \in Nat /\ Sensible(message, n)
      /\ message.start \in Nat /\ message.end \in Nat
  <2>1. /\ Laid(c, w) /\ w \in Nat /\ Sensible(message, delivered) /\ delivered \in Nat /\ delivered <= w
    BY DEF IndexInv, Laid, FlowInv
  <2>2. /\ message \in MessageType /\ n \in Nat \ {0} /\ n <= delivered
        /\ message.start \in Nat /\ message.end \in Nat
    BY <2>1 DEF Sensible, MessageType
  <2>3. Sensible(message, n)
    BY <2>1, <2>2 DEF Sensible
  <2>4. n <= w
    BY <2>1, <2>2
  <2> QED
    BY <2>1, <2>2, <2>3, <2>4
<1>2. /\ ts \in Seq(WordTimes) /\ Len(ts) \in Nat
      /\ \A i \in 1..Len(ts) : ts[i] \in WordTimes /\ BytesFor(ts[i].end) # 0
      /\ Len(answers) = 1 + 2 * Len(ts)
      /\ \A i \in 1..Len(ts) : /\ Lookups(message)[2 * i] = ts[i].start
                               /\ Lookups(message)[2 * i + 1] = ts[i].end
  BY <1>1, TimesInOrder, LookupsOf
<1> HIDE DEF ts
<1>3. Len(answers) \div 2 = Len(ts)
  BY <1>2
<1>4. ASSUME NEW i \in 1..Len(ts)
      PROVE  /\ Interval(answers[2 * i], answers[2 * i + 1]) \in WordTimes
             /\ Interval(answers[2 * i], answers[2 * i + 1]).start <= Interval(answers[2 * i], answers[2 * i + 1]).end
             /\ Put(c, w, n, ts[i], Interval(answers[2 * i], answers[2 * i + 1]))
             /\ Placeable(answers[2 * i], answers[2 * i + 1])
                  <=> Interval(answers[2 * i], answers[2 * i + 1]).end # 0
  <2>1. 2 * i \in 1..Len(answers) /\ 2 * i + 1 \in 1..Len(answers) /\ 2 * i > 1 /\ 2 * i + 1 > 1
    BY <1>2
  <2>2. /\ answers[2 * i] \in [ok : BOOLEAN, at : Nat]
        /\ answers[2 * i + 1] \in [ok : BOOLEAN, at : Nat]
        /\ answers[2 * i].ok => Located(c, w, n, Lookups(message)[2 * i], answers[2 * i].at)
        /\ answers[2 * i + 1].ok => Located(c, w, n, Lookups(message)[2 * i + 1], answers[2 * i + 1].at)
    BY <2>1, Zenon DEF AnswersInv
  <2>3. /\ answers[2 * i].ok => Located(c, w, n, ts[i].start, answers[2 * i].at)
        /\ answers[2 * i + 1].ok => Located(c, w, n, ts[i].end, answers[2 * i + 1].at)
        /\ ts[i] \in WordTimes /\ BytesFor(ts[i].end) # 0
    BY <1>2, <2>2, Zenon
  <2>4. PICK a \in [ok : BOOLEAN, at : Nat], b \in [ok : BOOLEAN, at : Nat] :
          a = answers[2 * i] /\ b = answers[2 * i + 1]
    BY <2>2
  <2>5. /\ Interval(a, b) \in WordTimes /\ Interval(a, b).start <= Interval(a, b).end
        /\ Put(c, w, n, ts[i], Interval(a, b))
    BY <2>3, <2>4, IntervalPlaced
  <2>6. Placeable(a, b) <=> Interval(a, b).end # 0
    <3>1. Laid(c, w) /\ n \in Nat \ {0} /\ n <= w
      BY <1>1
    <3>2. ts[i] \in WordTimes /\ BytesFor(ts[i].end) # 0
      BY <2>3
    <3>3. b.ok => Located(c, w, n, ts[i].end, b.at)
      BY <2>3, <2>4
    <3> HIDE DEF c, w, n
    <3> QED
      BY <3>1, <3>2, <3>3, PlaceableIs
  <2> QED
    BY <2>4, <2>5, <2>6
<1>5. /\ Intervals(c, w, n, ts, ws)
      /\ Placed = Measured(ws)
  <2>1. ws = [i \in 1..Len(ts) |-> Interval(answers[2 * i], answers[2 * i + 1])]
    BY <1>3 DEF Placements
  <2>2. ws \in [1..Len(ts) -> WordTimes]
    BY <1>4, <2>1
  <2>3. ws \in Seq(WordTimes) /\ Len(ws) = Len(ts)
    <3>1. \A k \in Nat : \A f \in [1..k -> WordTimes] : f \in Seq(WordTimes) /\ Len(f) = k
      BY FunctionIsSeq
    <3>2. Len(ts) \in Nat
      BY <1>2
    <3> QED
      BY <2>2, <3>1, <3>2, Zenon
  <2>4. \A i \in 1..Len(ws) : ws[i] = Interval(answers[2 * i], answers[2 * i + 1])
    BY <2>1, <2>3
  <2>5. {i \in 1..Len(ts) : Placeable(answers[2 * i], answers[2 * i + 1])} = Measured(ws)
    BY <1>4, <2>3, <2>4, Zenon DEF Measured
  <2> QED
    BY <1>3, <1>4, <2>3, <2>4, <2>5 DEF Intervals, Placed
<1>6. heard \in Nat /\ heard <= Reach(c, w, BytesFor(message.start))
  <2>1. w > 0
    BY <1>1
  <2>2. message.kind \in Spoken
    BY <1>1 DEF MessageType, Spoken
  <2> QED
    BY <2>1, <2>2 DEF HeardInv, ToCome
<1>7. /\ \A i \in Measured(ws) : /\ i \in 1..Len(ws) /\ ws[i].start \in Nat /\ ws[i].end \in Nat
                                 /\ heard <= ws[i].start /\ ws[i].start <= ws[i].end
                                 /\ ws[i].end <= Reach(c, w, BytesFor(message.end))
      /\ \A i, j \in Measured(ws) : i < j => ws[i].end <= ws[j].start
  BY <1>1, <1>5, <1>6, MeasuredInOrder DEF ts
<1> DEFINE placed == Measured(ws)
           start == IF placed = {} THEN 0 ELSE ws[Min(placed)].start
           end == IF placed = {} THEN 0 ELSE ws[Max(placed)].end
<1>8. t = [words |-> IF message.kind = "text" THEN <<>> ELSE ws, start |-> start,
           duration |-> IF end > start THEN end - start ELSE 0]
  <2> DEFINE from == IF Placed = {} THEN 0 ELSE Placements[Min(Placed)].start
             to == IF Placed = {} THEN 0 ELSE Placements[Max(Placed)].end
  <2>1. SourceTime(message) =
          [words |-> IF message.kind = "text" THEN <<>> ELSE Placements, start |-> from,
           duration |-> IF to > from THEN to - from ELSE 0]
    BY Zenon DEF SourceTime, Placements, Placed
  <2>2. Placements = ws /\ Placed = placed
    BY <1>5
  <2> HIDE DEF placed
  <2> QED
    BY <2>1, <2>2
<1>9. CASE placed = {}
  <2>1. t.start = 0 /\ t.duration = 0 /\ t.words = IF message.kind = "text" THEN <<>> ELSE ws
    BY <1>8, <1>9
  <2>2. Reach(c, w, BytesFor(message.end)) \in Nat
    <3>1. w > 0
      BY <1>1
    <3>2. message.end \in Nat
      BY <1>1
    <3>3. BytesFor(message.end) \in Nat
      BY <3>2, Samples, Zenon
    <3>4. BytesFor(message.end) <= BytesFor(message.end)
      BY <3>3
    <3> QED
      BY <1>1, <3>1, <3>3, <3>4, ReachGrows
  <2> QED
    BY <1>5, <1>7, <1>9, <2>1, <2>2 DEF ts, Sourced
<1>10. CASE placed # {}
  <2> DEFINE first == Min(placed)
             last == Max(placed)
  <2>1. Len(ws) \in Nat /\ placed \subseteq 1..Len(ws) /\ placed \subseteq Nat
    <3>1. Len(ws) \in Nat
      BY <1>2, <1>5 DEF Intervals
    <3> QED
      BY <3>1 DEF Measured
  <2>2. first \in placed /\ last \in placed /\ first <= last /\ first \in Nat /\ last \in Nat
    <3>1. first \in placed /\ \A q \in placed : first <= q
      BY <1>10, <2>1, LeastOf
    <3>2. last \in placed
      BY <1>10, <2>1, GreatestOf
    <3> HIDE DEF placed, first, last
    <3> QED
      BY <2>1, <3>1, <3>2
  <2>3. /\ t.start = ws[first].start
        /\ t.words = IF message.kind = "text" THEN <<>> ELSE ws
        /\ t.duration = IF ws[last].end > ws[first].start THEN ws[last].end - ws[first].start ELSE 0
    <3>1. start = ws[first].start /\ end = ws[last].end
      BY <1>10
    <3> HIDE DEF start, end
    <3>2. PICK texts : texts = IF message.kind = "text" THEN <<>> ELSE ws
      OBVIOUS
    <3>3. PICK length : length = IF end > start THEN end - start ELSE 0
      OBVIOUS
    <3>4. t = [words |-> texts, start |-> start, duration |-> length]
      BY <1>8, <3>2, <3>3, Zenon
    <3>5. t.words = texts /\ t.start = start /\ t.duration = length
      BY <3>4
    <3> QED
      BY <3>1, <3>2, <3>3, <3>5, Zenon
  <2>4. /\ ws[first].start \in Nat /\ ws[last].end \in Nat /\ ws[first].end \in Nat /\ ws[last].start \in Nat
        /\ ws[first].start <= ws[first].end /\ ws[last].start <= ws[last].end
        /\ ws[last].end <= Reach(c, w, BytesFor(message.end))
        /\ first < last => ws[first].end <= ws[last].start
    BY <1>7, <2>2
  <2> HIDE DEF first, last
  <2>5. ws[first].start <= ws[last].end
    <3>1. \A a, b, x, y \in Nat : a <= b /\ b <= x /\ x <= y => a <= y
      OBVIOUS
    <3>2. CASE first < last
      BY <2>4, <3>1, <3>2, Zenon
    <3>3. CASE first = last
      BY <2>4, <3>3, Zenon
    <3>4. first < last \/ first = last
      BY <2>2
    <3> QED
      BY <3>2, <3>3, <3>4
  <2>6. t.start \in Nat /\ t.duration \in Nat /\ t.start + t.duration = ws[last].end
    <3>1. \A a, b, d \in Nat : a <= b /\ d = (IF b > a THEN b - a ELSE 0) => a + d = b
      OBVIOUS
    <3>2. \A a, b \in Nat : (IF b > a THEN b - a ELSE 0) \in Nat
      OBVIOUS
    <3>3. t.start \in Nat /\ t.duration \in Nat
      BY <2>3, <2>4, <3>2, Zenon
    <3>4. ws[first].start \in Nat /\ ws[last].end \in Nat
      BY <2>4
    <3>5. t.duration = IF ws[last].end > ws[first].start THEN ws[last].end - ws[first].start ELSE 0
      BY <2>3
    <3>6. ws[first].start + t.duration = ws[last].end
      BY <2>5, <3>1, <3>3, <3>4, <3>5, Zenon
    <3> QED
      BY <2>3, <3>3, <3>6, Zenon
  <2>7. Intervals(c, w, n, TimesOf(message), ws)
    BY <1>5 DEF ts
  <2>8. /\ Min(Measured(ws)) \in Measured(ws) /\ Max(Measured(ws)) \in Measured(ws)
        /\ t.start = ws[Min(Measured(ws))].start
        /\ t.start + t.duration = ws[Max(Measured(ws))].end
    BY <2>2, <2>3, <2>6 DEF first, last
  <2>9. t.start + t.duration <= Reach(c, w, BytesFor(message.end))
    BY <2>4, <2>6
  <2> QED
    BY <1>7, <1>10, <2>3, <2>6, <2>7, <2>8, <2>9, Zenon DEF Sourced
<1> QED
  BY <1>9, <1>10
-----------------------------------------------------------------------------
(* What was heard before.                                                   *)
LEMMA ToComeType ==
  ASSUME FlowInv
  PROVE  ToCome \in Nat /\ BytesFor(ToCome) \in Nat
<1>1. ASSUME NEW m, Sensible(m, delivered), m.kind \in Spoken
      PROVE  m.start \in Nat
  <2>1. m # Nothing
    BY <1>1, NothingIsSensible
  <2> QED
    BY <1>1, <2>1 DEF Sensible, MessageType
<1>2. ToCome \in Nat
  BY <1>1 DEF ToCome, FlowInv
<1> QED
  BY <1>2, Samples, Zenon

LEMMA HeardInit == Init => HeardInv
BY DEF Init, HeardInv, FreshIndex

(* The writer: the first chunk of a connection lies after all that was      *)
(* heard on the ones before.                                                *)
LEMMA HeardByRecord ==
  ASSUME ClockInv, IndexInv, FlowInv, HeardInv, WriterMoves
  PROVE  HeardInv'
<1>1. PICK n \in ChunkSizes, gap \in Gaps : Record(n, gap)
  BY DEF WriterMoves
<1>2. IndexInv' /\ Grows
  BY IndexGrows
<1>3. /\ Laid(chunks, index.written) /\ Laid(chunks', index'.written)
      /\ index.written \in Nat /\ index'.written \in Nat /\ index.written <= index'.written
      /\ \A i \in 1..Len(chunks) : i \in 1..Len(chunks') /\ chunks'[i] = chunks[i]
  BY <1>2 DEF IndexInv, Laid, Grows
<1>4. /\ n \in Nat \ {0} /\ gap \in Nat /\ Duration(n) \in Nat
  BY ResultSizes, Durations
<1>5. /\ heard' = heard /\ ToCome' = ToCome
      /\ source' = source + gap + Duration(n)
  BY <1>1 DEF Record, recognizerVars, readerVars, ToCome
<1>6. /\ heard \in Nat /\ source \in Nat /\ heard <= source
      /\ index.written > 0 => heard <= Reach(chunks, index.written, BytesFor(ToCome))
  BY DEF HeardInv, ClockInv
<1>7. heard' \in Nat /\ heard' <= source'
  BY <1>4, <1>5, <1>6
<1> DEFINE k == BytesFor(ToCome)
<1>8. k \in Nat
  BY ToComeType
<1>9. BytesFor(ToCome)' = k
  BY <1>5 DEF BytesFor
<1> HIDE DEF k
<1>10. index'.written > 0 => heard <= Reach(chunks', index'.written, k)
  <2>1. CASE index.written > 0
    <3>1. Reach(chunks, index.written, k) <= Reach(chunks', index'.written, k)
      BY <1>3, <1>8, <2>1, ReachStays
    <3>2. /\ Reach(chunks, index.written, k) \in Nat /\ Reach(chunks', index'.written, k) \in Nat
      <4>1. k <= k /\ index'.written > 0
        BY <1>3, <1>8, <2>1
      <4> QED
        BY <1>3, <1>8, <2>1, <4>1, ReachGrows
    <3>3. heard <= Reach(chunks, index.written, k)
      BY <1>6, <2>1 DEF k
    <3> QED
      BY <1>6, <3>1, <3>2, <3>3
  <2>2. CASE index.written = 0
    <3> DEFINE a == Anchor(index.written, n, clock, clock', source')
    <3>1. chunks' = Append(chunks, a) /\ index'.written = n
      <4>1. index' = Add(index, n, clock, clock', source') /\ chunks' = Append(chunks, a)
        BY <1>1 DEF Record
      <4>2. ~(n <= 0) /\ index.written + n = n
        BY <1>4, <2>2
      <4> QED
        BY <4>1, <4>2 DEF Add, Anchor
    <3>2. chunks = <<>>
      <4>1. chunks # <<>> => Len(chunks) \in 1..Len(chunks) /\ chunks[Len(chunks)].end = 0
        BY <1>3, <2>2, EmptySeq, LenProperties DEF Laid
      <4>2. chunks # <<>> => chunks[Len(chunks)].start \in Nat /\ chunks[Len(chunks)].start < chunks[Len(chunks)].end
        BY <1>3, <4>1, LaidTypes DEF Laid
      <4> QED
        BY <4>1, <4>2
    <3>3. a.start = 0 /\ a.end = n /\ a.sourceEnd = source'
      BY <1>4, <2>2 DEF Anchor
    <3> HIDE DEF a
    <3>4. 1 \in 1..Len(chunks') /\ chunks'[1] = a
      BY <3>1, <3>2
    <3>5. Holds(chunks'[1], 0)
      BY <1>4, <3>3, <3>4 DEF Holds
    <3>6. PositionIn(chunks', 0) = source' - Duration(n) /\ PositionIn(chunks', 0) \in Nat
      <4>1. PositionIn(chunks', 0) = chunks'[1].sourceEnd - Duration(chunks'[1].end - 0)
            /\ PositionIn(chunks', 0) \in Nat
        BY <1>3, <3>4, <3>5, PositionOf
      <4>2. n - 0 = n
        BY <1>4
      <4> QED
        BY <3>3, <3>4, <4>1, <4>2
    <3>7. source <= PositionIn(chunks', 0)
      BY <1>4, <1>5, <1>6, <3>6
    <3>8. Reach(chunks', index'.written, 0) = PositionIn(chunks', 0)
      BY <1>4, <3>1 DEF Reach
    <3>9. /\ Reach(chunks', index'.written, 0) <= Reach(chunks', index'.written, k)
          /\ Reach(chunks', index'.written, k) \in Nat
      <4>1. 0 <= k /\ k <= k /\ index'.written > 0
        BY <1>4, <1>8, <3>1
      <4> QED
        BY <1>3, <1>8, <4>1, ReachGrows
    <3> QED
      BY <1>6, <3>6, <3>7, <3>8, <3>9
  <2> QED
    BY <1>3, <2>1, <2>2
<1> QED
  BY <1>5, <1>7, <1>9, <1>10 DEF HeardInv

(* The words still to come only move on.                                    *)
LEMMA HeardAhead ==
  ASSUME ClockInv, IndexInv, FlowInv, HeardInv, FlowInv', ToCome <= ToCome',
         UNCHANGED <<index, chunks, source, heard>>
  PROVE  HeardInv'
<1>1. /\ ToCome \in Nat /\ BytesFor(ToCome) \in Nat
  BY ToComeType
<1>2. \E k : k = ToCome' /\ k \in Nat
  <2>1. ASSUME NEW m, NEW n, m.kind \in Spoken, Sensible(m, n)
        PROVE  m.start \in Nat
    <3>1. m # Nothing
      BY <2>1, NothingIsSensible
    <3> QED
      BY <2>1, <3>1 DEF Sensible, MessageType
  <2> QED
    BY <2>1 DEF ToCome, FlowInv
<1>3. PICK k : k = ToCome' /\ k \in Nat
  BY <1>2
<1>4. BytesFor(k) \in Nat /\ BytesFor(ToCome) <= BytesFor(k)
  BY <1>1, <1>3, Samples
<1>5. heard \in Nat /\ heard <= source /\ Laid(chunks, index.written)
  BY DEF HeardInv, IndexInv
<1>6. index.written > 0 => heard <= Reach(chunks, index.written, BytesFor(k))
  <2>1. SUFFICES ASSUME index.written > 0 PROVE heard <= Reach(chunks, index.written, BytesFor(k))
    OBVIOUS
  <2>2. /\ Reach(chunks, index.written, BytesFor(ToCome)) \in Nat
        /\ Reach(chunks, index.written, BytesFor(ToCome)) <= Reach(chunks, index.written, BytesFor(k))
    BY <1>1, <1>4, <1>5, <2>1, ReachGrows
  <2>3. Reach(chunks, index.written, BytesFor(k)) \in Nat
    <3>1. BytesFor(k) <= BytesFor(k)
      BY <1>4
    <3> QED
      BY <1>4, <1>5, <2>1, <3>1, ReachGrows
  <2>4. heard <= Reach(chunks, index.written, BytesFor(ToCome))
    BY <2>1 DEF HeardInv
  <2> QED
    BY <1>5, <2>2, <2>3, <2>4
<1> QED
  BY <1>3, <1>5, <1>6 DEF HeardInv, BytesFor

LEMMA EndsAfterStart ==
  ASSUME NEW m, NEW n, m # Nothing, Sensible(m, n), m.kind # "music"
  PROVE  m.start \in Nat /\ m.end \in Nat /\ m.start <= m.end
<1>1. m.start \in Nat /\ m.end \in Nat
  BY DEF Sensible, MessageType
<1> DEFINE ts == TimesOf(m)
<1>2. /\ Len(ts) \in Nat /\ Len(ts) > 0
      /\ \A i \in 1..Len(ts) : /\ ts[i].start \in Nat /\ ts[i].end \in Nat
                               /\ ts[i].start < ts[i].end
                               /\ m.start <= ts[i].start /\ ts[i].end <= m.end
  BY TimesInOrder
<1> HIDE DEF ts
<1>3. 1 \in 1..Len(ts)
  BY <1>2
<1> QED
  BY <1>1, <1>2, <1>3

(* What a transcript adds ends before the next words start, and in what was *)
(* read from the source.                                                    *)
LEMMA HeardByTranscript ==
  ASSUME ClockInv, IndexInv, FlowInv, AnswersInv, HeardInv, PublishTranscript
  PROVE  HeardInv'
<1>1. PICK ws : ws = Placements
  OBVIOUS
<1>2. PICK t : t = SourceTime(message)
  OBVIOUS
<1>3. /\ message # Nothing /\ message.kind # "music" /\ Len(answers) = Len(Lookups(message))
      /\ heard' = Max({heard, t.start + t.duration})
      /\ message' = Nothing
      /\ UNCHANGED <<source, index, chunks, reported, socket>>
  BY <1>2 DEF PublishTranscript, NextMessage, connVars, recognizerVars, FlowInv
<1>4. /\ t.start \in Nat /\ t.duration \in Nat
      /\ t.start + t.duration <= Reach(chunks, index.written, BytesFor(message.end))
  <2>1. Sourced(t, ws)
    BY <1>1, <1>2, <1>3, SourceTimePlaces
  <2> QED
    BY <2>1 DEF Sourced
<1>5. /\ Sensible(message, delivered) /\ delivered \in Nat /\ delivered <= index.written
      /\ index.written \in Nat /\ Laid(chunks, index.written) /\ socket = Nothing
  BY <1>3 DEF FlowInv, IndexInv, Laid
<1>6. message.kind \in Spoken /\ message.covers \in Nat \ {0} /\ message.covers <= delivered
  BY <1>3, <1>5 DEF Sensible, MessageType, Spoken
<1>7. index.written > 0
  BY <1>5, <1>6
<1>8. reported = message.end /\ ToCome = message.start /\ ToCome' = message.end
  <2>1. ToCome' = reported
    BY <1>3, <1>5, NothingIsSensible DEF ToCome
  <2> QED
    BY <1>3, <1>6, <2>1 DEF FlowInv, ToCome
<1>9. message.start \in Nat /\ message.end \in Nat /\ message.start <= message.end
  BY <1>3, <1>5, EndsAfterStart
<1> DEFINE r == Reach(chunks, index.written, BytesFor(message.end))
           b == t.start + t.duration
<1>10. r \in Nat /\ heard \in Nat /\ heard <= r /\ r <= source /\ b \in Nat /\ source \in Nat
  <2>1. /\ BytesFor(message.start) \in Nat /\ BytesFor(message.end) \in Nat
        /\ BytesFor(message.start) <= BytesFor(message.end)
    BY <1>9, Samples
  <2>2. /\ Reach(chunks, index.written, BytesFor(message.start)) \in Nat
        /\ Reach(chunks, index.written, BytesFor(message.start)) <= r
    BY <1>5, <1>7, <2>1, ReachGrows
  <2>3. r \in Nat /\ r <= chunks[Len(chunks)].sourceEnd
    <3>1. BytesFor(message.end) <= BytesFor(message.end)
      BY <2>1
    <3> QED
      BY <1>5, <1>7, <2>1, <3>1, ReachGrows
  <2>4. chunks[Len(chunks)].sourceEnd = source /\ source \in Nat
    BY <1>5, <1>7 DEF ClockInv, Laid
  <2>5. heard \in Nat /\ heard <= Reach(chunks, index.written, BytesFor(message.start))
    BY <1>7, <1>8 DEF HeardInv
  <2> HIDE DEF r
  <2>6. heard <= r
    BY <2>2, <2>3, <2>5
  <2>7. b \in Nat
    BY <1>4
  <2> QED
    BY <2>3, <2>4, <2>5, <2>6, <2>7
<1>11. b <= r
  BY <1>4
<1> HIDE DEF r, b
<1>12. heard' \in Nat /\ heard' <= r /\ heard' <= source
  <2>1. heard' = IF heard >= b THEN heard ELSE b
    BY <1>3, <1>10, MaxOfTwo DEF b
  <2> QED
    BY <1>10, <1>11, <2>1
<1>13. BytesFor(ToCome)' = BytesFor(message.end)
  BY <1>8 DEF BytesFor
<1> QED
  BY <1>3, <1>12, <1>13 DEF HeardInv, r

LEMMA HeardStep ==
  ClockInv /\ IndexInv /\ FlowInv /\ AnswersInv /\ HeardInv /\ FlowInv' /\ [Next]_vars => HeardInv'
<1> SUFFICES ASSUME ClockInv, IndexInv, FlowInv, AnswersInv, HeardInv, FlowInv', [Next]_vars
             PROVE  HeardInv'
  OBVIOUS
<1>1. CASE WriterMoves
  BY <1>1, HeardByRecord
<1>2. CASE ToCome <= ToCome' /\ UNCHANGED <<index, chunks, source, heard>>
  BY <1>2, HeardAhead
<1>3. CASE ToCome' = ToCome /\ UNCHANGED <<index, chunks, source, heard>>
  <2>1. ToCome <= ToCome'
    BY <1>3, ToComeType
  <2> QED
    BY <1>3, <2>1, HeardAhead
<1>4. CASE ReportWords \/ ReportText \/ ReportMusic
  <2>1. /\ Sensible(socket', delivered) /\ socket = Nothing /\ reader = "read"
        /\ socket'.kind \in Spoken => reported' = socket'.end /\ reported <= socket'.start
        /\ socket'.kind \notin Spoken => reported' = reported
        /\ UNCHANGED <<clock, source, connVars, readerVars>>
    BY <1>4, ReportSensible
  <2>2. message = Nothing /\ message' = message
        /\ UNCHANGED <<index, chunks, source, heard>>
    BY <2>1 DEF FlowInv, connVars, readerVars
  <2>3. ToCome = reported
    BY <2>1, <2>2, NothingIsSensible DEF ToCome
  <2>4. ToCome' = IF socket'.kind \in Spoken THEN socket'.start ELSE reported'
    BY <2>2, NothingIsSensible DEF ToCome
  <2>5. ToCome <= ToCome'
    BY <2>1, <2>3, <2>4 DEF FlowInv
  <2> QED
    BY <1>2, <2>2, <2>5
<1>5. CASE Send
  BY <1>3, <1>5 DEF Send, ToCome, recognizerVars, readerVars
<1>6. CASE Read
  <2>1. /\ message' = socket /\ socket' = Nothing /\ socket # Nothing
        /\ UNCHANGED <<index, chunks, source, heard, reported>>
    BY <1>6 DEF Read, connVars
  <2>2. message = Nothing
    BY <2>1 DEF FlowInv
  <2>3. ToCome' = ToCome
    BY <2>1, <2>2, NothingIsSensible DEF ToCome
  <2> QED
    BY <1>3, <2>1, <2>3
<1>7. CASE Resolve
  BY <1>3, <1>7 DEF Resolve, ToCome, connVars, recognizerVars
<1>8. CASE PublishTranscript
  BY <1>8, HeardByTranscript
<1>9. CASE PublishMusic
  <2>1. /\ message.kind = "music" /\ message' = Nothing /\ message # Nothing
        /\ UNCHANGED <<index, chunks, source, heard, reported, socket>>
    BY <1>9 DEF PublishMusic, NextMessage, connVars, recognizerVars, Nothing
  <2>2. message.kind \notin Spoken
    BY <2>1 DEF Spoken
  <2>3. ToCome' = ToCome
    BY <2>1, <2>2, NothingIsSensible DEF ToCome
  <2> QED
    BY <1>3, <2>1, <2>3
<1>10. CASE Reconnect
  BY <1>10 DEF Reconnect, ReconnectWith, FreshIndex, HeardInv
<1>11. CASE UNCHANGED vars
  BY <1>3, <1>11 DEF vars, ToCome, connVars, recognizerVars, readerVars
<1> QED
  BY <1>1, <1>4, <1>5, <1>6, <1>7, <1>8, <1>9, <1>10, <1>11 DEF Next, WriterMoves

-----------------------------------------------------------------------------
(* What was just published, wherever the writer has got to since.           *)
LEMMA PublishedNothing ==
  ASSUME published' = Unpublished
  PROVE  PublishedInv'
<1>1. published'.of = Nothing /\ published'.words = <<>>
      /\ published'.start = 0 /\ published'.duration = 0 /\ published'.after = 0
  BY DEF Unpublished
<1>2. <<>> \in Seq(WordTimes)
  OBVIOUS
<1> QED
  BY <1>1, <1>2 DEF PublishedInv

LEMMA OfCovers ==
  ASSUME IndexInv, FlowInv, NEW m, m # Nothing, Sensible(m, delivered)
  PROVE  /\ m.covers \in Nat \ {0} /\ m.covers <= index.written
         /\ m.start \in Nat /\ m.end \in Nat
         /\ \A i \in 1..Len(m.words) : m.words[i] \in WordTimes
<1>1. m \in MessageType /\ m.covers <= delivered
  BY DEF Sensible
<1>2. /\ m.covers \in Nat \ {0} /\ m.start \in Nat /\ m.end \in Nat /\ m.words \in Seq(WordTimes)
  BY <1>1 DEF MessageType
<1>3. delivered \in Nat /\ delivered <= index.written /\ index.written \in Nat
  BY DEF FlowInv, IndexInv, Laid
<1>4. m.covers <= index.written
  BY <1>1, <1>2, <1>3
<1> QED
  BY <1>2, <1>4, ElementOfSeq

LEMMA PutStays ==
  ASSUME IndexInv, IndexInv', Grows, NEW n \in Nat \ {0}, n <= index.written,
         NEW times, times.start \in Nat, times.end \in Nat, NEW placed,
         Put(chunks, index.written, n, times, placed)
  PROVE  Put(chunks', index'.written, n, times, placed)
<1>1. SUFFICES ASSUME placed.end # 0
               PROVE  /\ Located(chunks', index'.written, n, times.start, placed.start)
                      /\ Located(chunks', index'.written, n, times.end, placed.end)
  BY DEF Put
<1>2. /\ Located(chunks, index.written, n, times.start, placed.start)
      /\ Located(chunks, index.written, n, times.end, placed.end)
  BY <1>1 DEF Put
<1> QED
  BY <1>2, StillLocated

LEMMA PublishedStays ==
  ASSUME ClockInv, IndexInv, FlowInv, PublishedInv,
         WriterMoves \/ UNCHANGED <<index, chunks>>, UNCHANGED published
  PROVE  PublishedInv'
<1>1. IndexInv' /\ Grows /\ published' = published
  BY IndexGrows
<1> DEFINE of == published.of
           n == published.of.covers
           whole == [start |-> published.start, end |-> published.start + published.duration]
<1>2. CASE of = Nothing
  BY <1>1, <1>2 DEF PublishedInv
<1>3. CASE of # Nothing
  <2>1. /\ n \in Nat \ {0} /\ n <= index.written
        /\ of.start \in Nat /\ of.end \in Nat
        /\ \A i \in 1..Len(of.words) : of.words[i] \in WordTimes
    BY <1>3, OfCovers DEF FlowInv
  <2>2. ASSUME NEW i \in 1..Len(published.words)
        PROVE  Put(chunks', index'.written, n, of.words[i], published.words[i])
    <3>1. published.words # <<>>
      BY DEF PublishedInv
    <3>2. i \in 1..Len(of.words)
      BY <1>3, <3>1 DEF PublishedInv
    <3>3. of.words[i].start \in Nat /\ of.words[i].end \in Nat
      BY <2>1, <3>2 DEF WordTimes
    <3>4. Put(chunks, index.written, n, of.words[i], published.words[i])
      BY <1>3 DEF PublishedInv
    <3> QED
      BY <1>1, <2>1, <3>3, <3>4, PutStays
  <2>3. ASSUME of.kind = "text"
        PROVE  Put(chunks', index'.written, n, of, whole)
    <3>1. Put(chunks, index.written, n, of, whole)
      BY <1>3, <2>3 DEF PublishedInv
    <3> HIDE DEF whole
    <3> QED
      BY <1>1, <2>1, <3>1, PutStays
  <2>4. ASSUME of.kind = "music"
        PROVE  Located(chunks', index'.written, n, of.start, published.start)
    <3>1. Located(chunks, index.written, n, of.start, published.start)
      BY <1>3, <2>4 DEF PublishedInv
    <3> QED
      BY <1>1, <2>1, <3>1, StillLocated
  <2> QED
    BY <1>1, <1>3, <2>2, <2>3, <2>4 DEF PublishedInv
<1> QED
  BY <1>2, <1>3

LEMMA PublishedTranscript ==
  ASSUME IndexInv, FlowInv, AnswersInv, HeardInv, PublishTranscript
  PROVE  PublishedInv'
<1>1. PICK ws : ws = Placements
  OBVIOUS
<1>2. PICK t : t = SourceTime(message)
  OBVIOUS
<1>3. /\ message # Nothing /\ message.kind # "music" /\ Len(answers) = Len(Lookups(message))
      /\ published'.of = message /\ published'.words = t.words /\ published'.start = t.start
      /\ published'.duration = t.duration /\ published'.after = heard
      /\ UNCHANGED <<index, chunks>>
  BY <1>2 DEF PublishTranscript, connVars, FlowInv
<1>4. /\ Intervals(chunks, index.written, message.covers, TimesOf(message), ws)
      /\ t.words = IF message.kind = "text" THEN <<>> ELSE ws
      /\ t.start \in Nat /\ t.duration \in Nat
      /\ Measured(ws) = {} => t.start = 0 /\ t.duration = 0
      /\ Measured(ws) # {} => /\ Min(Measured(ws)) \in Measured(ws)
                              /\ Max(Measured(ws)) \in Measured(ws)
                              /\ t.start = ws[Min(Measured(ws))].start
                              /\ t.start + t.duration = ws[Max(Measured(ws))].end
  <2>1. Sourced(t, ws)
    BY <1>1, <1>2, <1>3, SourceTimePlaces
  <2> QED
    BY <2>1 DEF Sourced
<1>5. heard \in Nat
  BY DEF HeardInv
<1> HIDE <1>1, <1>2
<1>6. CASE message.kind = "text"
  <2>1. TimesOf(message) = <<[start |-> message.start, end |-> message.end]>>
    BY <1>6 DEF TimesOf
  <2>2. /\ ws \in Seq(WordTimes) /\ Len(ws) = 1 /\ 1 \in 1..Len(ws)
        /\ TimesOf(message)[1].start = message.start /\ TimesOf(message)[1].end = message.end
    BY <1>4, <2>1 DEF Intervals
  <2>3. Put(chunks, index.written, message.covers, TimesOf(message)[1], ws[1])
    BY <1>4, <2>2 DEF Intervals
  <2> DEFINE whole == [start |-> t.start, end |-> t.start + t.duration]
  <2>4. Put(chunks, index.written, message.covers, message, whole)
    <3>1. CASE Measured(ws) = {}
      <4>1. whole.end = 0
        BY <1>4, <3>1
      <4> QED
        BY <4>1 DEF Put
    <3>2. CASE Measured(ws) # {}
      <4>1. Measured(ws) \subseteq {1}
        BY <2>2 DEF Measured
      <4>2. whole.start = ws[1].start /\ whole.end = ws[1].end
        BY <1>4, <3>2, <4>1
      <4> HIDE DEF whole
      <4> QED
        BY <2>2, <2>3, <4>2 DEF Put
    <3> QED
      BY <3>1, <3>2
  <2>5. t.words = <<>> /\ t.words \in Seq(WordTimes) /\ Len(t.words) = 0
    BY <1>4, <1>6
  <2> QED
    BY <1>3, <1>4, <1>5, <1>6, <2>4, <2>5 DEF PublishedInv
<1>7. CASE message.kind # "text"
  <2>1. TimesOf(message) = message.words /\ t.words = ws
    BY <1>4, <1>7 DEF TimesOf
  <2>2. /\ ws \in Seq(WordTimes) /\ Len(ws) = Len(message.words)
        /\ \A i \in 1..Len(ws) : Put(chunks, index.written, message.covers, message.words[i], ws[i])
    BY <1>4, <2>1 DEF Intervals
  <2> QED
    BY <1>3, <1>4, <1>5, <1>7, <2>1, <2>2 DEF PublishedInv
<1> QED
  BY <1>6, <1>7

LEMMA PublishedMusic ==
  ASSUME IndexInv, FlowInv, AnswersInv, PublishMusic
  PROVE  PublishedInv'
<1>1. CASE ~answers[1].ok
  BY <1>1, PublishedNothing DEF PublishMusic
<1>2. CASE answers[1].ok
  <2>1. /\ message # Nothing /\ message.kind = "music" /\ Len(answers) = 1
        /\ published' = [Unpublished EXCEPT !.of = message, !.start = answers[1].at]
        /\ UNCHANGED <<index, chunks>>
    BY <1>2 DEF PublishMusic, connVars, FlowInv
  <2>2. Sensible(message, delivered)
    BY DEF FlowInv
  <2>3. Lookups(message)[1] = message.start
    BY <2>1, <2>2, LookupsOf
  <2>4. /\ answers[1].at \in Nat
        /\ Located(chunks, index.written, message.covers, message.start, answers[1].at)
    <3>1. 1 \in 1..Len(answers)
      BY <2>1
    <3>2. /\ answers[1] \in [ok : BOOLEAN, at : Nat]
          /\ Located(chunks, index.written, message.covers, Lookups(message)[1], answers[1].at)
      BY <1>2, <2>1, <3>1 DEF AnswersInv
    <3> QED
      BY <2>3, <3>2
  <2>5. /\ published'.of = message /\ published'.words = <<>> /\ published'.start = answers[1].at
        /\ published'.duration = 0 /\ published'.after = 0
    BY <2>1 DEF Unpublished
  <2>6. published'.words \in Seq(WordTimes) /\ 1..Len(published'.words) = {}
    BY <2>5
  <2>7. published'.of.kind # "text" /\ published'.of # Nothing
    BY <2>1, <2>5
  <2>8. Located(chunks', index'.written, published'.of.covers, published'.of.start, published'.start)
    BY <2>1, <2>4, <2>5
  <2>9. published'.start \in Nat /\ published'.duration \in Nat /\ published'.after \in Nat
    BY <2>4, <2>5
  <2> HIDE <2>1, <2>2, <2>3, <2>4
  <2> QED
    BY <2>5, <2>6, <2>7, <2>8, <2>9 DEF PublishedInv
<1> QED
  BY <1>1, <1>2

LEMMA PublishedStep ==
  ClockInv /\ IndexInv /\ FlowInv /\ AnswersInv /\ HeardInv /\ PublishedInv /\ [Next]_vars
    => PublishedInv'
<1> SUFFICES ASSUME ClockInv, IndexInv, FlowInv, AnswersInv, HeardInv, PublishedInv, [Next]_vars
             PROVE  PublishedInv'
  OBVIOUS
<1>1. CASE WriterMoves
  BY <1>1, PublishedStays DEF WriterMoves, Record, readerVars
<1>2. CASE UNCHANGED <<index, chunks, published>>
  BY <1>2, PublishedStays
<1>3. CASE ReportWords \/ ReportText \/ ReportMusic
  BY <1>2, <1>3, ReportSensible DEF connVars, readerVars
<1>4. CASE Read \/ Reconnect
  BY <1>4, PublishedNothing DEF Read, Reconnect, ReconnectWith
<1>5. CASE PublishTranscript
  BY <1>5, PublishedTranscript
<1>6. CASE PublishMusic
  BY <1>6, PublishedMusic
<1> QED
  BY <1>1, <1>2, <1>3, <1>4, <1>5, <1>6
  DEF Next, WriterMoves, Send, Resolve, connVars, readerVars, vars

LEMMA ResultsInvariant == Spec => []ResultsInv
<1>1. Init => ResultsInv
  <2> SUFFICES ASSUME Init PROVE ResultsInv
    OBVIOUS
  <2>1. AnswersInv
    BY EmptySeq DEF Init, AnswersInv
  <2>2. PublishedInv
    BY DEF Init, PublishedInv, Unpublished
  <2> QED
    BY <2>1, <2>2, IndexInit, FlowInit, HeardInit DEF ResultsInv
<1>2. ResultsInv /\ [Next]_vars => ResultsInv'
  BY ClockStep, IndexStep, FlowStep, AnswersStep, HeardStep, PublishedStep DEF ResultsInv
<1> QED
  BY <1>1, <1>2, PTL DEF Spec

(* Every variable keeps its type, and no message is about more than what    *)
(* was sent.                                                                *)
THEOREM ResultsTypeCorrect == Spec => []TypeOK
<1>1. ResultsInv => TypeOK
  <2> SUFFICES ASSUME ResultsInv PROVE TypeOK
    OBVIOUS
  <2>1. /\ clock \in Nat /\ source \in Nat /\ index.written \in Nat /\ heard \in Nat
        /\ delivered \in Nat /\ delivered <= index.written
        /\ reported \in Nat /\ reported <= Limit
    BY DEF ResultsInv, ClockInv, IndexInv, Laid, HeardInv, FlowInv, Limit
  <2>2. delivered \in 0..index.written /\ reported \in 0..Limit
    <3>1. Limit \in Nat
      <4>1. Duration(delivered) \in Nat /\ Rounding \in Nat
        BY <2>1, Durations, ResultSizes
      <4> QED
        BY <4>1 DEF Limit
    <3> QED
      BY <2>1, <3>1
  <2>3. ASSUME NEW msg, Sensible(msg, delivered)
        PROVE  /\ msg.kind \in {"none", "words", "text", "music"}
               /\ msg.covers \in 0..delivered /\ {msg.start, msg.end} \subseteq Nat
               /\ \A i \in 1..Len(msg.words) : {msg.words[i].start, msg.words[i].end} \subseteq Nat
    <3>1. CASE msg = Nothing
      BY <2>1, <3>1 DEF Nothing
    <3>2. CASE msg # Nothing
      <4>1. msg \in MessageType /\ msg.covers <= delivered
        BY <2>3, <3>2 DEF Sensible
      <4>2. /\ msg.kind \in {"words", "text", "music"} /\ msg.covers \in Nat
            /\ msg.start \in Nat /\ msg.end \in Nat /\ msg.words \in Seq(WordTimes)
        BY <4>1 DEF MessageType
      <4>3. \A i \in 1..Len(msg.words) : msg.words[i].start \in Nat /\ msg.words[i].end \in Nat
        <5>1. \A i \in 1..Len(msg.words) : msg.words[i] \in WordTimes
          BY <4>2, ElementOfSeq
        <5> QED
          BY <5>1 DEF WordTimes
      <4> QED
        BY <2>1, <4>1, <4>2, <4>3
    <3> QED
      BY <3>1, <3>2
  <2>4. Sensible(socket, delivered) /\ Sensible(message, delivered) /\ Sensible(published.of, delivered)
    BY DEF ResultsInv, FlowInv
  <2>5. \A msg \in {socket, message, published.of} :
          /\ msg.kind \in {"none", "words", "text", "music"}
          /\ msg.covers \in 0..delivered /\ {msg.start, msg.end} \subseteq Nat
          /\ \A i \in 1..Len(msg.words) : {msg.words[i].start, msg.words[i].end} \subseteq Nat
    BY <2>3, <2>4
  <2>6. conn \in 1..MaxConns /\ writer \in {"pop", "send"} /\ reader \in {"read", "resolve"}
    BY DEF ResultsInv, FlowInv
  <2>7. published.start \in Nat /\ published.duration \in Nat /\ published.after \in Nat
    BY DEF ResultsInv, PublishedInv
  <2> QED
    BY <2>1, <2>2, <2>5, <2>6, <2>7 DEF TypeOK
<1> QED
  BY <1>1, ResultsInvariant, PTL

(* A located end is a right one.                                            *)

LEMMA LocatedEnd ==
  ASSUME NEW time \in Nat, NEW at,
         Located(chunks, index.written, published.of.covers, time, at)
  PROVE  EndsRightly(BytesFor(time), at)
<1> DEFINE e == BytesFor(time)
           n == published.of.covers
           w == index.written
<1>1. \A k : Position(k) = PositionIn(chunks, k)
  BY DEF Position, PositionIn, Holds
<1>2. /\ at \in Nat /\ at <= Reach(chunks, w, e)
      /\ e # 0 => at >= PositionIn(chunks, Min({e, n}) - 1) + SampleTicks
  BY DEF Located
<1>3. Reach(chunks, w, e) = IF e < w THEN Position(e) ELSE After(w)
  BY <1>1 DEF Reach, After
<1>4. e # 0 => at >= After(Min({e, n}))
  BY <1>1, <1>2 DEF After
<1>5. e = 0 => at >= 0
  BY <1>2
<1> HIDE DEF e, n, w
<1>6. /\ at >= (IF e = 0 THEN 0 ELSE After(Min({e, n})))
      /\ at <= (IF e < w THEN Position(e) ELSE After(w))
  BY <1>2, <1>3, <1>4, <1>5
<1> QED
  BY <1>6 DEF EndsRightly, e, n, w

LEMMA PutIsRight ==
  ASSUME NEW media, media.start \in Nat, media.end \in Nat,
         published.of.covers \in Nat \ {0},
         media.start < Duration(published.of.covers), NEW placed,
         Put(chunks, index.written, published.of.covers, media, placed)
  PROVE  PlacedRightly(media, placed)
<1>1. SUFFICES ASSUME placed.end # 0
               PROVE  /\ placed.start = Position(BytesFor(media.start))
                      /\ EndsRightly(BytesFor(media.end), placed.end)
  BY DEF PlacedRightly
<1>2. /\ Located(chunks, index.written, published.of.covers, media.start, placed.start)
      /\ Located(chunks, index.written, published.of.covers, media.end, placed.end)
  BY <1>1 DEF Put
<1>3. BytesFor(media.start) < published.of.covers
  BY Samples
<1>4. placed.start = PositionIn(chunks, BytesFor(media.start))
  BY <1>2, <1>3 DEF Located
<1> QED
  BY <1>2, <1>4, LocatedEnd DEF Position, PositionIn, Holds

(* Every published word, every text without timing and every music edge    *)
(* lies where its samples do on the source's clock, whatever the ring       *)
(* discarded and however far the writer has got.  (anchor.go SourceAt,      *)
(* session.go sourceTime.)                                                  *)
THEOREM ResultsKeepTheirPlace == Spec => []WordsKeepTheirPlace
<1>1. ResultsInv => WordsKeepTheirPlace
  <2> SUFFICES ASSUME ResultsInv PROVE WordsKeepTheirPlace
    OBVIOUS
  <2> DEFINE of == published.of
             whole == [start |-> published.start, end |-> published.start + published.duration]
  <2>1. IndexInv /\ FlowInv /\ PublishedInv
    BY DEF ResultsInv
  <2>2. ASSUME of # Nothing
        PROVE  /\ of.covers \in Nat \ {0} /\ of.covers <= index.written
               /\ of.start \in Nat /\ of.end \in Nat
               /\ of.kind # "music" => of.start < Duration(of.covers)
               /\ \A i \in 1..Len(of.words) : /\ of.words[i].start \in Nat /\ of.words[i].end \in Nat
                                              /\ of.words[i].start < Duration(of.covers)
    <3>1. Sensible(of, delivered)
      BY <2>1 DEF FlowInv
    <3>2. /\ of.covers \in Nat \ {0} /\ of.covers <= index.written
          /\ of.start \in Nat /\ of.end \in Nat
          /\ \A i \in 1..Len(of.words) : of.words[i] \in WordTimes
      BY <2>1, <2>2, <3>1, OfCovers
    <3>3. /\ of.kind # "music" => of.start < Duration(of.covers)
          /\ of.kind = "words" => WordsInOrder(of)
          /\ of.kind # "words" => of.words = <<>>
      BY <2>2, <3>1 DEF Sensible
    <3>4. \A i \in 1..Len(of.words) : of.words[i].start < Duration(of.covers)
      BY <3>3 DEF WordsInOrder
    <3> QED
      BY <3>2, <3>3, <3>4 DEF WordTimes
  <2>3. ASSUME NEW i \in 1..Len(published.words)
        PROVE  PlacedRightly(of.words[i], published.words[i])
    <3>1. of # Nothing /\ i \in 1..Len(of.words)
      BY <2>1 DEF PublishedInv
    <3>2. Put(chunks, index.written, of.covers, of.words[i], published.words[i])
      BY <2>1, <3>1 DEF PublishedInv
    <3> QED
      BY <2>1, <2>2, <3>1, <3>2, PutIsRight
  <2>4. ASSUME of.kind = "text"
        PROVE  PlacedRightly(of, whole)
    <3>1. of # Nothing
      BY <2>4 DEF Nothing
    <3>2. Put(chunks, index.written, of.covers, of, whole)
      BY <2>1, <2>4, <3>1 DEF PublishedInv
    <3> HIDE DEF whole
    <3> QED
      BY <2>1, <2>2, <2>4, <3>1, <3>2, PutIsRight
  <2>5. ASSUME of.kind = "music"
        PROVE  /\ BytesFor(of.start) < of.covers => published.start = Position(BytesFor(of.start))
               /\ EndsRightly(BytesFor(of.start), published.start)
    <3>1. of # Nothing
      BY <2>5 DEF Nothing
    <3>2. Located(chunks, index.written, of.covers, of.start, published.start)
      BY <2>1, <2>5, <3>1 DEF PublishedInv
    <3>3. BytesFor(of.start) < of.covers => published.start = PositionIn(chunks, BytesFor(of.start))
      BY <3>2 DEF Located
    <3>4. EndsRightly(BytesFor(of.start), published.start)
      BY <2>2, <3>1, <3>2, LocatedEnd
    <3> QED
      BY <3>3, <3>4 DEF Position, PositionIn, Holds
  <2> QED
    BY <2>3, <2>4, <2>5 DEF WordsKeepTheirPlace
<1> QED
  BY <1>1, ResultsInvariant, PTL

(* Published words never go back in source time, in a transcript, from one  *)
(* to the next or over a reconnect, and a transcript's bounds are those of  *)
(* its words.  (session.go sourceTime.)                                     *)
THEOREM ResultsInSourceOrder == Spec => []PublishedInSourceOrder
<1>1. ASSUME published.words = <<>> PROVE PublishedInSourceOrder
  <2>1. Measured(published.words) = {}
    BY <1>1 DEF Measured
  <2> QED
    BY <2>1 DEF PublishedInSourceOrder
<1>2. ASSUME published'.words = <<>> PROVE PublishedInSourceOrder'
  <2>1. Measured(published'.words) = {}
    BY <1>2 DEF Measured
  <2> QED
    BY <2>1 DEF PublishedInSourceOrder, Measured
<1>3. Init => PublishedInSourceOrder
  BY <1>1 DEF Init, Unpublished
<1>4. ASSUME ResultsInv, PublishedInSourceOrder, [Next]_vars
      PROVE  PublishedInSourceOrder'
  <2>1. CASE UNCHANGED published
    BY <1>4, <2>1 DEF PublishedInSourceOrder, Measured
  <2>2. CASE Read \/ Reconnect \/ PublishMusic
    <3>1. \/ published' = Unpublished
          \/ published' = [Unpublished EXCEPT !.of = message, !.start = answers[1].at]
      BY <2>2 DEF Read, Reconnect, ReconnectWith, PublishMusic
    <3>2. published'.words = <<>>
      <4>1. Unpublished.words = <<>>
        BY DEF Unpublished
      <4>2. [Unpublished EXCEPT !.of = message, !.start = answers[1].at].words = <<>>
        BY DEF Unpublished
      <4> QED
        BY <3>1, <4>1, <4>2, Zenon
    <3> QED
      BY <1>2, <3>2
  <2>3. CASE PublishTranscript
    <3>1. PICK ws : ws = Placements
      OBVIOUS
    <3>2. PICK t : t = SourceTime(message)
      OBVIOUS
    <3>3. /\ message # Nothing /\ message.kind # "music" /\ Len(answers) = Len(Lookups(message))
          /\ published'.words = t.words /\ published'.start = t.start
          /\ published'.duration = t.duration /\ published'.after = heard
      BY <1>4, <2>3, <3>2 DEF PublishTranscript, ResultsInv, FlowInv
    <3>4. /\ t.words = IF message.kind = "text" THEN <<>> ELSE ws
          /\ Measured(ws) # {} => /\ t.start = ws[Min(Measured(ws))].start
                                  /\ t.start + t.duration = ws[Max(Measured(ws))].end
          /\ \A i \in Measured(ws) : heard <= ws[i].start /\ ws[i].start <= ws[i].end
          /\ \A i, j \in Measured(ws) : i < j => ws[i].end <= ws[j].start
      <4>1. Sourced(t, ws)
        BY <1>4, <3>1, <3>2, <3>3, SourceTimePlaces DEF ResultsInv
      <4> QED
        BY <4>1 DEF Sourced
    <3> HIDE <3>1, <3>2
    <3>5. CASE message.kind = "text"
      BY <1>2, <3>3, <3>4, <3>5
    <3>6. CASE message.kind # "text"
      <4>1. published'.words = ws
        BY <3>3, <3>4, <3>6
      <4> QED
        BY <3>3, <3>4, <4>1 DEF PublishedInSourceOrder, Measured
    <3> QED
      BY <3>5, <3>6
  <2> QED
    BY <1>4, <2>1, <2>2, <2>3 DEF Next, Record, Send, ReportWords, ReportText, ReportMusic, Report,
       Resolve, readerVars, vars
<1> QED
  BY <1>3, <1>4, ResultsInvariant, PTL DEF Spec
=============================================================================
