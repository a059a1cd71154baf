------------------------- MODULE MetricsHealthProofs -------------------------
(***************************************************************************)
(* The theorems about what the operator is told, for any windows, caps and  *)
(* bounds: one stamp, read by whoever takes a snapshot, says as much as the *)
(* whole history of events; and the figures of a snapshot are those of the  *)
(* transcripts of the window, whoever trimmed the series before, and when.  *)
(***************************************************************************)
EXTENDS MetricsHealth, FiniteSetTheorems, SequenceTheorems, WellFoundedInduction, TLAPS

(* What the stamp and the two error flags say of what happened so far.      *)
Tells(stamp, anError, of) ==
  /\ stamp \in Int /\ of \subseteq [what : {"event", "error"}, at : Nat]
  /\ stamp = Never <=> of = {}
  /\ stamp # Never => \E f \in of : f.at = stamp
  /\ \A f \in of : f.at <= stamp
  /\ anError <=> \E f \in of : f.what = "error"

BadgeInv ==
  /\ clock \in Nat /\ lastDegradedAt <= clock
  /\ {transcriptErr, auditErr} \subseteq BOOLEAN
  /\ Tells(lastDegradedAt, transcriptErr \/ auditErr, faults)
  /\ reader \in {"idle", "copied"}
  /\ reader = "copied" =>
       /\ {copied.transcriptErr, copied.auditErr} \subseteq BOOLEAN
       /\ Tells(copied.lastDegradedAt, copied.transcriptErr \/ copied.auditErr,
                copied.faults)

(* A new fault, stamped with the instant at which it is.                    *)
LEMMA StampTells ==
  ASSUME NEW stamp \in Int, NEW anError \in BOOLEAN, NEW of,
         Tells(stamp, anError, of), clock \in Nat, stamp <= clock,
         NEW what \in {"event", "error"}
  PROVE  Tells(clock, anError \/ what = "error", of \cup {[what |-> what, at |-> clock]})
<1> DEFINE new == [what |-> what, at |-> clock]
<1>1. new \in [what : {"event", "error"}, at : Nat] /\ new.at = clock /\ new.what = what
  OBVIOUS
<1>2. clock # Never /\ clock \in Int
  BY DEF Never
<1>3. \A f \in of : f.at <= stamp /\ f.at \in Nat
  BY DEF Tells
<1>4. \A f \in of \cup {new} : f.at <= clock
  BY <1>1, <1>3
<1>5. (anError \/ what = "error") <=> \E f \in of \cup {new} : f.what = "error"
  BY <1>1 DEF Tells
<1> HIDE DEF new
<1>6. Tells(clock, anError \/ what = "error", of \cup {new})
  BY <1>1, <1>2, <1>4, <1>5 DEF Tells
<1> QED
  BY <1>6 DEF new

(* Every step that stamps the badge is one of three.                        *)
LEMMA BadgeStamped ==
  ASSUME BadgeInv, NEW what \in {"event", "error"}, MarkDegraded(what, clock),
         {transcriptErr', auditErr'} \subseteq BOOLEAN,
         (transcriptErr' \/ auditErr') <=> (transcriptErr \/ auditErr \/ what = "error"),
         UNCHANGED <<clock, readerVars>>
  PROVE  BadgeInv'
<1> DEFINE anError == transcriptErr \/ auditErr
<1>1. /\ lastDegradedAt' = clock /\ faults' = faults \cup {[what |-> what, at |-> clock]}
      /\ UNCHANGED <<clock, reader, copied>>
  BY DEF MarkDegraded, readerVars
<1>2. /\ lastDegradedAt \in Int /\ anError \in BOOLEAN /\ clock \in Nat
      /\ Tells(lastDegradedAt, anError, faults)
      /\ lastDegradedAt <= clock
  BY DEF BadgeInv, Tells
<1>3. Tells(clock, anError \/ what = "error", faults \cup {[what |-> what, at |-> clock]})
  <2> HIDE DEF anError
  <2> QED
    BY <1>2, StampTells
<1>4. Tells(lastDegradedAt', transcriptErr' \/ auditErr', faults')
  BY <1>1, <1>3 DEF Tells
<1> QED
  BY <1>1, <1>2, <1>4 DEF BadgeInv

(* Only the stamping steps, the copy and the clock touch the badge.         *)

LEMMA BadgeStep == BadgeInv /\ [Next]_vars => BadgeInv'
<1> SUFFICES ASSUME BadgeInv, [Next]_vars
             PROVE  BadgeInv'
  OBVIOUS
<1>1. CASE UNCHANGED <<clock, lastDegradedAt, transcriptErr, auditErr, faults, readerVars>>
  BY <1>1 DEF BadgeInv, readerVars
<1>2. ASSUME NEW c \in degrading, Stamp(c) PROVE BadgeInv'
  BY <1>2, BadgeStamped DEF Stamp, StampWith, BadgeInv
<1>3. CASE SetTranscriptError
  BY <1>3, BadgeStamped DEF SetTranscriptError, BadgeInv
<1>4. CASE SetAuditError
  BY <1>4, BadgeStamped DEF SetAuditError, BadgeInv
<1>5. CASE Copy
  <2>1. /\ UNCHANGED <<clock, lastDegradedAt, transcriptErr, auditErr, faults>>
        /\ reader' = "copied"
    BY <1>5 DEF Copy, badgeVars
  <2>2. /\ copied'.lastDegradedAt = lastDegradedAt /\ copied'.faults = faults
        /\ copied'.transcriptErr = transcriptErr /\ copied'.auditErr = auditErr
    BY <1>5 DEF Copy
  <2> QED
    BY <2>1, <2>2 DEF BadgeInv
<1>6. CASE Return
  BY <1>6 DEF Return, badgeVars, BadgeInv
<1>7. CASE Tick
  <2>1. clock' = clock + 1 /\ UNCHANGED <<lastDegradedAt, transcriptErr, auditErr, faults, reader, copied>>
    BY <1>7 DEF Tick, badgeVars, readerVars
  <2>2. clock' \in Nat /\ lastDegradedAt' <= clock'
    BY <2>1 DEF BadgeInv, Tells
  <2> QED
    BY <2>1, <2>2 DEF BadgeInv
<1>8. ASSUME NEW split \in Splits, ObserveLatency(split) PROVE BadgeInv'
  BY <1>1, <1>8 DEF ObserveLatency, badgeVars
<1>9. CASE ReadClock \/ ObservePhases
  BY <1>1, <1>9 DEF ReadClock, ObservePhases, badgeVars
<1>10. CASE Capturing \/ Unavailable \/ Restart
  BY <1>1, <1>10 DEF Capturing, Unavailable, Restart, Count, badgeVars
<1>11. CASE Engine \/ SetClosed
  BY <1>1, <1>11 DEF Engine, SetSTTState, Fail, Reconnect, Count, SetClosed, badgeVars
<1>12. CASE UNCHANGED vars
  BY <1>1, <1>12 DEF vars, badgeVars
<1> QED
  BY <1>2, <1>3, <1>4, <1>5, <1>6, <1>7, <1>8, <1>9, <1>10, <1>11, <1>12 DEF Next

(* The stamp is in the window as soon as any fault is.                      *)
LEMMA WindowTells ==
  ASSUME BadgeInv, reader = "copied", DegradedWindow \in Nat
  PROVE  (InWindow \/ copied.transcriptErr \/ copied.auditErr)
           <=> \E f \in copied.faults : f.what = "error" \/ clock - f.at <= DegradedWindow
<1> DEFINE stamp == copied.lastDegradedAt
           of == copied.faults
<1>1. /\ stamp \in Int /\ clock \in Nat /\ of \subseteq [what : {"event", "error"}, at : Nat]
      /\ stamp = Never <=> of = {}
      /\ stamp # Never => \E f \in of : f.at = stamp
      /\ \A f \in of : f.at <= stamp
      /\ (copied.transcriptErr \/ copied.auditErr) <=> \E f \in of : f.what = "error"
  BY DEF BadgeInv, Tells
<1>2. InWindow => \E f \in of : clock - f.at <= DegradedWindow
  BY <1>1 DEF InWindow
<1>3. ASSUME NEW f \in of, clock - f.at <= DegradedWindow PROVE InWindow
  <2>1. f.at \in Nat /\ f.at <= stamp /\ stamp # Never
    BY <1>1
  <2> QED
    BY <1>1, <1>3, <2>1 DEF InWindow
<1> QED
  BY <1>1, <1>2, <1>3

(* What a snapshot says is what happened: the latest stamp alone decides as *)
(* every event and error so far would, whoever stamped it, whenever the     *)
(* counters were read (degrade, markDegradedLocked, the switch of Snapshot).*)
THEOREM BadgeTellsHistory == Spec => []HealthTellsHistory
<1>1. Init => BadgeInv
  <2> SUFFICES ASSUME Init PROVE BadgeInv
    OBVIOUS
  <2>1. /\ clock = 0 /\ lastDegradedAt = -1 /\ faults = {} /\ reader = "idle"
        /\ transcriptErr = FALSE /\ auditErr = FALSE
    BY DEF Init, Never
  <2>2. Tells(lastDegradedAt, transcriptErr \/ auditErr, faults)
    BY <2>1 DEF Tells, Never
  <2>3. clock \in Nat /\ lastDegradedAt <= clock /\ reader \in {"idle", "copied"} /\ reader # "copied"
    BY <2>1
  <2>4. {transcriptErr, auditErr} \subseteq BOOLEAN
    BY <2>1
  <2> QED
    BY <2>2, <2>3, <2>4 DEF BadgeInv
<1>2. BadgeInv => HealthTellsHistory
  <2> SUFFICES ASSUME BadgeInv, reader = "copied" PROVE HealthTellsHistory
    BY DEF HealthTellsHistory
  <2>1. (InWindow \/ copied.transcriptErr \/ copied.auditErr)
          <=> \E f \in copied.faults : f.what = "error" \/ clock - f.at <= DegradedWindow
    BY WindowTells, MetricsSizes
  <2> QED
    BY <2>1 DEF HealthTellsHistory, Health, SourceGone
<1> QED
  BY <1>1, <1>2, BadgeStep, PTL DEF Spec
-----------------------------------------------------------------------------
(* The figures.                                                             *)

Names == Phases \cup {"caption"}

(* A transcript that was heard, a sample of one, and one in hand.          *)
Split == [upload : Int, recognize : Int, assemble : Int]
Transcript == [of : Nat, split : Split, at : Nat]
Sample == [d : Nat, at : Nat, of : Nat]
Hand == [of : Nat, split : Split, now : Nat \cup {Never}]

(* Transcripts are observed in the order of time, before now.               *)
Timely(all, now) ==
  /\ all \in Seq(Transcript) /\ now \in Nat
  /\ \A i \in 1..Len(all) : all[i].at <= now
  /\ \A i, k \in 1..Len(all) : i <= k => all[i].at <= all[k].at

(* The samples s are of measured transcripts, in their order.               *)
OfMeasured(name, all, s) ==
  /\ s \in Seq(Sample)
  /\ \A j \in 1..Len(s) :
       /\ s[j].of \in 1..Len(all) /\ Measured(name, all[s[j].of])
       /\ s[j].d = Measure(name, all[s[j].of]) /\ s[j].at = all[s[j].of].at
  /\ \A j, k \in 1..Len(s) : j < k => s[j].of < s[k].of

(* A transcript without a sample in s is too old, or s is full of later ones*)
Accounted(i, all, s, now) ==
  \/ \E j \in 1..Len(s) : s[j].of = i
  \/ now - all[i].at > LatencyWindow
  \/ Len(s) >= LatencyCap /\ i < s[1].of

Keeps(name, all, s, now) ==
  /\ OfMeasured(name, all, s)
  /\ \A i \in 1..Len(all) : Measured(name, all[i]) => Accounted(i, all, s, now)

(* The one in hand c is the next for the phases of done, and the instant    *)
(* read for them, if it was read, is not before that of any of them.        *)
InHand(c, done, now) ==
  /\ c \in Hand /\ c.of = Len(done) + 1
  /\ c.now # Never => c.now <= now /\ \A i \in 1..Len(done) : done[i].at <= c.now

SeriesInv ==
  /\ DOMAIN series = Names
  /\ \A name \in Names :
       Timely(Observed(name), clock) /\ Keeps(name, Observed(name), series[name], clock)
  /\ consumer # Nobody => InHand(consumer, phased, clock)
  /\ Len(heard) = IF consumer = Nobody THEN Len(phased) ELSE Len(phased) + 1

(* A set of naturals has a least element, and a bounded one a greatest.     *)
LEMMA LeastPlace ==
  ASSUME NEW P, P \subseteq Nat, P # {}
  PROVE  \E p \in P : \A q \in P : p <= q
<1>1. PICK p \in P : \A q \in P : ~(<<q, p>> \in OpToRel(<, Nat))
  BY NatLessThanWellFounded, WFMin, Zenon
<1>2. \A q \in P : ~(q < p)
  BY <1>1 DEF OpToRel
<1> QED
  BY <1>2

LEMMA GreatestPlace ==
  ASSUME NEW n \in Nat, NEW P, P \subseteq 1..n, P # {}
  PROVE  \E p \in P : \A q \in P : q <= p
<1> DEFINE R == {n - p : p \in P}
<1>0. \A p \in P : n - p \in Nat
  OBVIOUS
<1>1. R \subseteq Nat /\ R # {}
  BY <1>0
<1>2. PICK r \in R : \A q \in R : r <= q
  BY <1>1, LeastPlace
<1>3. PICK p \in P : r = n - p
  BY <1>2
<1>4. \A q \in P : n - p <= n - q
  BY <1>2, <1>3
<1> QED
  BY <1>4

(* Min picks the least of a set of naturals.                                *)

LEMMA MinOf ==
  ASSUME NEW P, P \subseteq Nat, P # {}
  PROVE  Min(P) \in P /\ \A q \in P : Min(P) <= q
BY LeastPlace DEF Min

(* Max and Min of two numbers.                                              *)

LEMMA MaxOfTwo ==
  ASSUME NEW a \in Int, NEW b \in Int
  PROVE  Max({a, b}) = IF a >= b THEN a ELSE b
<1>1. \E x \in {a, b} : \A y \in {a, b} : x >= y
  OBVIOUS
<1>2. Max({a, b}) \in {a, b} /\ \A y \in {a, b} : Max({a, b}) >= y
  BY <1>1 DEF Max
<1> QED
  BY <1>2

LEMMA MinOfTwo ==
  ASSUME NEW a \in Int, NEW b \in Int
  PROVE  Min({a, b}) = IF a <= b THEN a ELSE b
<1>1. \E x \in {a, b} : \A y \in {a, b} : x <= y
  OBVIOUS
<1>2. Min({a, b}) \in {a, b} /\ \A y \in {a, b} : Min({a, b}) <= y
  BY <1>1 DEF Min
<1> QED
  BY <1>2

(* What a sample is made of.                                                *)

LEMMA SamplesAre ==
  ASSUME NEW s \in Seq(Sample), NEW j \in 1..Len(s)
  PROVE  s[j].d \in Nat /\ s[j].at \in Nat /\ s[j].of \in Nat
<1>1. s[j] \in Sample
  OBVIOUS
<1> QED
  BY <1>1 DEF Sample

(* trim drops the first c samples: those that are too old, or as many as    *)
(* leave LatencyCap; none of the others is too old.                         *)
LEMMA TrimDrops ==
  ASSUME NEW s \in Seq(Sample), NEW now \in Nat,
         \A j, k \in 1..Len(s) : j <= k => s[j].at <= s[k].at
  PROVE  \E c \in 0..Len(s) :
           /\ Trim(s, now) \in Seq(Sample) /\ Len(Trim(s, now)) = Len(s) - c
           /\ \A j \in 1..(Len(s) - c) : Trim(s, now)[j] = s[j + c]
           /\ Len(s) - c <= LatencyCap
           /\ (\A j \in 1..c : now - s[j].at > LatencyWindow) \/ Len(s) - c = LatencyCap
           /\ \A j \in (c + 1)..Len(s) : now - s[j].at <= LatencyWindow
<1> DEFINE n == Len(s)
           young == {i \in 1..n : now - s[i].at <= LatencyWindow}
           aged == IF young = {} THEN n ELSE Min(young) - 1
           over == n - LatencyCap
           c == IF aged >= over THEN aged ELSE over
<1>1. n \in Nat /\ over \in Int /\ over < n /\ LatencyCap \in Nat /\ LatencyWindow \in Nat
  BY MetricsSizes
<1>2. \A j \in 1..n : s[j].at \in Nat
  BY SamplesAre
<1>3. /\ aged \in 0..n
      /\ \A j \in 1..aged : now - s[j].at > LatencyWindow
      /\ \A j \in (aged + 1)..n : now - s[j].at <= LatencyWindow
  <2>1. CASE young = {}
    <3>1. aged = n
      BY <2>1
    <3>2. \A j \in 1..n : now - s[j].at > LatencyWindow
      BY <2>1, <1>1, <1>2
    <3> HIDE DEF aged
    <3> QED
      BY <3>1, <3>2, <1>1
  <2>2. CASE young # {}
    <3>1. Min(young) \in young /\ \A q \in young : Min(young) <= q
      <4>1. young \subseteq Nat
        OBVIOUS
      <4> QED
        BY <2>2, <4>1, MinOf
    <3>2. PICK m \in 1..n : m = Min(young) /\ now - s[m].at <= LatencyWindow
                            /\ \A q \in young : m <= q
      BY <3>1
    <3>3. aged = m - 1
      BY <2>2, <3>2
    <3>4. \A j \in 1..(m - 1) : now - s[j].at > LatencyWindow
      BY <3>2, <1>1, <1>2
    <3>5. \A j \in m..n : now - s[j].at <= LatencyWindow
      BY <3>2, <1>1, <1>2
    <3> HIDE DEF aged
    <3> QED
      BY <3>3, <3>4, <3>5, <1>1
  <2> QED
    BY <2>1, <2>2
<1>4. Trim(s, now) = SubSeq(s, c + 1, n)
  <2>1. Trim(s, now) = SubSeq(s, Max({aged, over}) + 1, n)
    BY DEF Trim
  <2>2. aged \in Int /\ over \in Int
    BY <1>1, <1>3
  <2> HIDE DEF aged, over
  <2>3. Max({aged, over}) = c
    BY <2>2, MaxOfTwo
  <2> QED
    BY <2>1, <2>3
<1> HIDE DEF young, aged, over
<1>5. c \in 0..n
  BY <1>1, <1>3
<1>6. /\ Trim(s, now) \in Seq(Sample) /\ Len(Trim(s, now)) = n - c
      /\ \A j \in 1..(n - c) : Trim(s, now)[j] = s[j + c]
  <2> HIDE DEF c
  <2>1. c + 1 \in 1..(n + 1)
    BY <1>1, <1>5
  <2> QED
    BY <1>4, <1>5, <1>1, <2>1
<1>7. n - c <= LatencyCap
  BY <1>1, <1>3 DEF over
<1>8. (\A j \in 1..c : now - s[j].at > LatencyWindow) \/ n - c = LatencyCap
  BY <1>1, <1>3 DEF over
<1>9. \A j \in (c + 1)..n : now - s[j].at <= LatencyWindow
  BY <1>1, <1>3
<1> QED
  BY <1>5, <1>6, <1>7, <1>8, <1>9

(* Samples stand in the order of time and of their transcripts.             *)

LEMMA SamplesInTime ==
  ASSUME NEW name, NEW all, NEW s, NEW now, Timely(all, now), OfMeasured(name, all, s)
  PROVE  \A j, k \in 1..Len(s) : j <= k => s[j].at <= s[k].at /\ s[j].of <= s[k].of
<1> SUFFICES ASSUME NEW j \in 1..Len(s), NEW k \in 1..Len(s), j <= k
             PROVE  s[j].at <= s[k].at /\ s[j].of <= s[k].of
  OBVIOUS
<1>1. s[j].of \in 1..Len(all) /\ s[k].of \in 1..Len(all) /\ s[j].of <= s[k].of
  BY DEF OfMeasured
<1>2. all[s[j].of].at <= all[s[k].of].at
  BY <1>1 DEF Timely
<1> QED
  BY <1>1, <1>2 DEF OfMeasured

(* A trim at any instant up to now loses nothing that is still wanted.      *)
LEMMA TrimKeeps ==
  ASSUME NEW name, NEW all, NEW s, NEW now, NEW then \in Nat, then <= now,
         Timely(all, now), Keeps(name, all, s, now)
  PROVE  /\ Keeps(name, all, Trim(s, then), now)
         /\ Len(Trim(s, then)) <= LatencyCap
         /\ \A j \in 1..Len(Trim(s, then)) : then - Trim(s, then)[j].at <= LatencyWindow
<1>1. s \in Seq(Sample) /\ OfMeasured(name, all, s)
  BY DEF Keeps, OfMeasured
<1>2. \A j, k \in 1..Len(s) : j <= k => s[j].at <= s[k].at /\ s[j].of <= s[k].of
  BY <1>1, SamplesInTime
<1>3. PICK c \in 0..Len(s) :
        /\ Trim(s, then) \in Seq(Sample) /\ Len(Trim(s, then)) = Len(s) - c
        /\ \A j \in 1..(Len(s) - c) : Trim(s, then)[j] = s[j + c]
        /\ Len(s) - c <= LatencyCap
        /\ (\A j \in 1..c : then - s[j].at > LatencyWindow) \/ Len(s) - c = LatencyCap
        /\ \A j \in (c + 1)..Len(s) : then - s[j].at <= LatencyWindow
  BY <1>1, <1>2, TrimDrops
<1>4. PICK t : t = Trim(s, then)
  OBVIOUS
<1>5. /\ t \in Seq(Sample) /\ Len(t) = Len(s) - c
      /\ \A j \in 1..Len(t) : t[j] = s[j + c] /\ j + c \in 1..Len(s)
  BY <1>1, <1>3, <1>4
<1>6. OfMeasured(name, all, t)
  <2>1. \A j \in 1..Len(t) :
          /\ t[j].of \in 1..Len(all) /\ Measured(name, all[t[j].of])
          /\ t[j].d = Measure(name, all[t[j].of]) /\ t[j].at = all[t[j].of].at
    BY <1>1, <1>5 DEF OfMeasured
  <2>2. \A j, k \in 1..Len(t) : j < k => t[j].of < t[k].of
    <3> SUFFICES ASSUME NEW j \in 1..Len(t), NEW k \in 1..Len(t), j < k
                 PROVE  t[j].of < t[k].of
      OBVIOUS
    <3>1. j + c \in 1..Len(s) /\ k + c \in 1..Len(s) /\ j + c < k + c
      BY <1>5
    <3>2. s[j + c].of < s[k + c].of
      BY <1>1, <3>1 DEF OfMeasured
    <3> QED
      BY <1>5, <3>2
  <2> QED
    BY <1>5, <2>1, <2>2 DEF OfMeasured
<1>7. ASSUME NEW i \in 1..Len(all), Measured(name, all[i])
      PROVE  Accounted(i, all, t, now)
  <2>0. /\ all[i].at \in Nat /\ i \in Nat /\ now \in Nat /\ Len(s) \in Nat
        /\ LatencyWindow \in Nat /\ LatencyCap \in Nat \ {0}
    <3>1. all[i] \in Transcript
      BY DEF Timely
    <3>2. all[i].at \in Nat
      BY <3>1 DEF Transcript
    <3>3. now \in Nat /\ Len(s) \in Nat
      BY <1>1 DEF Timely
    <3>4. i \in Nat
      <4>1. all \in Seq(Transcript)
        BY DEF Timely
      <4> QED
        BY <4>1
    <3> QED
      BY <3>2, <3>3, <3>4, MetricsSizes
  <2>a. \A j \in 1..Len(s) : s[j].of \in Nat /\ s[j].of \in 1..Len(all) /\ s[j].at \in Nat
                             /\ s[j].at = all[s[j].of].at
    BY <1>1, SamplesAre DEF OfMeasured
  <2>b. ASSUME NEW j \in 1..c, i <= s[j].of PROVE Accounted(i, all, t, now)
    <3>0. j \in 1..Len(s)
      BY <1>3, <2>0
    <3>1. CASE then - s[j].at > LatencyWindow
      <4>1. all[i].at <= s[j].at
        BY <3>0, <2>a, <2>b, <2>0 DEF Timely
      <4>2. now - all[i].at > LatencyWindow
        BY <3>1, <4>1, <2>0, <3>0, <2>a
      <4> QED
        BY <4>2 DEF Accounted
    <3>2. CASE Len(s) - c = LatencyCap
      <4>1. Len(t) >= LatencyCap /\ 1 \in 1..Len(t) /\ t[1] = s[1 + c] /\ 1 + c \in 1..Len(s)
        BY <3>2, <1>5, <2>0
      <4>2. s[j].of < s[1 + c].of
        BY <3>0, <4>1, <1>1 DEF OfMeasured
      <4>3. i < t[1].of
        BY <4>1, <4>2, <2>a, <2>b, <3>0, <2>0
      <4> QED
        BY <4>1, <4>3 DEF Accounted
    <3> QED
      BY <3>1, <3>2, <1>3
  <2>1. CASE \E j \in 1..Len(s) : s[j].of = i
    <3>1. PICK j \in 1..Len(s) : s[j].of = i
      BY <2>1
    <3>2. CASE j <= c
      BY <3>1, <3>2, <2>b, <2>0
    <3>3. CASE j > c
      <4>1. j - c \in 1..Len(t) /\ (j - c) + c = j
        BY <3>3, <1>5, <1>3, <2>0
      <4>2. t[j - c] = s[(j - c) + c]
        BY <4>1, <1>5
      <4> QED
        BY <4>1, <4>2, <3>1 DEF Accounted
    <3> QED
      BY <3>2, <3>3, <2>0, <1>3
  <2>2. CASE now - all[i].at > LatencyWindow
    BY <2>2 DEF Accounted
  <2>3. CASE Len(s) >= LatencyCap /\ i < s[1].of
    <3>1. CASE c = 0
      <4>1. Len(t) = Len(s) /\ 1 \in 1..Len(t) /\ t[1] = s[1 + c]
        BY <3>1, <1>5, <2>3, <2>0
      <4>2. 1 + c = 1
        BY <3>1
      <4> QED
        BY <4>1, <4>2, <2>3 DEF Accounted
    <3>2. CASE c > 0
      <4>1. 1 \in 1..c /\ i <= s[1].of
        BY <3>2, <2>3, <2>a, <2>0, <1>3
      <4> QED
        BY <4>1, <2>b
    <3> QED
      BY <3>1, <3>2, <1>3
  <2> QED
    BY <2>1, <2>2, <2>3, <1>7 DEF Keeps, Accounted
<1>8. Keeps(name, all, t, now)
  BY <1>6, <1>7 DEF Keeps
<1>9. \A j \in 1..Len(t) : then - t[j].at <= LatencyWindow
  <2> SUFFICES ASSUME NEW j \in 1..Len(t) PROVE then - t[j].at <= LatencyWindow
    OBVIOUS
  <2>1. j + c \in (c + 1)..Len(s) /\ t[j] = s[j + c]
    BY <1>5, <1>3
  <2> QED
    BY <2>1, <1>3
<1> QED
  BY <1>3, <1>4, <1>8, <1>9

(* One more transcript, with a sample of it if it is measured.              *)
LEMMA AppendKeeps ==
  ASSUME NEW name \in Names, NEW all, NEW s, NEW now, NEW x \in Transcript,
         all \in Seq(Transcript), Keeps(name, all, s, now)
  PROVE  /\ ~Measured(name, x) => Keeps(name, Append(all, x), s, now)
         /\ Measured(name, x) =>
              Keeps(name, Append(all, x),
                    Append(s, [d |-> Measure(name, x), at |-> x.at, of |-> Len(all) + 1]), now)
<1> DEFINE n == Len(all)
           more == Append(all, x)
           new == [d |-> Measure(name, x), at |-> x.at, of |-> n + 1]
<1>1. /\ n \in Nat /\ more \in Seq(Transcript) /\ Len(more) = n + 1
      /\ \A i \in 1..n : more[i] = all[i] /\ more[n + 1] = x
  OBVIOUS
<1>2. OfMeasured(name, all, s) /\ s \in Seq(Sample) /\ Len(s) \in Nat
  BY DEF Keeps, OfMeasured
<1>3. \A j \in 1..Len(s) :
        /\ s[j].of \in 1..n /\ Measured(name, all[s[j].of])
        /\ s[j].d = Measure(name, all[s[j].of]) /\ s[j].at = all[s[j].of].at
        /\ s[j].of \in 1..(n + 1) /\ more[s[j].of] = all[s[j].of]
  BY <1>1, <1>2 DEF OfMeasured
<1> HIDE DEF more
<1>4. CASE ~Measured(name, x)
  <2>1. OfMeasured(name, more, s)
    BY <1>1, <1>2, <1>3 DEF OfMeasured
  <2>2. ASSUME NEW i \in 1..(n + 1), Measured(name, more[i]) PROVE Accounted(i, more, s, now)
    <3>1. i \in 1..n /\ more[i] = all[i]
      <4>1. more[n + 1] = x
        BY <1>1 DEF more
      <4>2. i # n + 1
        BY <1>4, <2>2, <4>1
      <4> QED
        BY <1>1, <4>2
    <3>2. Accounted(i, all, s, now)
      BY <3>1, <2>2 DEF Keeps
    <3> QED
      BY <3>1, <3>2 DEF Accounted
  <2> QED
    BY <1>1, <1>4, <2>1, <2>2 DEF Keeps, more
<1>5. CASE Measured(name, x)
  <2> DEFINE t == Append(s, new)
  <2>0. more[n + 1] = x
    BY <1>1 DEF more
  <2>1. new \in Sample
    <3>1. x.at \in Nat /\ {x.split.upload, x.split.recognize, x.split.assemble} \subseteq Int
      BY DEF Transcript, Split
    <3>2. Measure(name, x) \in Nat
      <4>1. CASE name = "caption"
        BY <1>5, <3>1, <4>1 DEF Measure, Measured, Total
      <4>2. CASE name = "upload"
        BY <1>5, <3>1, <4>2 DEF Measure, Measured, Phases
      <4>3. CASE name = "recognize"
        BY <1>5, <3>1, <4>3 DEF Measure, Measured, Phases
      <4>4. CASE name = "assemble"
        BY <1>5, <3>1, <4>4 DEF Measure, Measured, Phases
      <4> QED
        BY <4>1, <4>2, <4>3, <4>4 DEF Names, Phases
    <3> QED
      BY <3>1, <3>2, <1>1 DEF Sample
  <2>2. new.of = n + 1 /\ new.d = Measure(name, x) /\ new.at = x.at
    OBVIOUS
  <2> HIDE DEF new
  <2>3. /\ t \in Seq(Sample) /\ Len(t) = Len(s) + 1
        /\ \A j \in 1..Len(s) : t[j] = s[j]
        /\ t[Len(s) + 1] = new
    BY <1>2, <2>1
  <2> HIDE DEF t
  <2>4. OfMeasured(name, more, t)
    <3>1. \A j \in 1..Len(t) :
            /\ t[j].of \in 1..(n + 1) /\ Measured(name, more[t[j].of])
            /\ t[j].d = Measure(name, more[t[j].of]) /\ t[j].at = more[t[j].of].at
      <4> SUFFICES ASSUME NEW j \in 1..Len(t)
                   PROVE  /\ t[j].of \in 1..(n + 1) /\ Measured(name, more[t[j].of])
                          /\ t[j].d = Measure(name, more[t[j].of]) /\ t[j].at = more[t[j].of].at
        OBVIOUS
      <4>1. CASE j = Len(s) + 1
        <5>1. t[j] = new
          BY <2>3, <4>1
        <5> QED
          BY <5>1, <2>2, <2>0, <1>1, <1>5
      <4>2. CASE j \in 1..Len(s)
        BY <2>3, <4>2, <1>3
      <4> QED
        BY <4>1, <4>2, <2>3, <1>2
    <3>2. \A j, k \in 1..Len(t) : j < k => t[j].of < t[k].of
      <4> SUFFICES ASSUME NEW j \in 1..Len(t), NEW k \in 1..Len(t), j < k
                   PROVE  t[j].of < t[k].of
        OBVIOUS
      <4>1. j \in 1..Len(s) /\ t[j] = s[j] /\ s[j].of \in 1..n
        BY <2>3, <1>2, <1>3
      <4>2. CASE k = Len(s) + 1
        <5>1. t[k] = new
          BY <2>3, <4>2
        <5> QED
          BY <5>1, <4>1, <2>2, <1>1
      <4>3. CASE k \in 1..Len(s)
        BY <2>3, <4>1, <4>3, <1>2 DEF OfMeasured
      <4> QED
        BY <4>2, <4>3, <2>3, <1>2
    <3> QED
      BY <1>1, <2>3, <3>1, <3>2 DEF OfMeasured
  <2>5. ASSUME NEW i \in 1..(n + 1), Measured(name, more[i]) PROVE Accounted(i, more, t, now)
    <3>1. CASE i = n + 1
      <4>1. Len(s) + 1 \in 1..Len(t) /\ t[Len(s) + 1].of = i
        BY <2>3, <2>2, <1>2, <3>1
      <4> QED
        BY <4>1 DEF Accounted
    <3>2. CASE i \in 1..n
      <4>1. more[i] = all[i] /\ Accounted(i, all, s, now)
        BY <3>2, <2>5, <1>1 DEF Keeps, more
      <4>2. CASE \E j \in 1..Len(s) : s[j].of = i
        <5>1. PICK j \in 1..Len(s) : s[j].of = i
          BY <4>2
        <5>2. j \in 1..Len(t) /\ t[j].of = i
          BY <5>1, <2>3, <1>2
        <5> QED
          BY <5>2 DEF Accounted
      <4>3. CASE now - all[i].at > LatencyWindow
        BY <4>1, <4>3 DEF Accounted
      <4>4. CASE Len(s) >= LatencyCap /\ i < s[1].of
        <5>1. LatencyCap \in Nat \ {0}
          BY MetricsSizes
        <5>2. 1 \in 1..Len(s)
          BY <5>1, <4>4, <1>2
        <5>3. t[1] = s[1] /\ Len(t) >= LatencyCap
          BY <5>1, <5>2, <4>4, <1>2, <2>3
        <5> QED
          BY <5>3, <4>4 DEF Accounted
      <4> QED
        BY <4>1, <4>2, <4>3, <4>4 DEF Accounted
    <3> QED
      BY <3>1, <3>2, <1>1
  <2>6. Keeps(name, more, t, now)
    <3>1. Len(more) = n + 1
      BY <1>1 DEF more
    <3> QED
      BY <3>1, <2>4, <2>5 DEF Keeps
  <2> QED
    BY <1>5, <2>6 DEF more, t, new
<1> QED
  BY <1>4, <1>5

(* observe, of a series that was told of the transcripts before x.          *)
LEMMA ObserveKeeps ==
  ASSUME NEW name \in Names, NEW all, NEW s, NEW now, NEW x \in Transcript,
         Timely(Append(all, x), now), all \in Seq(Transcript), Keeps(name, all, s, now),
         Measured(name, x)
  PROVE  Keeps(name, Append(all, x), Observe(s, Measure(name, x), x.at, Len(all) + 1), now)
<1> DEFINE t == Append(s, [d |-> Measure(name, x), at |-> x.at, of |-> Len(all) + 1])
<1>1. Keeps(name, Append(all, x), t, now)
  BY AppendKeeps
<1>2. x.at \in Nat /\ x.at <= now
  <2>1. Append(all, x)[Len(all) + 1] = x /\ Len(Append(all, x)) = Len(all) + 1
        /\ Len(all) + 1 \in 1..(Len(all) + 1)
    OBVIOUS
  <2>2. Append(all, x)[Len(all) + 1].at <= now
    BY <2>1 DEF Timely
  <2> QED
    BY <2>1, <2>2 DEF Transcript
<1>3. Keeps(name, Append(all, x), Trim(t, x.at), now)
  <2> HIDE DEF t
  <2> QED
    BY <1>1, <1>2, TrimKeeps
<1>4. ~(Measure(name, x) < 0)
  <2>1. CASE name = "caption"
    <3>1. Total(x.split) \in Int
      BY DEF Transcript, Split, Total
    <3> QED
      BY <2>1, <3>1 DEF Measured, Measure
  <2>2. CASE name \in Phases
    <3>1. x.split[name] \in Int /\ name # "caption"
      BY <2>2 DEF Transcript, Split, Phases
    <3> QED
      BY <2>2, <3>1 DEF Measured, Measure
  <2> QED
    BY <2>1, <2>2 DEF Names
<1>5. Observe(s, Measure(name, x), x.at, Len(all) + 1) = Trim(t, x.at)
  BY <1>4 DEF Observe
<1> QED
  BY <1>3, <1>5

(* Nothing is wanted later that is not wanted now.                          *)
LEMMA LaterKeeps ==
  ASSUME NEW name, NEW all, NEW s, NEW now, Timely(all, now), Keeps(name, all, s, now)
  PROVE  Keeps(name, all, s, now + 1)
<1> SUFFICES ASSUME NEW i \in 1..Len(all), Measured(name, all[i]), Accounted(i, all, s, now)
             PROVE  Accounted(i, all, s, now + 1)
  BY DEF Keeps
<1>1. all[i].at \in Nat /\ now \in Nat
  <2>1. all[i] \in Transcript /\ now \in Nat
    BY DEF Timely
  <2> QED
    BY <2>1 DEF Transcript
<1>2. now - all[i].at > LatencyWindow => (now + 1) - all[i].at > LatencyWindow
  BY <1>1, MetricsSizes
<1>3. CASE now - all[i].at > LatencyWindow
  <2>1. (now + 1) - all[i].at > LatencyWindow
    BY <1>2, <1>3
  <2> QED
    BY <2>1, Zenon DEF Accounted
<1>4. CASE ~(now - all[i].at > LatencyWindow)
  BY <1>4, Zenon DEF Accounted
<1> QED
  BY <1>3, <1>4

(* A transcript observed after those, and not in the future, keeps the order.*)

LEMMA TimelyAppend ==
  ASSUME NEW all, NEW now, Timely(all, now), NEW x \in Transcript, x.at <= now,
         \A i \in 1..Len(all) : all[i].at <= x.at
  PROVE  Timely(Append(all, x), now)
<1>1. all \in Seq(Transcript) /\ now \in Nat
  BY DEF Timely
<1>2. /\ Append(all, x) \in Seq(Transcript) /\ Len(Append(all, x)) = Len(all) + 1
      /\ Len(all) \in Nat
      /\ \A i \in 1..Len(all) : Append(all, x)[i] = all[i]
      /\ Append(all, x)[Len(all) + 1] = x
  BY <1>1
<1>3. PICK more : more = Append(all, x)
  OBVIOUS
<1>4. \A i \in 1..Len(more) : (i \in 1..Len(all) /\ more[i] = all[i]) \/ (i = Len(all) + 1 /\ more[i] = x)
  BY <1>2, <1>3
<1>5. \A i \in 1..Len(more) : more[i].at <= now
  BY <1>1, <1>4 DEF Timely
<1>6. \A i, k \in 1..Len(more) : i <= k => more[i].at <= more[k].at
  <2> SUFFICES ASSUME NEW i \in 1..Len(more), NEW k \in 1..Len(more), i <= k
               PROVE  more[i].at <= more[k].at
    OBVIOUS
  <2>0. x.at <= x.at
    BY DEF Transcript
  <2>1. CASE k = Len(all) + 1
    <3>1. more[k] = x
      BY <1>2, <1>3, <2>1
    <3> QED
      BY <3>1, <1>4, <2>0
  <2>2. CASE k \in 1..Len(all)
    <3>1. i \in 1..Len(all)
      BY <2>2, <1>2, <1>3
    <3>2. all[i].at <= all[k].at
      BY <2>2, <3>1 DEF Timely
    <3>3. more[i] = all[i] /\ more[k] = all[k]
      BY <1>2, <1>3, <2>2, <3>1
    <3> QED
      BY <3>2, <3>3
  <2> QED
    BY <2>1, <2>2, <1>4
<1> QED
  BY <1>1, <1>2, <1>3, <1>5, <1>6 DEF Timely

(* Time passing leaves it in order.                                         *)

LEMMA TimelyLater ==
  ASSUME NEW all, NEW now, Timely(all, now)
  PROVE  Timely(all, now + 1)
<1>1. now \in Nat /\ all \in Seq(Transcript)
  BY DEF Timely
<1>2. \A i \in 1..Len(all) : all[i].at \in Nat
  <2> SUFFICES ASSUME NEW i \in 1..Len(all) PROVE all[i].at \in Nat
    OBVIOUS
  <2>1. all[i] \in Transcript
    BY <1>1
  <2> QED
    BY <2>1 DEF Transcript
<1>3. \A i \in 1..Len(all) : all[i].at <= now + 1
  BY <1>1, <1>2 DEF Timely
<1> QED
  BY <1>1, <1>3 DEF Timely

(* A series that observes what is measured of x, or leaves x out.           *)

LEMMA ToldKeeps ==
  ASSUME NEW name \in Names, NEW all, NEW s, NEW t, NEW now, NEW x \in Transcript,
         Timely(Append(all, x), now), all \in Seq(Transcript), Keeps(name, all, s, now),
         t = IF Measured(name, x) THEN Observe(s, Measure(name, x), x.at, Len(all) + 1) ELSE s
  PROVE  Keeps(name, Append(all, x), t, now)
<1>1. CASE Measured(name, x)
  BY <1>1, ObserveKeeps
<1>2. CASE ~Measured(name, x)
  BY <1>2, AppendKeeps
<1> QED
  BY <1>1, <1>2

(* The total is observed before anybody knows of the phases.                *)

LEMMA ObserveLatencyKeeps ==
  ASSUME SeriesInv, NEW split \in Splits, ObserveLatency(split)
  PROVE  SeriesInv'
<1> DEFINE x == [of |-> Len(heard) + 1, split |-> split, at |-> clock]
<1>1. /\ consumer = Nobody /\ clock' = clock /\ phased' = phased
      /\ heard' = Append(heard, x)
      /\ consumer' = [of |-> Len(heard) + 1, split |-> split, now |-> Never]
      /\ series' = [series EXCEPT !["caption"] = Observe(@, Total(split), clock, Len(heard) + 1)]
  BY DEF ObserveLatency
<1>2. /\ Timely(heard, clock) /\ Keeps("caption", heard, series["caption"], clock)
      /\ heard \in Seq(Transcript) /\ clock \in Nat /\ Len(heard) \in Nat
      /\ DOMAIN series = Names /\ Len(heard) = Len(phased)
  BY <1>1 DEF SeriesInv, Timely, Names, Observed
<1>3. split \in Split
  BY MetricsSizes DEF Split
<1>4. x \in Transcript /\ x.split = split /\ x.at = clock
  BY <1>2, <1>3 DEF Transcript, Split
<1> HIDE DEF x
<1>5. Timely(Append(heard, x), clock)
  <2>1. x.at <= clock /\ \A i \in 1..Len(heard) : heard[i].at <= x.at
    BY <1>2, <1>4 DEF Timely
  <2> QED
    BY <2>1, <1>2, <1>4, TimelyAppend
<1>6. Keeps("caption", Append(heard, x), series'["caption"], clock)
  <2>1. Total(x.split) \in Int
    BY <1>4 DEF Transcript, Split, Total
  <2>2. series'["caption"] = Observe(series["caption"], Total(x.split), x.at, Len(heard) + 1)
    BY <1>1, <1>2, <1>4 DEF Names
  <2>3. series'["caption"] = IF Measured("caption", x)
                             THEN Observe(series["caption"], Measure("caption", x), x.at, Len(heard) + 1)
                             ELSE series["caption"]
    BY <2>1, <2>2 DEF Measured, Measure, Observe
  <2> QED
    BY <2>3, <1>2, <1>4, <1>5, ToldKeeps DEF Names
<1>7. DOMAIN series' = Names
  BY <1>1, <1>2
<1>8. ASSUME NEW name \in Names
      PROVE  Timely(Observed(name)', clock') /\ Keeps(name, Observed(name)', series'[name], clock')
  <2>1. CASE name = "caption"
    <3>1. Observed(name)' = Append(heard, x)
      BY <2>1, <1>1 DEF Observed
    <3> QED
      BY <3>1, <2>1, <1>1, <1>5, <1>6
  <2>2. CASE name # "caption"
    <3>1. Observed(name)' = Observed(name) /\ series'[name] = series[name]
      BY <2>2, <1>1, <1>2 DEF Observed
    <3> QED
      BY <3>1, <1>1 DEF SeriesInv
  <2> QED
    BY <2>1, <2>2
<1>9. InHand(consumer, phased, clock)'
  <2>1. consumer' \in Hand /\ consumer'.of = Len(phased) + 1 /\ consumer'.now = Never
    BY <1>1, <1>2, <1>3 DEF Hand
  <2> QED
    BY <2>1, <1>1 DEF InHand
<1>10. consumer' = Nobody => FALSE
  BY <1>1, <1>2 DEF Nobody
<1>11. Len(heard') = Len(phased') + 1
  BY <1>1, <1>2
<1> QED
  BY <1>7, <1>8, <1>9, <1>10, <1>11 DEF SeriesInv

(* The clock is read once more, for the phases.                             *)

LEMMA ReadClockKeeps ==
  ASSUME SeriesInv, ReadClock
  PROVE  SeriesInv'
<1>1. /\ consumer # Nobody /\ consumer' = [consumer EXCEPT !.now = clock]
      /\ UNCHANGED <<clock, series, heard, phased>>
  BY DEF ReadClock
<1>2. /\ consumer \in Hand /\ consumer.of = Len(phased) + 1
      /\ Len(heard) = Len(phased) + 1 /\ DOMAIN series = Names
  BY <1>1 DEF SeriesInv, InHand
<1>3. clock \in Nat /\ \A i \in 1..Len(phased) : phased[i].at <= clock
  <2>1. "upload" \in Names /\ Observed("upload") = phased
    BY DEF Names, Phases, Observed
  <2>2. Timely(phased, clock)
    BY <2>1 DEF SeriesInv
  <2> QED
    BY <2>2 DEF Timely
<1>4. consumer' \in Hand /\ consumer'.of = consumer.of /\ consumer'.now = clock
  BY <1>1, <1>2, <1>3 DEF Hand
<1>5. InHand(consumer, phased, clock)'
  BY <1>1, <1>2, <1>3, <1>4 DEF InHand
<1>6. consumer' # Nobody
  BY <1>3, <1>4 DEF Nobody, Never
<1>7. \A name \in Names : Observed(name)' = Observed(name)
  BY <1>1 DEF Observed
<1> QED
  BY <1>1, <1>2, <1>5, <1>6, <1>7 DEF SeriesInv

(* The phases of the transcript in hand, all of them or none.               *)

LEMMA ObservePhasesKeeps ==
  ASSUME SeriesInv, ObservePhases
  PROVE  SeriesInv'
<1> DEFINE x == [of |-> consumer.of, split |-> consumer.split, at |-> consumer.now]
<1>1. /\ consumer.now # Never /\ consumer' = Nobody /\ clock' = clock /\ heard' = heard
      /\ phased' = Append(phased, x)
      /\ series' = IF \E ph \in Phases : consumer.split[ph] < 0 THEN series
                   ELSE [name \in DOMAIN series |->
                           IF name \in Phases
                           THEN Observe(series[name], consumer.split[name], consumer.now, consumer.of)
                           ELSE series[name]]
  BY DEF ObservePhases
<1>2. consumer # Nobody
  BY <1>1 DEF Nobody
<1>3. /\ consumer \in Hand /\ consumer.of = Len(phased) + 1
      /\ consumer.now \in Nat /\ consumer.now <= clock
      /\ \A i \in 1..Len(phased) : phased[i].at <= consumer.now
      /\ Len(heard) = Len(phased) + 1 /\ DOMAIN series = Names
  BY <1>1, <1>2 DEF SeriesInv, InHand, Hand
<1>4. Timely(phased, clock) /\ phased \in Seq(Transcript) /\ Len(phased) \in Nat
  <2>1. "upload" \in Names /\ Observed("upload") = phased
    BY DEF Names, Phases, Observed
  <2> QED
    BY <2>1 DEF SeriesInv, Timely
<1>5. /\ x \in Transcript /\ x.split = consumer.split /\ x.at = consumer.now
      /\ \A ph \in Phases : x.split[ph] \in Int
  BY <1>3 DEF Transcript, Hand, Split, Phases
<1> HIDE DEF x
<1>6. Timely(Append(phased, x), clock)
  BY <1>3, <1>4, <1>5, TimelyAppend
<1>7. DOMAIN series' = Names
  BY <1>1, <1>3
<1>8. ASSUME NEW name \in Names
      PROVE  Timely(Observed(name)', clock') /\ Keeps(name, Observed(name)', series'[name], clock')
  <2>1. CASE name = "caption"
    <3>1. Observed(name)' = Observed(name) /\ series'[name] = series[name]
      BY <2>1, <1>1, <1>3 DEF Observed, Phases
    <3> QED
      BY <3>1, <1>1 DEF SeriesInv
  <2>2. CASE name \in Phases
    <3>1. name # "caption"
      BY <2>2 DEF Phases
    <3>2. Observed(name) = phased /\ Observed(name)' = Append(phased, x)
      BY <3>1, <1>1 DEF Observed
    <3>3. Keeps(name, phased, series[name], clock)
      BY <3>2 DEF SeriesInv
    <3>4. Measured(name, x) <=> ~\E ph \in Phases : consumer.split[ph] < 0
      BY <3>1, <1>5 DEF Measured
    <3>5. Measure(name, x) = consumer.split[name]
      BY <3>1, <1>5 DEF Measure
    <3>6. series'[name] = IF Measured(name, x)
                          THEN Observe(series[name], Measure(name, x), x.at, Len(phased) + 1)
                          ELSE series[name]
      <4>1. CASE Measured(name, x)
        BY <4>1, <3>4, <3>5, <2>2, <1>1, <1>3, <1>5
      <4>2. CASE ~Measured(name, x)
        BY <4>2, <3>4, <1>1
      <4> QED
        BY <4>1, <4>2
    <3> QED
      BY <3>2, <3>3, <3>6, <1>1, <1>4, <1>5, <1>6, ToldKeeps
  <2> QED
    BY <2>1, <2>2 DEF Names
<1>9. Len(heard') = Len(phased')
  BY <1>1, <1>3, <1>4, <1>5
<1> QED
  BY <1>1, <1>7, <1>8, <1>9 DEF SeriesInv

(* The other two steps: time passes, and a snapshot trims.                  *)

LEMMA TickKeeps ==
  ASSUME SeriesInv, Tick
  PROVE  SeriesInv'
<1>1. clock' = clock + 1 /\ UNCHANGED <<series, consumer, heard, phased>>
  BY DEF Tick, seriesVars
<1>2. ASSUME NEW name \in Names
      PROVE  Timely(Observed(name)', clock') /\ Keeps(name, Observed(name)', series'[name], clock')
  <2>1. Observed(name)' = Observed(name)
    BY <1>1 DEF Observed
  <2>2. Timely(Observed(name), clock) /\ Keeps(name, Observed(name), series[name], clock)
    BY DEF SeriesInv
  <2> QED
    BY <2>1, <2>2, <1>1, LaterKeeps, TimelyLater
<1>3. ASSUME consumer # Nobody PROVE InHand(consumer, phased, clock)'
  <2>1. clock \in Nat
    BY DEF SeriesInv, Timely, Names
  <2>2. InHand(consumer, phased, clock)
    BY <1>3 DEF SeriesInv
  <2>3. consumer.now # Never => consumer.now \in Nat /\ consumer.now <= clock + 1
    BY <2>1, <2>2 DEF InHand, Hand
  <2>4. InHand(consumer, phased, clock + 1)
    BY <2>2, <2>3 DEF InHand
  <2> QED
    BY <2>4, <1>1 DEF InHand
<1> QED
  BY <1>1, <1>2, <1>3 DEF SeriesInv

LEMMA CopyKeeps ==
  ASSUME SeriesInv, Copy
  PROVE  SeriesInv'
<1>1. /\ series' = [name \in DOMAIN series |-> Trim(series[name], clock)]
      /\ UNCHANGED <<clock, consumer, heard, phased>>
  BY DEF Copy
<1>2. ASSUME NEW name \in Names PROVE Keeps(name, Observed(name), series'[name], clock)
  <2>1. Keeps(name, Observed(name), series[name], clock) /\ Timely(Observed(name), clock)
    BY DEF SeriesInv
  <2>2. series'[name] = Trim(series[name], clock) /\ clock \in Nat /\ clock <= clock
    BY <1>1, <2>1 DEF SeriesInv, Timely
  <2> QED
    BY <2>1, <2>2, TrimKeeps
<1>3. \A name \in Names : Observed(name)' = Observed(name)
  BY <1>1 DEF Observed
<1>4. DOMAIN series' = Names
  BY <1>1 DEF SeriesInv
<1>5. consumer # Nobody => InHand(consumer, phased, clock)'
  BY <1>1 DEF SeriesInv, InHand
<1> QED
  BY <1>1, <1>2, <1>3, <1>4, <1>5 DEF SeriesInv

(* Every step of the program keeps what is wanted of every series.          *)
LEMMA SeriesStep == SeriesInv /\ [Next]_vars => SeriesInv'
<1> SUFFICES ASSUME SeriesInv, [Next]_vars
             PROVE  SeriesInv'
  OBVIOUS
<1>1. CASE UNCHANGED <<clock, seriesVars>>
  BY <1>1 DEF SeriesInv, seriesVars, Observed, InHand
<1>2. ASSUME NEW split \in Splits, ObserveLatency(split) PROVE SeriesInv'
  BY <1>2, ObserveLatencyKeeps
<1>3. CASE ReadClock \/ ObservePhases
  BY <1>3, ReadClockKeeps, ObservePhasesKeeps
<1>4. CASE Copy
  BY <1>4, CopyKeeps
<1>5. CASE Tick
  BY <1>5, TickKeeps
<1>6. ASSUME NEW c \in degrading, Stamp(c) PROVE SeriesInv'
  BY <1>1, <1>6 DEF Stamp, StampWith
<1>7. CASE SetTranscriptError \/ SetAuditError
  BY <1>1, <1>7 DEF SetTranscriptError, SetAuditError
<1>8. CASE Capturing \/ Unavailable \/ Restart
  BY <1>1, <1>8 DEF Capturing, Unavailable, Restart
<1>9. CASE Engine \/ SetClosed
  BY <1>1, <1>9 DEF Engine, SetSTTState, Fail, Reconnect, SetClosed
<1>10. CASE Return
  BY <1>1, <1>10 DEF Return
<1>11. CASE UNCHANGED vars
  BY <1>1, <1>11 DEF vars
<1> QED
  BY <1>2, <1>3, <1>4, <1>5, <1>6, <1>7, <1>8, <1>9, <1>10, <1>11 DEF Next
-----------------------------------------------------------------------------
(* What stats makes of the samples.                                         *)

(* A function that is one to one on J has as many values there as J members.*)
LEMMA OneToOneCount ==
  ASSUME NEW J, IsFiniteSet(J), NEW f, DOMAIN f = J, f = [j \in J |-> f[j]],
         \A j, k \in J : f[j] = f[k] => j = k
  PROVE  IsFiniteSet({f[j] : j \in J}) /\ Cardinality({f[j] : j \in J}) = Cardinality(J)
<1> DEFINE T == {f[j] : j \in J}
<1>1. f \in [J -> T]
  OBVIOUS
<1>2. f \in Injection(J, T)
  BY <1>1 DEF Injection, IsInjective
<1>3. f \in Surjection(J, T)
  BY <1>1 DEF Surjection
<1>4. f \in Bijection(J, T)
  BY <1>2, <1>3 DEF Bijection
<1>5. ExistsBijection(J, T)
  BY <1>4 DEF ExistsBijection
<1> HIDE DEF T
<1>6. IsFiniteSet(T) /\ Cardinality(T) = Cardinality(J)
  BY <1>5, FS_Bijection
<1> QED
  BY <1>6 DEF T

(* As many transcripts as there are samples of them.                        *)
LEMMA SamplesCount ==
  ASSUME NEW s \in Seq(Sample), \A j, k \in 1..Len(s) : j < k => s[j].of < s[k].of,
         NEW J, J \subseteq 1..Len(s)
  PROVE  /\ IsFiniteSet({s[j].of : j \in J}) /\ IsFiniteSet(J)
         /\ Cardinality({s[j].of : j \in J}) = Cardinality(J)
<1> DEFINE f == [j \in J |-> s[j].of]
<1>1. IsFiniteSet(J)
  <2>1. Len(s) \in Nat
    OBVIOUS
  <2>2. IsFiniteSet(1..Len(s))
    BY <2>1, FS_Interval
  <2> QED
    BY <2>2, FS_Subset
<1>2. \A j, k \in J : f[j] = f[k] => j = k
  <2> SUFFICES ASSUME NEW j \in J, NEW k \in J, f[j] = f[k] PROVE j = k
    OBVIOUS
  <2>1. s[j].of = s[k].of /\ s[j].of \in Nat /\ j \in 1..Len(s) /\ k \in 1..Len(s)
    BY SamplesAre
  <2>2. ~(j < k) /\ ~(k < j)
    BY <2>1
  <2>3. j \in Nat /\ k \in Nat
    BY <2>1
  <2> HIDE DEF f
  <2> QED
    BY <2>2, <2>3
<1>3. DOMAIN f = J /\ f = [j \in J |-> f[j]] /\ \A j \in J : f[j] = s[j].of
  OBVIOUS
<1>4. {s[j].of : j \in J} = {f[j] : j \in J}
  BY <1>3
<1> HIDE DEF f
<1> QED
  BY <1>1, <1>2, <1>3, <1>4, OneToOneCount

(* What a trimmed series holds are the latest measured transcripts.         *)
LEMMA KeptIsRecent ==
  ASSUME NEW name, NEW all, NEW s, NEW now, Timely(all, now), Keeps(name, all, s, now),
         Len(s) <= LatencyCap, \A j \in 1..Len(s) : now - s[j].at <= LatencyWindow
  PROVE  Recent(name, now, all) = {s[j].of : j \in 1..Len(s)}
<1> DEFINE IT == InTime(name, now, all)
           later(i) == {k \in IT : k > i}
<1>1. /\ s \in Seq(Sample) /\ Len(s) \in Nat /\ all \in Seq(Transcript) /\ Len(all) \in Nat
      /\ LatencyCap \in Nat \ {0} /\ LatencyWindow \in Nat
  BY MetricsSizes DEF Timely, Keeps, OfMeasured
<1>2. \A j, k \in 1..Len(s) : j < k => s[j].of < s[k].of
  BY DEF Keeps, OfMeasured
<1>3. \A j \in 1..Len(s) : s[j].of \in IT /\ s[j].of \in Nat
  <2> SUFFICES ASSUME NEW j \in 1..Len(s) PROVE s[j].of \in IT /\ s[j].of \in Nat
    OBVIOUS
  <2>1. s[j].of \in 1..Len(all) /\ Measured(name, all[s[j].of]) /\ s[j].at = all[s[j].of].at
    BY DEF Keeps, OfMeasured
  <2>2. now - all[s[j].of].at <= LatencyWindow
    BY <2>1
  <2> QED
    BY <2>1, <2>2 DEF InTime
<1>4. IT \subseteq 1..Len(all) /\ IsFiniteSet(IT)
  <2>1. IT \subseteq 1..Len(all)
    BY DEF InTime
  <2>2. IsFiniteSet(1..Len(all))
    BY <1>1, FS_Interval
  <2> QED
    BY <2>1, <2>2, FS_Subset
<1>5. \A i \in IT : \/ \E j \in 1..Len(s) : s[j].of = i
                    \/ Len(s) >= LatencyCap /\ i < s[1].of
  <2> SUFFICES ASSUME NEW i \in IT
               PROVE  \/ \E j \in 1..Len(s) : s[j].of = i
                      \/ Len(s) >= LatencyCap /\ i < s[1].of
    OBVIOUS
  <2>1. i \in 1..Len(all) /\ Measured(name, all[i]) /\ now - all[i].at <= LatencyWindow
    BY DEF InTime
  <2>2. all[i].at \in Nat /\ now \in Nat
    <3>1. all[i] \in Transcript /\ now \in Nat
      BY <2>1, <1>1 DEF Timely
    <3> QED
      BY <3>1 DEF Transcript
  <2>3. ~(now - all[i].at > LatencyWindow)
    BY <2>1, <2>2, <1>1
  <2> QED
    BY <2>1, <2>3 DEF Keeps, Accounted
<1>6. Recent(name, now, all) = {i \in IT : Cardinality(later(i)) < LatencyCap}
  BY DEF Recent
<1> HIDE DEF IT
<1>7. \A i : later(i) \subseteq IT /\ IsFiniteSet(later(i)) /\ Cardinality(later(i)) \in Nat
  <2> SUFFICES ASSUME NEW i
               PROVE  later(i) \subseteq IT /\ IsFiniteSet(later(i)) /\ Cardinality(later(i)) \in Nat
    OBVIOUS
  <2>1. later(i) \subseteq IT
    OBVIOUS
  <2> HIDE DEF later
  <2> QED
    BY <2>1, <1>4, FS_Subset, FS_CardinalityType
<1>8. ASSUME NEW j \in 1..Len(s) PROVE Cardinality(later(s[j].of)) < LatencyCap
  <2> DEFINE J == (j + 1)..Len(s)
             R == {s[m].of : m \in J}
  <2>1. J \subseteq 1..Len(s)
    BY <1>1
  <2>2. IsFiniteSet(R) /\ Cardinality(R) = Cardinality(J)
    <3> HIDE DEF J
    <3> QED
      BY <2>1, <1>1, <1>2, SamplesCount
  <2>3. Cardinality(J) = Len(s) - j
    <3>1. j + 1 \in Int /\ Len(s) \in Int
      BY <1>1
    <3>2. Cardinality(J) = IF j + 1 > Len(s) THEN 0 ELSE Len(s) - (j + 1) + 1
      BY <3>1, FS_Interval
    <3> HIDE DEF J
    <3> QED
      BY <3>2, <1>1
  <2>4. later(s[j].of) \subseteq R
    <3> SUFFICES ASSUME NEW k \in IT, k > s[j].of PROVE k \in R
      OBVIOUS
    <3>0. k \in Nat
      BY <1>4
    <3>1. s[1].of <= s[j].of /\ s[1].of \in Nat
      <4>1. 1 \in 1..Len(s)
        BY <1>1
      <4>2. CASE j = 1
        BY <4>2, <1>3
      <4>3. CASE 1 < j
        <5>1. s[1].of < s[j].of
          BY <4>1, <4>3, <1>2
        <5> QED
          BY <4>1, <5>1, <1>3
      <4> QED
        BY <4>2, <4>3
    <3>2. ~(k < s[1].of)
      BY <3>0, <3>1, <1>3
    <3>3. PICK m \in 1..Len(s) : s[m].of = k
      BY <3>2, <1>5
    <3>4. ~(m < j) /\ m # j
      <4>1. m < j => s[m].of < s[j].of
        BY <3>3, <1>2
      <4> QED
        BY <4>1, <3>3, <3>0, <1>3
    <3>5. m \in J
      BY <3>4, <1>1
    <3> QED
      BY <3>3, <3>5
  <2> HIDE DEF R, later, J
  <2>5. Cardinality(later(s[j].of)) <= Cardinality(R)
    BY <2>2, <2>4, FS_Subset
  <2> QED
    BY <2>2, <2>3, <2>5, <1>7, <1>1
<1>9. ASSUME NEW i \in IT, Cardinality(later(i)) < LatencyCap
      PROVE  \E j \in 1..Len(s) : s[j].of = i
  <2> SUFFICES ASSUME Len(s) >= LatencyCap, i < s[1].of PROVE FALSE
    BY <1>5
  <2> DEFINE R == {s[m].of : m \in 1..Len(s)}
  <2>1. IsFiniteSet(R) /\ Cardinality(R) = Cardinality(1..Len(s))
    BY <1>1, <1>2, SamplesCount
  <2>2. Cardinality(1..Len(s)) = Len(s)
    <3>1. Cardinality(1..Len(s)) = IF 1 > Len(s) THEN 0 ELSE Len(s) - 1 + 1
      BY <1>1, FS_Interval
    <3> QED
      BY <3>1, <1>1
  <2>3. R \subseteq later(i)
    <3> SUFFICES ASSUME NEW m \in 1..Len(s) PROVE s[m].of > i
      BY <1>3
    <3>0. i \in Nat /\ 1 \in 1..Len(s)
      BY <1>1, <1>4
    <3>1. CASE m = 1
      BY <3>1, <3>0, <1>3
    <3>2. CASE 1 < m
      <4>1. s[1].of < s[m].of
        BY <3>0, <3>2, <1>2
      <4> QED
        BY <4>1, <3>0, <1>3
    <3> QED
      BY <3>1, <3>2
  <2> HIDE DEF R, later
  <2>4. Cardinality(R) <= Cardinality(later(i))
    BY <2>3, <1>7, FS_Subset
  <2> QED
    BY <2>1, <2>2, <2>4, <1>7, <1>9, <1>1
<1> QED
  <2>1. \A i \in Recent(name, now, all) : \E j \in 1..Len(s) : s[j].of = i
    BY <1>6, <1>9
  <2>2. \A j \in 1..Len(s) : s[j].of \in Recent(name, now, all)
    BY <1>3, <1>6, <1>8
  <2> QED
    BY <2>1, <2>2

(* The samples at or below d.                                               *)
Under(s, d) == {i \in 1..Len(s) : s[i].d <= d}

(* They are finite in number.                                               *)

LEMMA UnderCounts ==
  ASSUME NEW s \in Seq(Sample), NEW d
  PROVE  /\ Under(s, d) \subseteq 1..Len(s) /\ IsFiniteSet(Under(s, d))
         /\ Cardinality(Under(s, d)) \in Nat /\ Cardinality(Under(s, d)) <= Len(s)
<1>1. IsFiniteSet(1..Len(s)) /\ Cardinality(1..Len(s)) = Len(s)
  <2>1. Len(s) \in Nat
    OBVIOUS
  <2>2. Cardinality(1..Len(s)) = IF 1 > Len(s) THEN 0 ELSE Len(s) - 1 + 1
    BY <2>1, FS_Interval
  <2> QED
    BY <2>1, <2>2, FS_Interval
<1>2. Under(s, d) \subseteq 1..Len(s)
  BY DEF Under
<1> QED
  BY <1>1, <1>2, FS_Subset, FS_CardinalityType

(* The one with the most samples at or below it has all of them.            *)
LEMMA SomeDurationIsTheMost ==
  ASSUME NEW s \in Seq(Sample), s # <<>>
  PROVE  \E j \in 1..Len(s) : Cardinality(Under(s, s[j].d)) >= Len(s)
<1> DEFINE count(j) == Cardinality(Under(s, s[j].d))
           P == {count(j) : j \in 1..Len(s)}
<1>1. Len(s) \in Nat \ {0}
  BY EmptySeq
<1>2. ASSUME NEW j \in 1..Len(s) PROVE count(j) \in 1..Len(s)
  <2>1. j \in Under(s, s[j].d)
    BY SamplesAre DEF Under
  <2>2. Cardinality(Under(s, s[j].d)) # 0
    BY <2>1, UnderCounts, FS_EmptySet
  <2> QED
    BY <2>2, <1>1, UnderCounts
<1>3. P \subseteq 1..Len(s) /\ P # {}
  <2>1. 1 \in 1..Len(s)
    BY <1>1
  <2> QED
    BY <1>2, <2>1
<1>4. PICK j \in 1..Len(s) : \A k \in 1..Len(s) : count(k) <= count(j)
  <2>1. PICK p \in P : \A q \in P : q <= p
    <3> HIDE DEF P
    <3> QED
      BY <1>1, <1>3, GreatestPlace
  <2>2. PICK j \in 1..Len(s) : p = count(j)
    OBVIOUS
  <2>3. \A k \in 1..Len(s) : count(k) \in P
    OBVIOUS
  <2> HIDE DEF P, count
  <2> QED
    BY <2>1, <2>2, <2>3
<1>5. 1..Len(s) \subseteq Under(s, s[j].d)
  <2> SUFFICES ASSUME NEW k \in 1..Len(s), k \notin Under(s, s[j].d) PROVE FALSE
    OBVIOUS
  <2>1. s[k].d \in Nat /\ s[j].d \in Nat /\ s[j].d < s[k].d
    BY SamplesAre DEF Under
  <2>2. Under(s, s[j].d) \subseteq Under(s, s[k].d)
    <3> SUFFICES ASSUME NEW i \in 1..Len(s), s[i].d <= s[j].d PROVE s[i].d <= s[k].d
      BY DEF Under
    <3>1. s[i].d \in Nat
      BY SamplesAre
    <3> QED
      BY <3>1, <2>1
  <2>3. k \in Under(s, s[k].d)
    BY <2>1 DEF Under
  <2>4. Cardinality(Under(s, s[j].d)) <= Cardinality(Under(s, s[k].d))
        /\ Cardinality(Under(s, s[j].d)) # Cardinality(Under(s, s[k].d))
    BY <2>2, <2>3, UnderCounts, FS_Subset
  <2>5. Cardinality(Under(s, s[k].d)) <= Cardinality(Under(s, s[j].d))
    BY <1>4
  <2> QED
    BY <2>4, <2>5, UnderCounts
<1>6. Cardinality(1..Len(s)) <= Cardinality(Under(s, s[j].d))
  BY <1>5, UnderCounts, FS_Subset
<1>7. Cardinality(1..Len(s)) = Len(s)
  <2>1. Cardinality(1..Len(s)) = IF 1 > Len(s) THEN 0 ELSE Len(s) - 1 + 1
    BY <1>1, FS_Interval
  <2> QED
    BY <2>1, <1>1
<1> QED
  BY <1>6, <1>7, <1>1, UnderCounts

(* What is ranked k-th is a duration with k samples at or below it, and the *)
(* least such.                                                              *)
LEMMA RankedIs ==
  ASSUME NEW s \in Seq(Sample), NEW k \in 1..Len(s)
  PROVE  /\ \E j \in 1..Len(s) : Ranked(s, k) = s[j].d
         /\ Ranked(s, k) \in Nat
         /\ Cardinality(Under(s, Ranked(s, k))) >= k
         /\ \A j \in 1..Len(s) : Cardinality(Under(s, s[j].d)) >= k => Ranked(s, k) <= s[j].d
<1> DEFINE D == {d \in Durations(s) : Cardinality(Under(s, d)) >= k}
<1>1. Len(s) \in Nat /\ s # <<>> /\ k \in Nat /\ k <= Len(s)
  <2>1. Len(s) \in Nat
    OBVIOUS
  <2>2. s # <<>>
    <3> SUFFICES ASSUME s = <<>> PROVE FALSE
      OBVIOUS
    <3>1. Len(s) = 0
      OBVIOUS
    <3> QED
      BY <3>1
  <2> QED
    BY <2>1, <2>2
<1>2. Ranked(s, k) = Min(D)
  BY DEF Ranked, Under
<1>3. D \subseteq Nat
  BY SamplesAre DEF Durations
<1>4. D # {}
  <2>1. PICK j \in 1..Len(s) : Cardinality(Under(s, s[j].d)) >= Len(s)
    BY <1>1, SomeDurationIsTheMost
  <2>2. Cardinality(Under(s, s[j].d)) >= k
    BY <2>1, <1>1, UnderCounts
  <2> QED
    BY <2>2 DEF Durations
<1>5. Min(D) \in D /\ \A d \in D : Min(D) <= d
  <2> HIDE DEF D
  <2> QED
    BY <1>3, <1>4, MinOf
<1>6. \A j \in 1..Len(s) : Cardinality(Under(s, s[j].d)) >= k => s[j].d \in D
  BY DEF Durations
<1>7. PICK r : r = Ranked(s, k)
  OBVIOUS
<1>8. r \in D /\ \A d \in D : r <= d
  BY <1>2, <1>5, <1>7
<1>9. r \in Nat /\ Cardinality(Under(s, r)) >= k /\ \E j \in 1..Len(s) : r = s[j].d
  BY <1>3, <1>8 DEF Durations
<1> HIDE DEF D
<1> QED
  BY <1>6, <1>7, <1>8, <1>9

(* A later place holds no less.                                             *)

LEMMA RankedGrows ==
  ASSUME NEW s \in Seq(Sample), NEW k \in 1..Len(s), NEW m \in 1..Len(s), k <= m
  PROVE  Ranked(s, k) <= Ranked(s, m)
<1>1. PICK j \in 1..Len(s) : Ranked(s, m) = s[j].d
  BY RankedIs
<1>2. Cardinality(Under(s, s[j].d)) >= m
  BY <1>1, RankedIs
<1>3. Cardinality(Under(s, s[j].d)) >= k
  BY <1>2, UnderCounts
<1> QED
  BY <1>1, <1>3, RankedIs

(* The places percentile looks at.                                          *)
LEMMA Places ==
  ASSUME NEW n \in Nat \ {0},
         NEW k50, k50 = Min({(50 * n) \div 100, n - 1}) + 1,
         NEW k95, k95 = Min({(95 * n) \div 100, n - 1}) + 1
  PROVE  /\ k50 \in 1..n /\ k95 \in 1..n /\ k50 <= k95
         /\ 2 * k50 >= n /\ 20 * k95 >= 19 * n
<1>1. PICK a \in Nat : a = (50 * n) \div 100 /\ 100 * a <= 50 * n /\ 50 * n < 100 * a + 100
  OBVIOUS
<1>2. PICK b \in Nat : b = (95 * n) \div 100 /\ 100 * b <= 95 * n /\ 95 * n < 100 * b + 100
  OBVIOUS
<1>3. k50 = (IF a <= n - 1 THEN a ELSE n - 1) + 1
  BY <1>1, MinOfTwo
<1>4. k95 = (IF b <= n - 1 THEN b ELSE n - 1) + 1
  BY <1>2, MinOfTwo
<1>5. a <= b
  BY <1>1, <1>2
<1> QED
  BY <1>1, <1>2, <1>3, <1>4, <1>5

(* The figures of what a trimmed series holds.                              *)
LEMMA StatsDescribe ==
  ASSUME NEW name, NEW all, NEW s, NEW now, Timely(all, now), Keeps(name, all, s, now),
         Len(s) <= LatencyCap, \A j \in 1..Len(s) : now - s[j].at <= LatencyWindow
  PROVE  Describes(Stats(s), name, all, Recent(name, now, all))
<1> DEFINE atMost(d) == Cardinality({i \in Recent(name, now, all) : Measure(name, all[i]) <= d})
<1>1. PICK recent : recent = Recent(name, now, all)
  OBVIOUS
<1>2. recent = {s[j].of : j \in 1..Len(s)}
  BY <1>1, KeptIsRecent
<1>3. /\ s \in Seq(Sample) /\ Len(s) \in Nat
      /\ \A j \in 1..Len(s) : s[j].d = Measure(name, all[s[j].of]) /\ s[j].d \in Nat /\ s[j].of \in Nat
      /\ \A j, k \in 1..Len(s) : j < k => s[j].of < s[k].of
  BY SamplesAre DEF Keeps, OfMeasured
<1>4. Cardinality(recent) = Len(s)
  <2>1. Cardinality(recent) = Cardinality(1..Len(s))
    BY <1>2, <1>3, SamplesCount
  <2>2. Cardinality(1..Len(s)) = IF 1 > Len(s) THEN 0 ELSE Len(s) - 1 + 1
    BY <1>3, FS_Interval
  <2> QED
    BY <2>1, <2>2, <1>3
<1>5. ASSUME NEW d PROVE atMost(d) = Cardinality(Under(s, d))
  <2>1. {i \in recent : Measure(name, all[i]) <= d} = {s[j].of : j \in Under(s, d)}
    BY <1>2, <1>3 DEF Under
  <2>2. Under(s, d) \subseteq 1..Len(s)
    BY DEF Under
  <2>3. Cardinality({s[j].of : j \in Under(s, d)}) = Cardinality(Under(s, d))
    BY <2>2, <1>3, SamplesCount
  <2> QED
    BY <1>1, <2>1, <2>3
<1>6. {Measure(name, all[i]) : i \in recent} = {s[j].d : j \in 1..Len(s)}
  BY <1>2, <1>3
<1> HIDE DEF atMost
<1>7. CASE s = <<>>
  <2>1. Len(s) = 0 /\ recent = {}
    <3>1. Len(s) = 0
      BY <1>7
    <3> QED
      BY <3>1, <1>2
  <2>2. Stats(s).n = 0
    BY <1>7 DEF Stats
  <2> QED
    BY <1>1, <1>4, <2>1, <2>2 DEF Describes
<1>8. CASE s # <<>>
  <2> DEFINE k50 == Min({(50 * Len(s)) \div 100, Len(s) - 1}) + 1
             k95 == Min({(95 * Len(s)) \div 100, Len(s) - 1}) + 1
  <2>1. Len(s) \in Nat \ {0}
    BY <1>8, <1>3, EmptySeq
  <2>2. PICK k \in 1..Len(s), m \in 1..Len(s) :
          k = k50 /\ m = k95 /\ k <= m /\ 2 * k >= Len(s) /\ 20 * m >= 19 * Len(s)
    <3>1. PICK k, m : k = k50 /\ m = k95
      OBVIOUS
    <3> HIDE DEF k50, k95
    <3>2. k \in 1..Len(s) /\ m \in 1..Len(s) /\ k <= m /\ 2 * k >= Len(s) /\ 20 * m >= 19 * Len(s)
      BY <3>1, <2>1, Places DEF k50, k95
    <3> QED
      BY <3>1, <3>2
  <2>3. /\ Stats(s).n = Len(s) /\ Stats(s).last = s[Len(s)].d
        /\ Stats(s).p50 = Ranked(s, k) /\ Stats(s).p95 = Ranked(s, m)
        /\ Stats(s).max = Ranked(s, Len(s))
    BY <1>8, <2>2 DEF Stats, Percentile, Last
  <2> HIDE DEF k50, k95
  <2>4. Len(s) \in 1..Len(s)
    BY <2>1
  <2>5. PICK a, b, c : a = Ranked(s, k) /\ b = Ranked(s, m) /\ c = Ranked(s, Len(s))
    OBVIOUS
  <2>6. /\ a \in {s[j].d : j \in 1..Len(s)} /\ b \in {s[j].d : j \in 1..Len(s)}
        /\ c \in {s[j].d : j \in 1..Len(s)}
        /\ a \in Nat /\ b \in Nat /\ c \in Nat
    BY <1>3, <2>4, <2>5, RankedIs
  <2>7. a <= b /\ b <= c
    BY <1>3, <2>2, <2>4, <2>5, RankedGrows
  <2>8. /\ Cardinality(Under(s, a)) >= k /\ Cardinality(Under(s, b)) >= m
        /\ Cardinality(Under(s, c)) >= Len(s)
    BY <1>3, <2>4, <2>5, RankedIs
  <2>9. /\ 2 * atMost(a) >= Len(s) /\ 20 * atMost(b) >= 19 * Len(s) /\ atMost(c) = Len(s)
    <3>1. /\ Cardinality(Under(s, a)) \in Nat /\ Cardinality(Under(s, b)) \in Nat
          /\ Cardinality(Under(s, c)) \in Nat /\ Cardinality(Under(s, c)) <= Len(s)
      BY <1>3, UnderCounts
    <3>2. 2 * Cardinality(Under(s, a)) >= Len(s)
      BY <3>1, <2>2, <2>8, <2>1
    <3>3. 20 * Cardinality(Under(s, b)) >= 19 * Len(s)
      BY <3>1, <2>2, <2>8, <2>1
    <3>4. Cardinality(Under(s, c)) = Len(s)
      BY <3>1, <2>8, <2>1
    <3> QED
      BY <1>5, <3>2, <3>3, <3>4
  <2>10. \E i \in recent : s[Len(s)].d = Measure(name, all[i]) /\ \A q \in recent : q <= i
    <3>1. s[Len(s)].of \in recent /\ s[Len(s)].d = Measure(name, all[s[Len(s)].of])
      BY <1>2, <1>3, <2>4
    <3>2. ASSUME NEW q \in recent PROVE q <= s[Len(s)].of
      <4>1. PICK j \in 1..Len(s) : q = s[j].of
        BY <1>2
      <4>2. CASE j = Len(s)
        BY <4>1, <4>2, <1>3
      <4>3. CASE j < Len(s)
        BY <4>1, <4>3, <1>3, <2>4
      <4> QED
        BY <4>2, <4>3, <2>1
    <3> QED
      BY <3>1, <3>2
  <2> QED
    BY <1>1, <1>4, <1>6, <2>3, <2>5, <2>6, <2>7, <2>9, <2>10 DEF Describes, atMost
<1> QED
  BY <1>7, <1>8

(* What a snapshot takes describes the window.                              *)
LEMMA CopyDescribes ==
  ASSUME SeriesInv, Copy, NEW name \in Names
  PROVE  Describes(copied'.stats[name], name, Observed(name),
                   Recent(name, clock, Observed(name)))
<1>1. copied'.stats[name] = Stats(Trim(series[name], clock))
  <2>1. DOMAIN series = Names
    BY DEF SeriesInv
  <2> QED
    BY <2>1 DEF Copy
<1>2. Keeps(name, Observed(name), series[name], clock) /\ Timely(Observed(name), clock) /\ clock \in Nat
  BY DEF SeriesInv, Timely
<1>3. PICK t : t = Trim(series[name], clock)
  OBVIOUS
<1>4. /\ Keeps(name, Observed(name), t, clock) /\ Len(t) <= LatencyCap
      /\ \A j \in 1..Len(t) : clock - t[j].at <= LatencyWindow
  <2>1. clock <= clock
    BY <1>2
  <2> QED
    BY <1>2, <1>3, <2>1, TrimKeeps
<1> QED
  BY <1>1, <1>2, <1>3, <1>4, StatsDescribe

(* Whatever was observed, trimmed and looked at, whenever: the figures of a *)
(* snapshot are those of the measured transcripts of the window, the latest *)
(* LatencyCap of them, in each of the four series (observe, trim, stats,    *)
(* percentile, ObservePhases, Snapshot).                                    *)
THEOREM FiguresDescribeWindow == Spec => StatsDescribeWindow
<1>1. Init => SeriesInv
  <2> SUFFICES ASSUME Init PROVE SeriesInv
    OBVIOUS
  <2>1. /\ clock = 0 /\ heard = <<>> /\ phased = <<>> /\ consumer = Nobody
        /\ series = [name \in Phases \cup {"caption"} |-> <<>>]
    BY DEF Init
  <2>2. ASSUME NEW name \in Names
        PROVE  Timely(Observed(name), clock) /\ Keeps(name, Observed(name), series[name], clock)
    <3>1. series[name] = <<>> /\ Observed(name) = <<>>
      BY <2>1 DEF Names, Observed
    <3>2. /\ series[name] \in Seq(Sample) /\ Len(series[name]) = 0
          /\ Observed(name) \in Seq(Transcript) /\ Len(Observed(name)) = 0
      BY <3>1
    <3> QED
      BY <3>2, <2>1 DEF Timely, Keeps, OfMeasured
  <2>3. DOMAIN series = Names
    BY <2>1 DEF Names
  <2> QED
    BY <2>1, <2>2, <2>3 DEF SeriesInv
<1>2. SeriesInv /\ [Next]_vars =>
        [reader = "idle" /\ reader' = "copied" =>
           \A name \in DOMAIN series :
             Describes(copied'.stats[name], name, Observed(name),
                       Recent(name, clock, Observed(name)))]_vars
  <2> SUFFICES ASSUME SeriesInv, [Next]_vars, reader = "idle", reader' = "copied",
                      NEW name \in DOMAIN series
               PROVE  Describes(copied'.stats[name], name, Observed(name),
                                Recent(name, clock, Observed(name)))
    OBVIOUS
  <2>1. name \in Names
    BY DEF SeriesInv
  <2>2. Copy
    <3>1. CASE UNCHANGED readerVars
      BY <3>1 DEF readerVars
    <3>2. ASSUME NEW split \in Splits, ObserveLatency(split) PROVE Copy
      BY <3>1, <3>2 DEF ObserveLatency
    <3>3. CASE ReadClock \/ ObservePhases
      BY <3>1, <3>3 DEF ReadClock, ObservePhases
    <3>4. ASSUME NEW c \in degrading, Stamp(c) PROVE Copy
      BY <3>1, <3>4 DEF Stamp, StampWith
    <3>5. CASE SetTranscriptError \/ SetAuditError
      BY <3>1, <3>5 DEF SetTranscriptError, SetAuditError
    <3>6. CASE Capturing \/ Unavailable \/ Restart
      BY <3>1, <3>6 DEF Capturing, Unavailable, Restart
    <3>7. CASE Engine \/ SetClosed
      BY <3>1, <3>7 DEF Engine, SetSTTState, Fail, Reconnect, SetClosed
    <3>8. CASE Return
      BY <3>8 DEF Return
    <3>9. CASE Tick
      BY <3>1, <3>9 DEF Tick
    <3>10. CASE UNCHANGED vars
      BY <3>1, <3>10 DEF vars
    <3> QED
      BY <3>2, <3>3, <3>4, <3>5, <3>6, <3>7, <3>8, <3>9, <3>10 DEF Next
  <2> QED
    BY <2>1, <2>2, CopyDescribes
<1> QED
  BY <1>1, <1>2, SeriesStep, PTL DEF Spec, StatsDescribeWindow
=============================================================================
