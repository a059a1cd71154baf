---------------------- MODULE ProviderProtocolProofs ----------------------
(***************************************************************************)
(* What Decode returns, proved for messages of any length, any speakers and  *)
(* any marks.  While the loop over the results runs, Decoded relates its     *)
(* locals to the results so far: the runs that ended are done with, and only *)
(* the last word of the open one may still get marks (Growing).              *)
(***************************************************************************)
EXTENDS ProviderProtocol, FiniteSetTheorems, SequenceTheorems, TLAPS

(* What a result, a word and a run are.                                     *)
ResultType ==
  {r \in [type : {"punctuation", "entity", "word"}, label : Labels,
          mark : Marks \cup {""}, tagged : BOOLEAN] :
     /\ r.type = "punctuation" => r.mark \in Marks
     /\ r.type # "word" => ~r.tagged}

WordType == [start : Nat, end : Nat, marks : Seq(Marks)]
RunType == [words : Seq(WordType), speaker : Nat, start : Nat, duration : Int]
OpenType == [words : Seq(WordType), speaker : Nat, start : Nat, end : Nat,
             suffix : Seq(Marks), removed : BOOLEAN, open : BOOLEAN]

(* A run of words that ends no later than the last of the results.          *)
RunFits(p, f, r) ==
  /\ Len(r.words) > 0
  /\ \A j \in 1..Len(r.words) : \E k \in 1..Len(f) :
       IsWordOf(f, r.words[j], k) /\ r.speaker = SpeakerOf(p, f[k].label)
  /\ \A j \in 1..(Len(r.words) - 1) : r.words[j].end < r.words[j + 1].start
  /\ r.start = r.words[1].start
  /\ r.start + r.duration >= r.words[Len(r.words)].end
  /\ r.start + r.duration <= End(Len(f))

(* r is another speaker's and begins after q is over.                       *)
Follows(q, r) == q.speaker # r.speaker /\ q.start + q.duration < r.start

(* A kept result after n ends what belongs to n.                            *)
Sealed(f, n) == \E k \in (n + 1)..Len(f) : IsKept(f, k)

(* The marks left behind word n are those the protocol promises.            *)
Marked(p, f, left, n) == IF p = "deepgram" THEN left = <<>> ELSE Punctuated(f, left, n)

(* The words of finished runs, and all but the last of the open one.        *)
Finished(p, f, w) ==
  \A n \in 1..Len(f) : IsWordOf(f, w, n) => Sealed(f, n) /\ Marked(p, f, w.marks, n)

(* The last word of the open run, to which marks may still be added.        *)
Growing(p, f, left, suffix, removed, n) ==
  /\ ~Sealed(f, n)
  /\ Marked(p, f, left, n)
  /\ p = "speechmatics" =>
       /\ (suffix = <<>>) <=> (MarksAfter(f, n) = {})
       /\ ~RemovedAfter(f, n) => ~removed
       /\ MarksAfter(f, n) # {} /\ AllMeetAcrossRemovals(f, n)
          => suffix = left /\ (f[Len(f)].type # "punctuation" => removed)

(* The word of result n is in one of the runs.                              *)
SpokenIn(rs, n) ==
  \E i \in 1..Len(rs) : \E j \in 1..Len(rs[i].words) : rs[i].words[j].start = Start(n)

(* The run o being filled, as it would be flushed.                          *)
Flushed(o) == [words |-> o.words, speaker |-> o.speaker, start |-> o.start,
               duration |-> o.end - o.start]

(* The runs that ended before: results f, provider p.                       *)
Ended(p, f, rs) ==
  \A i \in 1..Len(rs) :
    /\ RunFits(p, f, rs[i])
    /\ \A j \in 1..Len(rs[i].words) : Finished(p, f, rs[i].words[j])
    /\ i < Len(rs) => Follows(rs[i], rs[i + 1])

(* The open run follows them; marks may still come behind its last word.    *)
OpenRun(p, f, rs, o) ==
  /\ RunFits(p, f, Flushed(o))
  /\ rs # <<>> => Follows(rs[Len(rs)], Flushed(o))
  /\ \A j \in 1..(Len(o.words) - 1) : Finished(p, f, o.words[j])
  /\ \E n \in 1..Len(f) :
       /\ IsWordOf(f, o.words[Len(o.words)], n)
       /\ Growing(p, f, o.words[Len(o.words)].marks, o.suffix, o.removed, n)

(* Every kept word so far is in a run that ended or in the open one.        *)
Covered(f, rs, o) ==
  \A n \in 1..Len(f) : IsKept(f, n) =>
    \/ SpokenIn(rs, n)
    \/ o.open /\ \E j \in 1..Len(o.words) : o.words[j].start = Start(n)

(* The loop invariant: runs rs and open run o after results f.              *)
Decoded(p, f, rs, o) ==
  /\ Ended(p, f, rs)
  /\ IF o.open THEN OpenRun(p, f, rs, o) ELSE rs = <<>>
  /\ Covered(f, rs, o)

(* What the properties say, of runs and the results they were cut from.     *)
RunsSay(p, f, rs) ==
  /\ \A n \in 1..Len(f) : IsKept(f, n) => SpokenIn(rs, n)
  /\ \A i \in 1..Len(rs) :
       LET r == rs[i]
           n == Len(r.words)
       IN  /\ n > 0
           /\ \A j \in 1..n : \E k \in 1..Len(f) :
                IsWordOf(f, r.words[j], k) /\ r.speaker = SpeakerOf(p, f[k].label)
           /\ \A j \in 1..(n - 1) : r.words[j].end < r.words[j + 1].start
           /\ r.start = r.words[1].start
           /\ r.start + r.duration >= r.words[n].end
           /\ i < Len(rs) => /\ rs[i + 1].speaker # r.speaker
                             /\ r.start + r.duration < rs[i + 1].start

MarksSay(p, f, rs) ==
  \A i \in 1..Len(rs) : \A j \in 1..Len(rs[i].words) : \A n \in 1..Len(f) :
    IsWordOf(f, rs[i].words[j], n) => Marked(p, f, rs[i].words[j].marks, n)

Types ==
  /\ provider \in {"speechmatics", "deepgram"}
  /\ message \in {"none", "settled", "revisable"}
  /\ message = "revisable" => provider = "deepgram"
  /\ fed \in Seq(ResultType) /\ ts \in Seq(RunType) /\ run \in OpenType

Returned == RunsSay(provider, fed, returned) /\ MarksSay(provider, fed, returned)

(* The inductive invariant.                                                 *)
LoopInv ==
  /\ Types
  /\ message # "none" => Decoded(provider, fed, ts, run)
  /\ Settled => Returned
-----------------------------------------------------------------------------
(* One more result.                                                        *)

LEMMA ResultsGrow ==
  ASSUME NEW f \in Seq(ResultType), NEW r \in ResultType
  PROVE  /\ Append(f, r) \in Seq(ResultType)
         /\ Len(f) \in Nat /\ Len(Append(f, r)) = Len(f) + 1
         /\ Append(f, r)[Len(f) + 1] = r
         /\ \A n \in 1..Len(f) : /\ Append(f, r)[n] = f[n]
                                 /\ IsKept(Append(f, r), n) <=> IsKept(f, n)
         /\ IsKept(Append(f, r), Len(f) + 1) <=> r.type = "word" /\ ~r.tagged
BY AppendProperties, LenProperties DEF IsKept

(* The results behind n, once the next kept one is there, say the same of   *)
(* n for good.                                                              *)
LEMMA SealedStays ==
  ASSUME NEW f \in Seq(ResultType), NEW r \in ResultType, NEW n \in 1..Len(f),
         Sealed(Append(f, r), n)
  PROVE  \A p, left : Marked(p, Append(f, r), left, n) <=> Marked(p, f, left, n)
<1> DEFINE g == Append(f, r)
           l == Len(f)
<1>1. /\ g \in Seq(ResultType) /\ l \in Nat /\ Len(g) = l + 1 /\ g[l + 1] = r
      /\ \A m \in 1..l : g[m] = f[m] /\ (IsKept(g, m) <=> IsKept(f, m))
  BY ResultsGrow
<1>2. PICK k \in (n + 1)..(l + 1) : IsKept(g, k)
  BY <1>1 DEF Sealed
<1> HIDE DEF g, l
<1>3. n \in 1..l /\ n \in Nat
  BY <1>1 DEF l
<1>4. ASSUME NEW m \in (n + 1)..(l + 1), \A i \in (n + 1)..m : ~IsKept(g, i)
      PROVE  m < k /\ m \in (n + 1)..l
  BY <1>1, <1>2, <1>3, <1>4
<1>5. \A m \in (n + 1)..l : (\A i \in (n + 1)..m : ~IsKept(g, i))
                            <=> (\A i \in (n + 1)..m : ~IsKept(f, i))
  BY <1>1, <1>3
<1>6. MarksAfter(g, n) = MarksAfter(f, n) /\ \A m \in MarksAfter(f, n) : m \in 1..l /\ m < k
  BY <1>1, <1>3, <1>4, <1>5 DEF MarksAfter, l
<1>7. RemovedAfter(g, n) <=> RemovedAfter(f, n)
  <2>1. ASSUME RemovedAfter(g, n) PROVE RemovedAfter(f, n)
    <3>1. PICK m \in (n + 1)..(l + 1) : g[m].tagged /\ \A i \in (n + 1)..m : ~IsKept(g, i)
      BY <1>1, <2>1 DEF RemovedAfter
    <3> QED
      BY <1>1, <1>3, <1>4, <1>5, <3>1 DEF RemovedAfter, l
  <2>2. ASSUME RemovedAfter(f, n) PROVE RemovedAfter(g, n)
    <3>1. PICK m \in (n + 1)..l : f[m].tagged /\ \A i \in (n + 1)..m : ~IsKept(f, i)
      BY <2>2 DEF RemovedAfter, l
    <3> QED
      BY <1>1, <1>3, <1>5, <3>1 DEF RemovedAfter
  <2> QED
    BY <2>1, <2>2
<1>8. \A m \in MarksAfter(f, n) : f[m] = g[m]
  BY <1>1, <1>6
<1>9. AllMeetAcrossRemovals(g, n) <=> AllMeetAcrossRemovals(f, n)
  <2> SUFFICES ASSUME NEW m \in MarksAfter(f, n)
               PROVE  (m < l + 1 => g[m + 1].type = "word") <=> (m < l => f[m + 1].type = "word")
    BY <1>1, <1>6, <1>8 DEF AllMeetAcrossRemovals, l
  <2>1. m \in 1..l /\ m < k
    BY <1>6
  <2>2. CASE m < l
    BY <1>1, <2>1, <2>2
  <2>3. CASE m = l
    <3>1. k = l + 1 /\ g[m + 1].type = "word"
      BY <1>1, <1>2, <2>1, <2>3 DEF IsKept
    <3> QED
      BY <1>1, <2>1, <2>3, <3>1
  <2> QED
    BY <1>1, <2>1, <2>2, <2>3
<1>10. \A left : /\ Spells(g, left, MarksAfter(f, n)) <=> Spells(f, left, MarksAfter(f, n))
                 /\ Reconciles(g, left, MarksAfter(f, n)) <=> Reconciles(f, left, MarksAfter(f, n))
  <2> TAKE left
  <2>1. Spells(g, left, MarksAfter(f, n)) <=> Spells(f, left, MarksAfter(f, n))
    BY <1>8 DEF Spells
  <2>2. {m \in MarksAfter(f, n) : Terminal(g[m].mark)} = {m \in MarksAfter(f, n) : Terminal(f[m].mark)}
    BY <1>8
  <2>3. Reconciles(g, left, MarksAfter(f, n)) <=> Reconciles(f, left, MarksAfter(f, n))
    BY <1>8, <2>2 DEF Reconciles
  <2> QED
    BY <2>1, <2>3
<1>11. \A left : Punctuated(g, left, n) <=> Punctuated(f, left, n)
  BY <1>6, <1>7, <1>9, <1>10 DEF Punctuated
<1> QED
  BY <1>11 DEF Marked, g

(* A word is the word of one result only.                                   *)
LEMMA SamePlace ==
  ASSUME NEW f, NEW g, Len(f) \in Nat, Len(g) \in Nat, NEW w, NEW m, NEW n,
         IsWordOf(f, w, m), IsWordOf(g, w, n)
  PROVE  m = n
<1>1. m \in Nat /\ n \in Nat /\ Start(m) = Start(n)
  BY DEF IsWordOf
<1> QED
  BY <1>1 DEF Start

(* Nothing that comes later changes a finished word or run.                 *)
LEMMA FinishedStays ==
  ASSUME NEW f \in Seq(ResultType), NEW r \in ResultType, NEW p, NEW w,
         \E k \in 1..Len(f) : IsWordOf(f, w, k), Finished(p, f, w)
  PROVE  Finished(p, Append(f, r), w)
<1> DEFINE g == Append(f, r)
<1>1. /\ Len(f) \in Nat /\ Len(g) = Len(f) + 1
      /\ \A m \in 1..Len(f) : g[m] = f[m] /\ (IsKept(g, m) <=> IsKept(f, m))
  BY ResultsGrow
<1>2. PICK k \in 1..Len(f) : IsWordOf(f, w, k)
  OBVIOUS
<1> HIDE DEF g
<1> SUFFICES ASSUME NEW n \in 1..Len(g), IsWordOf(g, w, n)
             PROVE  Sealed(g, n) /\ Marked(p, g, w.marks, n)
  BY DEF Finished, g
<1>3. n = k
  BY <1>1, <1>2, SamePlace
<1>4. Sealed(f, n) /\ Marked(p, f, w.marks, n)
  BY <1>2, <1>3 DEF Finished
<1>5. Sealed(g, n)
  BY <1>1, <1>2, <1>3, <1>4 DEF Sealed
<1> QED
  BY <1>2, <1>3, <1>4, <1>5, SealedStays DEF g

(* The next kept word finishes the last one.                                *)
LEMMA NowFinished ==
  ASSUME NEW f \in Seq(ResultType), NEW r \in ResultType, NEW p, NEW w, NEW n \in 1..Len(f),
         IsWordOf(f, w, n), Marked(p, f, w.marks, n), r.type = "word", ~r.tagged
  PROVE  Finished(p, Append(f, r), w)
<1> DEFINE g == Append(f, r)
<1>1. /\ Len(f) \in Nat /\ Len(g) = Len(f) + 1 /\ IsKept(g, Len(f) + 1)
      /\ \A m \in 1..Len(f) : g[m] = f[m] /\ (IsKept(g, m) <=> IsKept(f, m))
  BY ResultsGrow
<1> HIDE DEF g
<1>2. Sealed(g, n)
  BY <1>1 DEF Sealed
<1>3. Marked(p, g, w.marks, n)
  BY <1>2, SealedStays DEF g
<1>4. \A m \in 1..Len(g) : IsWordOf(g, w, m) => m = n
  <2> SUFFICES ASSUME NEW m \in 1..Len(g), IsWordOf(g, w, m) PROVE m = n
    OBVIOUS
  <2> QED
    BY <1>1, SamePlace
<1> QED
  BY <1>2, <1>3, <1>4 DEF Finished, g

LEMMA RunStays ==
  ASSUME NEW f \in Seq(ResultType), NEW r \in ResultType, NEW p, NEW q,
         q.start + q.duration \in Int, RunFits(p, f, q)
  PROVE  RunFits(p, Append(f, r), q)
<1> DEFINE g == Append(f, r)
<1>1. /\ Len(f) \in Nat /\ Len(g) = Len(f) + 1
      /\ \A m \in 1..Len(f) : g[m] = f[m] /\ (IsKept(g, m) <=> IsKept(f, m))
  BY ResultsGrow
<1> HIDE DEF g
<1>2. q.start + q.duration <= End(Len(g))
  BY <1>1 DEF RunFits, End
<1>3. \A j \in 1..Len(q.words) : \E k \in 1..Len(g) :
        IsWordOf(g, q.words[j], k) /\ q.speaker = SpeakerOf(p, g[k].label)
  <2> TAKE j \in 1..Len(q.words)
  <2>1. PICK k \in 1..Len(f) : IsWordOf(f, q.words[j], k) /\ q.speaker = SpeakerOf(p, f[k].label)
    BY DEF RunFits
  <2>2. k \in 1..Len(g) /\ IsWordOf(g, q.words[j], k) /\ q.speaker = SpeakerOf(p, g[k].label)
    BY <1>1, <2>1 DEF IsWordOf
  <2> QED
    BY <2>2
<1> QED
  BY <1>2, <1>3 DEF RunFits, g

(* Until a kept result comes, all that is behind n belongs to it.           *)
LEMMA Unsealed ==
  ASSUME NEW f, Len(f) \in Nat, NEW n \in 1..Len(f), ~Sealed(f, n)
  PROVE  /\ MarksAfter(f, n) = {m \in (n + 1)..Len(f) : f[m].type = "punctuation"}
         /\ RemovedAfter(f, n) <=> \E m \in (n + 1)..Len(f) : f[m].tagged
<1>1. \A m \in (n + 1)..Len(f) : \A k \in (n + 1)..m : ~IsKept(f, k)
  BY DEF Sealed
<1> QED
  BY <1>1 DEF MarksAfter, RemovedAfter

(* What a result that is not kept adds to what is known of n.               *)
LEMMA ResultBehind ==
  ASSUME NEW f \in Seq(ResultType), NEW r \in ResultType, NEW n \in 1..Len(f),
         ~Sealed(f, n), IsKept(f, n), r.type = "word" => r.tagged
  PROVE  LET g == Append(f, r)
         IN  /\ ~Sealed(g, n)
             /\ MarksAfter(g, n) = IF r.type = "punctuation" THEN MarksAfter(f, n) \cup {Len(f) + 1}
                                   ELSE MarksAfter(f, n)
             /\ RemovedAfter(g, n) <=> RemovedAfter(f, n) \/ r.tagged
             /\ MarksAfter(f, n) \subseteq 1..Len(f)
             /\ \A m \in MarksAfter(f, n) : g[m] = f[m] /\ f[m].mark \in Marks
             /\ AllMeetAcrossRemovals(g, n) =>
                  /\ AllMeetAcrossRemovals(f, n)
                  /\ f[Len(f)].type = "punctuation" => r.type = "word"
<1> DEFINE g == Append(f, r)
           l == Len(f)
<1>1. /\ g \in Seq(ResultType) /\ l \in Nat /\ Len(g) = l + 1 /\ g[l + 1] = r
      /\ \A m \in 1..l : g[m] = f[m] /\ (IsKept(g, m) <=> IsKept(f, m))
      /\ ~IsKept(g, l + 1)
  BY ResultsGrow
<1>2. \A m \in 1..l : f[m] \in ResultType
  BY ElementOfSeq
<1> HIDE DEF g, l
<1>3. n \in 1..l /\ n \in Nat /\ n \in 1..Len(g)
  BY <1>1 DEF l
<1>4. ~Sealed(g, n)
  BY <1>1, <1>3 DEF Sealed, l
<1>5. /\ MarksAfter(f, n) = {m \in (n + 1)..l : f[m].type = "punctuation"}
      /\ RemovedAfter(f, n) <=> \E m \in (n + 1)..l : f[m].tagged
      /\ MarksAfter(g, n) = {m \in (n + 1)..(l + 1) : g[m].type = "punctuation"}
      /\ RemovedAfter(g, n) <=> \E m \in (n + 1)..(l + 1) : g[m].tagged
  BY <1>1, <1>3, <1>4, Unsealed DEF l
<1>6. MarksAfter(g, n) = IF r.type = "punctuation" THEN MarksAfter(f, n) \cup {l + 1}
                         ELSE MarksAfter(f, n)
  BY <1>1, <1>3, <1>5
<1>7. RemovedAfter(g, n) <=> RemovedAfter(f, n) \/ r.tagged
  <2>1. \A m \in (n + 1)..(l + 1) : m \in (n + 1)..l \/ m = l + 1
    BY <1>1, <1>3
  <2>2. l + 1 \in (n + 1)..(l + 1) /\ \A m \in (n + 1)..l : m \in (n + 1)..(l + 1) /\ g[m] = f[m]
    BY <1>1, <1>3
  <2> QED
    BY <1>1, <1>5, <2>1, <2>2
<1>8. MarksAfter(f, n) \subseteq 1..l
      /\ \A m \in MarksAfter(f, n) : g[m] = f[m] /\ f[m].mark \in Marks
  <2>1. MarksAfter(f, n) \subseteq 1..l
    BY <1>3, <1>5
  <2>2. \A m \in MarksAfter(f, n) : f[m].type = "punctuation"
    BY <1>5
  <2> QED
    BY <1>1, <1>2, <2>1, <2>2 DEF ResultType
<1>9. ASSUME AllMeetAcrossRemovals(g, n)
      PROVE  /\ AllMeetAcrossRemovals(f, n)
             /\ f[l].type = "punctuation" => r.type = "word"
  <2>1. \A m \in MarksAfter(f, n) : Collides(f[m].mark) /\ g[m + 1].type = "word"
    <3> TAKE m \in MarksAfter(f, n)
    <3>1. m \in MarksAfter(g, n) /\ m < Len(g) /\ g[m] = f[m]
      BY <1>1, <1>6, <1>8
    <3> QED
      BY <1>9, <3>1 DEF AllMeetAcrossRemovals
  <2>2. AllMeetAcrossRemovals(f, n)
    <3> SUFFICES ASSUME NEW m \in MarksAfter(f, n), m < l PROVE f[m + 1].type = "word"
      BY <2>1 DEF AllMeetAcrossRemovals, l
    <3>1. m + 1 \in 1..l
      BY <1>1, <1>8
    <3> QED
      BY <1>1, <2>1, <3>1
  <2>3. ASSUME f[l].type = "punctuation" PROVE r.type = "word"
    <3>1. l # n
      BY <2>3 DEF IsKept
    <3>2. l \in MarksAfter(f, n)
      BY <1>1, <1>3, <1>5, <2>3, <3>1
    <3> QED
      BY <1>1, <2>1, <3>2
  <2> QED
    BY <2>2, <2>3
<1> QED
  BY <1>4, <1>6, <1>7, <1>8, <1>9 DEF g, l

(* Only the results in question matter.                                     *)
LEMMA SpellsOn ==
  ASSUME NEW f, NEW g, NEW marks, NEW S, \A m \in S : f[m] = g[m]
  PROVE  /\ Spells(f, marks, S) => Spells(g, marks, S)
         /\ Reconciles(f, marks, S) => Reconciles(g, marks, S)
<1>1. {m \in S : Terminal(g[m].mark)} = {m \in S : Terminal(f[m].mark)}
  OBVIOUS
<1> QED
  BY <1>1 DEF Spells, Reconciles

(* An entity, or a word that was removed.                                   *)
LEMMA GrowsQuietly ==
  ASSUME NEW f \in Seq(ResultType), NEW r \in ResultType, NEW n \in 1..Len(f),
         IsKept(f, n), r.type # "punctuation", r.type = "word" => r.tagged,
         NEW p, NEW left, NEW suffix, NEW removed \in BOOLEAN, NEW removed2 \in BOOLEAN,
         r.tagged => removed2, ~r.tagged => removed2 = removed,
         Growing(p, f, left, suffix, removed, n)
  PROVE  Growing(p, Append(f, r), left, suffix, removed2, n)
<1> DEFINE g == Append(f, r)
           l == Len(f)
<1>1. ~Sealed(f, n) /\ Marked(p, f, left, n)
  BY DEF Growing
<1>2. /\ ~Sealed(g, n) /\ MarksAfter(g, n) = MarksAfter(f, n)
      /\ RemovedAfter(g, n) <=> RemovedAfter(f, n) \/ r.tagged
      /\ \A m \in MarksAfter(f, n) : g[m] = f[m]
      /\ AllMeetAcrossRemovals(g, n) =>
           /\ AllMeetAcrossRemovals(f, n)
           /\ f[l].type = "punctuation" => r.type = "word"
  BY <1>1, ResultBehind
<1>3. Len(g) = l + 1 /\ g[l + 1] = r
  BY ResultsGrow
<1> HIDE DEF g, l
<1>4. Marked(p, g, left, n)
  <2>1. CASE p = "deepgram"
    BY <1>1, <2>1 DEF Marked
  <2>2. CASE p # "deepgram"
    <3>1. Punctuated(f, left, n)
      BY <1>1, <2>2 DEF Marked
    <3>2. Punctuated(g, left, n)
      BY <1>2, <3>1, SpellsOn DEF Punctuated
    <3> QED
      BY <2>2, <3>2 DEF Marked
  <2> QED
    BY <2>1, <2>2
<1>5. ASSUME p = "speechmatics"
      PROVE  /\ (suffix = <<>>) <=> (MarksAfter(g, n) = {})
             /\ ~RemovedAfter(g, n) => ~removed2
  BY <1>2, <1>5 DEF Growing
<1>6. ASSUME p = "speechmatics", MarksAfter(g, n) # {}, AllMeetAcrossRemovals(g, n)
      PROVE  suffix = left /\ removed2
  <2>1. suffix = left /\ (f[l].type # "punctuation" => removed)
    BY <1>2, <1>6 DEF Growing, l
  <2>2. CASE r.tagged
    BY <2>1, <2>2
  <2>3. CASE ~r.tagged
    <3>1. f[l].type # "punctuation"
      BY <1>2, <1>6, <2>3
    <3> QED
      BY <2>1, <2>3, <3>1
  <2> QED
    BY <2>2, <2>3
<1>7. Growing(p, g, left, suffix, removed2, n)
  BY <1>2, <1>4, <1>5, <1>6 DEF Growing
<1> QED
  BY <1>7 DEF g
-----------------------------------------------------------------------------
(* Marks behind a word.                                                    *)

(* One more mark, written behind the others.                                *)
LEMMA SpellsAppend ==
  ASSUME NEW f \in Seq(ResultType), NEW r \in ResultType, NEW left \in Seq(Marks),
         NEW S \in SUBSET (1..Len(f)), Spells(f, left, S)
  PROVE  Spells(Append(f, r), Append(left, r.mark), S \cup {Len(f) + 1})
<1> DEFINE g == Append(f, r)
           l == Len(f)
           T == S \cup {l + 1}
           UpTo(X, m) == {k \in X : k <= m}
           longer == Append(left, r.mark)
<1>1. l \in Nat /\ g[l + 1] = r /\ \A m \in 1..l : g[m] = f[m]
  BY ResultsGrow
<1>2. IsFiniteSet(S) /\ Cardinality(S) \in Nat
  <2>1. IsFiniteSet(1..l)
    BY <1>1, FS_Interval
  <2> QED
    BY <2>1, FS_Subset, FS_CardinalityType
<1>3. l + 1 \notin S
  BY <1>1 DEF l
<1>4. IsFiniteSet(T) /\ Cardinality(T) = Cardinality(S) + 1
  BY <1>2, <1>3, FS_AddElement
<1>5. /\ Len(left) = Cardinality(S)
      /\ \A m \in S : left[Cardinality(UpTo(S, m))] = f[m].mark
  BY DEF Spells
<1>6. /\ Len(longer) = Len(left) + 1 /\ longer[Len(left) + 1] = r.mark
      /\ \A i \in 1..Len(left) : longer[i] = left[i]
  BY LenProperties
<1>7. ASSUME NEW m \in S
      PROVE  longer[Cardinality(UpTo(T, m))] = g[m].mark
  <2>1. m \in 1..l /\ UpTo(T, m) = UpTo(S, m)
    BY <1>1 DEF l
  <2>2. UpTo(S, m) \subseteq S /\ m \in UpTo(S, m)
    BY <2>1
  <2> HIDE DEF UpTo
  <2>3. /\ IsFiniteSet(UpTo(S, m)) /\ Cardinality(UpTo(S, m)) \in Nat
        /\ Cardinality(UpTo(S, m)) <= Cardinality(S)
    BY <1>2, <2>2, FS_Subset, FS_CardinalityType
  <2>4. Cardinality(UpTo(S, m)) # 0
    BY <2>2, <2>3, FS_EmptySet
  <2>5. Cardinality(UpTo(S, m)) \in 1..Len(left)
    BY <1>2, <1>5, <2>3, <2>4
  <2> QED
    BY <1>1, <1>5, <1>6, <2>1, <2>5
<1>8. UpTo(T, l + 1) = T
  <2>1. \A k \in S : k \in 1..l
    BY DEF l
  <2> HIDE DEF l
  <2>2. \A k \in T : k <= l + 1
    BY <1>1, <2>1
  <2> QED
    BY <2>2
<1> HIDE DEF UpTo, T, longer, g, l
<1>9. longer[Cardinality(UpTo(T, l + 1))] = g[l + 1].mark
  BY <1>1, <1>4, <1>5, <1>6, <1>8
<1>10. \A m \in T : longer[Cardinality(UpTo(T, m))] = g[m].mark
  BY <1>7, <1>9 DEF T
<1>11. Len(longer) = Cardinality(T)
  BY <1>4, <1>5, <1>6
<1> QED
  BY <1>10, <1>11 DEF Spells, UpTo, T, longer, g, l

LEMMA OneMark ==
  ASSUME NEW mark \in Marks, NEW other \in Marks
  PROVE  /\ <<mark>> \in Seq(Marks) /\ <<mark>> # <<>>
         /\ <<mark>> = <<other>> => mark = other
         /\ Append(<<>>, mark) = <<mark>>
         /\ Append(Front(<<other>>), mark) = <<mark>>
<1>1. <<mark>> \in Seq(Marks) /\ <<mark>> # <<>> /\ Append(<<>>, mark) = <<mark>>
  OBVIOUS
<1>2. <<mark>> = <<other>> => mark = other
  <2>1. <<mark>>[1] = mark /\ <<other>>[1] = other
    OBVIOUS
  <2> QED
    BY <2>1
<1>3. Len(<<other>>) = 1
  OBVIOUS
<1>4. Front(<<other>>) = <<>>
  BY <1>3 DEF Front
<1> QED
  BY <1>1, <1>2, <1>4

LEMMA AppendedMarks ==
  ASSUME NEW left \in Seq(Marks), NEW suffix \in Seq(Marks), NEW removed \in BOOLEAN,
         NEW mark \in Marks, suffix # <<>> => left # <<>>
  PROVE  LET a == AppendPunctuation(left, suffix, removed, mark)
         IN  /\ a.marks \in Seq(Marks) /\ a.suffix \in Seq(Marks)
             /\ a.marks # <<>> /\ a.suffix # <<>>
<1> DEFINE a == AppendPunctuation(left, suffix, removed, mark)
           meet == removed /\ IsPunctuationCollision(suffix, mark)
<1>1. CASE ~meet
  <2>1. a = [marks |-> Append(left, mark), suffix |-> Append(suffix, mark)]
    BY <1>1 DEF AppendPunctuation
  <2>2. /\ Append(left, mark) \in Seq(Marks) /\ Append(suffix, mark) \in Seq(Marks)
        /\ Append(left, mark) # <<>> /\ Append(suffix, mark) # <<>>
    BY AppendProperties
  <2> QED
    BY <2>1, <2>2
<1>2. CASE meet /\ suffix = <<",">> /\ Terminal(mark)
  <2>1. a = [marks |-> Append(Front(left), mark), suffix |-> <<mark>>]
    BY <1>2 DEF AppendPunctuation
  <2>2. suffix # <<>>
    BY <1>2
  <2>3. Front(left) \in Seq(Marks)
    <3>1. Len(left) > 0 /\ Len(left) \in Nat
      BY <2>2, EmptySeq, LenProperties
    <3>2. Front(left) = [i \in 1..(Len(left) - 1) |-> left[i]]
      BY <3>1 DEF Front
    <3>3. \A i \in 1..(Len(left) - 1) : left[i] \in Marks
      BY <3>1, ElementOfSeq
    <3> QED
      BY <3>1, <3>2, <3>3, IsASeq
  <2>4. Append(Front(left), mark) \in Seq(Marks) /\ Append(Front(left), mark) # <<>>
    BY <2>3, AppendProperties
  <2> QED
    BY <2>1, <2>4, OneMark
<1>3. CASE meet /\ ~(suffix = <<",">> /\ Terminal(mark))
  <2>1. a = [marks |-> left, suffix |-> suffix]
    BY <1>3 DEF AppendPunctuation
  <2>2. suffix # <<>>
    BY <1>3, OneMark DEF IsPunctuationCollision
  <2> QED
    BY <2>1, <2>2
<1> QED
  BY <1>1, <1>2, <1>3

LEMMA SingleMark ==
  ASSUME NEW mark, <<mark>> \in Seq(Marks)
  PROVE  mark \in Marks
OBVIOUS

(* Where marks meet across removed words, one of them is left.              *)
LEMMA MeetingMarks ==
  ASSUME NEW f \in Seq(ResultType), NEW r \in ResultType, r.mark \in Marks,
         NEW left \in Seq(Marks), NEW S \in SUBSET (1..Len(f)),
         \A m \in S : f[m].mark \in Marks,
         S # {}, Reconciles(f, left, S), Collides(r.mark)
  PROVE  LET a == AppendPunctuation(left, left, TRUE, r.mark)
         IN  a.suffix = a.marks /\ Reconciles(Append(f, r), a.marks, S \cup {Len(f) + 1})
<1> DEFINE g == Append(f, r)
           l == Len(f)
           T == S \cup {l + 1}
           a == AppendPunctuation(left, left, TRUE, r.mark)
           ends == {m \in S : Terminal(f[m].mark)}
<1>1. l \in Nat /\ g[l + 1] = r /\ \A m \in S : m \in 1..l /\ g[m] = f[m]
  BY ResultsGrow
<1> HIDE DEF g, l
<1>2. {m \in T : Terminal(g[m].mark)} = IF Terminal(r.mark) THEN ends \cup {l + 1} ELSE ends
  BY <1>1
<1>3. \/ ends = {} /\ left = <<",">>
      \/ \E m \in ends : (\A k \in ends : m <= k) /\ left = <<f[m].mark>>
  BY DEF Reconciles
<1>4. CASE ends = {} /\ left = <<",">> /\ Terminal(r.mark)
  <2>1. "," \in Marks
    BY <1>4, SingleMark
  <2>2. IsPunctuationCollision(left, r.mark)
    BY <1>4, <2>1 DEF IsPunctuationCollision, Collides
  <2>3. a = [marks |-> Append(Front(left), r.mark), suffix |-> <<r.mark>>]
    BY <1>4, <2>2 DEF AppendPunctuation
  <2> HIDE DEF a
  <2>4. a.marks = <<r.mark>> /\ a.suffix = <<r.mark>>
    <3>1. Append(Front(left), r.mark) = <<r.mark>>
      BY <1>4, <2>1, OneMark
    <3> QED
      BY <2>3, <3>1
  <2>5. {m \in T : Terminal(g[m].mark)} = {l + 1}
    BY <1>2, <1>4
  <2> HIDE DEF T
  <2>6. Reconciles(g, a.marks, T)
    <3>1. l + 1 <= l + 1 /\ a.marks = <<g[l + 1].mark>>
      BY <1>1, <2>4
    <3> QED
      BY <2>5, <3>1 DEF Reconciles
  <2> QED
    BY <2>4, <2>6 DEF a, T, g, l
<1>5. CASE ends = {} /\ left = <<",">> /\ ~Terminal(r.mark)
  <2>1. r.mark = "," /\ IsPunctuationCollision(left, r.mark)
    BY <1>5 DEF IsPunctuationCollision, Collides
  <2>2. a = [marks |-> left, suffix |-> left]
    BY <1>5, <2>1 DEF AppendPunctuation
  <2>3. {m \in T : Terminal(g[m].mark)} = {}
    BY <1>2, <1>5
  <2> HIDE DEF a, T
  <2>4. a.marks = <<",">> /\ a.suffix = a.marks
    BY <1>5, <2>2
  <2>5. Reconciles(g, a.marks, T)
    BY <2>3, <2>4 DEF Reconciles
  <2> QED
    BY <2>4, <2>5 DEF a, T, g, l
<1>6. CASE \E m \in ends : (\A k \in ends : m <= k) /\ left = <<f[m].mark>>
  <2>1. PICK m \in ends : (\A k \in ends : m <= k) /\ left = <<f[m].mark>>
    BY <1>6
  <2>2. m \in S /\ f[m].mark \in Marks /\ Terminal(f[m].mark) /\ m <= l + 1 /\ g[m] = f[m]
    BY <1>1, <2>1
  <2>3. IsPunctuationCollision(left, r.mark)
    BY <2>1, <2>2 DEF IsPunctuationCollision, Collides
  <2>4. left # <<",">>
    <3>1. ~Terminal(",")
      BY DEF Terminal
    <3> QED
      BY <2>1, <2>2, <3>1
  <2>5. a = [marks |-> left, suffix |-> left]
    BY <2>3, <2>4 DEF AppendPunctuation
  <2> HIDE DEF ends
  <2>6. Reconciles(g, left, T)
    <3> DEFINE more == {k \in T : Terminal(g[k].mark)}
    <3>1. more = IF Terminal(r.mark) THEN ends \cup {l + 1} ELSE ends
      BY <1>2
    <3> HIDE DEF more
    <3>2. m \in more /\ \A k \in more : m <= k
      BY <2>1, <2>2, <3>1
    <3>3. left = <<g[m].mark>>
      BY <2>1, <2>2
    <3>4. \E k \in more : (\A i \in more : k <= i) /\ left = <<g[k].mark>>
      BY <3>2, <3>3
    <3> QED
      BY <3>4 DEF Reconciles, more
  <2> HIDE DEF a, T
  <2>7. a.marks = left /\ a.suffix = left
    BY <2>5
  <2>8. Reconciles(g, a.marks, T)
    BY <2>6, <2>7
  <2> QED
    BY <2>7, <2>8 DEF a, T, g, l
<1> QED
  BY <1>3, <1>4, <1>5, <1>6

(* A mark of punctuation.                                                   *)
LEMMA GrowsByMark ==
  ASSUME NEW f \in Seq(ResultType), NEW r \in ResultType, NEW n \in 1..Len(f),
         IsKept(f, n), r.type = "punctuation",
         NEW left \in Seq(Marks), NEW suffix \in Seq(Marks), NEW removed \in BOOLEAN,
         Growing("speechmatics", f, left, suffix, removed, n),
         NEW a, a = AppendPunctuation(left, suffix, removed, r.mark)
  PROVE  /\ a.marks \in Seq(Marks) /\ a.suffix \in Seq(Marks)
         /\ Growing("speechmatics", Append(f, r), a.marks, a.suffix, FALSE, n)
<1> DEFINE g == Append(f, r)
           l == Len(f)
           M == MarksAfter(f, n)
           N == MarksAfter(g, n)
<1>1. r.mark \in Marks /\ ~r.tagged
  BY DEF ResultType
<1>2. /\ ~Sealed(f, n)
      /\ (left = <<>>) <=> (M = {})
      /\ (suffix = <<>>) <=> (M = {})
      /\ ~RemovedAfter(f, n) => Spells(f, left, M) /\ ~removed
      /\ M # {} /\ AllMeetAcrossRemovals(f, n)
         => Reconciles(f, left, M) /\ suffix = left /\ (f[l].type # "punctuation" => removed)
  BY DEF Growing, Marked, Punctuated
<1>3. /\ l \in Nat /\ Len(g) = l + 1 /\ g[l + 1] = r
  BY ResultsGrow
<1>4. /\ ~Sealed(g, n) /\ N = M \cup {l + 1}
      /\ RemovedAfter(g, n) <=> RemovedAfter(f, n)
      /\ M \subseteq 1..l
      /\ \A m \in M : g[m] = f[m] /\ f[m].mark \in Marks
      /\ AllMeetAcrossRemovals(g, n) => AllMeetAcrossRemovals(f, n) /\ f[l].type # "punctuation"
  BY <1>1, <1>2, ResultBehind
<1>5. /\ a.marks \in Seq(Marks) /\ a.suffix \in Seq(Marks)
      /\ a.marks # <<>> /\ a.suffix # <<>>
  BY <1>1, <1>2, AppendedMarks
<1> HIDE DEF M, N
<1>6. ASSUME ~RemovedAfter(g, n)
      PROVE  Spells(g, a.marks, N)
  <2>1. ~removed /\ Spells(f, left, M)
    BY <1>2, <1>4, <1>6
  <2>2. a.marks = Append(left, r.mark)
    BY <2>1 DEF AppendPunctuation
  <2> QED
    BY <1>4, <2>1, <2>2, SpellsAppend
<1>7. ASSUME AllMeetAcrossRemovals(g, n)
      PROVE  Reconciles(g, a.marks, N) /\ a.suffix = a.marks
  <2>1. Collides(r.mark)
    <3>1. l + 1 \in N /\ g[l + 1].mark = r.mark
      BY <1>3, <1>4
    <3> QED
      BY <1>7, <3>1 DEF AllMeetAcrossRemovals, N
  <2>2. CASE M = {}
    <3>1. left = <<>> /\ suffix = <<>>
      BY <1>2, <2>2
    <3>2. ~IsPunctuationCollision(suffix, r.mark)
      BY <3>1 DEF IsPunctuationCollision
    <3>3. a = [marks |-> <<r.mark>>, suffix |-> <<r.mark>>]
      BY <1>1, <3>1, <3>2, OneMark DEF AppendPunctuation
    <3>4. N = {l + 1}
      BY <1>4, <2>2
    <3>5. Reconciles(g, <<r.mark>>, {l + 1})
      <4>1. g[l + 1] = r
        BY <1>3
      <4>2. {m \in {l + 1} : Terminal(g[m].mark)} = IF Terminal(r.mark) THEN {l + 1} ELSE {}
        BY <4>1
      <4>3. Terminal(r.mark) \/ r.mark = ","
        BY <2>1 DEF Collides
      <4>4. l + 1 <= l + 1
        BY <1>3
      <4> HIDE DEF g, l
      <4> QED
        BY <4>1, <4>2, <4>3, <4>4 DEF Reconciles
    <3> QED
      BY <3>3, <3>4, <3>5
  <2>3. CASE M # {}
    <3>1. Reconciles(f, left, M) /\ suffix = left /\ removed
      BY <1>2, <1>4, <1>7, <2>3
    <3>2. a = AppendPunctuation(left, left, TRUE, r.mark)
      BY <3>1 DEF AppendPunctuation
    <3> QED
      BY <1>1, <1>4, <2>1, <2>3, <3>1, <3>2, MeetingMarks
  <2> QED
    BY <2>2, <2>3
<1>8. N # {} /\ Punctuated(g, a.marks, n)
  BY <1>4, <1>5, <1>6, <1>7 DEF Punctuated, N
<1>9. Growing("speechmatics", g, a.marks, a.suffix, FALSE, n)
  BY <1>3, <1>4, <1>5, <1>7, <1>8 DEF Growing, Marked, N
<1> QED
  BY <1>5, <1>9 DEF g
-----------------------------------------------------------------------------
(* The loop, one result at a time.                                         *)

LEMMA EndedStays ==
  ASSUME NEW f \in Seq(ResultType), NEW r \in ResultType, NEW p, NEW rs \in Seq(RunType),
         Ended(p, f, rs)
  PROVE  Ended(p, Append(f, r), rs)
<1> SUFFICES ASSUME NEW i \in 1..Len(rs)
             PROVE  /\ RunFits(p, Append(f, r), rs[i])
                    /\ \A j \in 1..Len(rs[i].words) : Finished(p, Append(f, r), rs[i].words[j])
                    /\ i < Len(rs) => Follows(rs[i], rs[i + 1])
  BY DEF Ended
<1>1. /\ RunFits(p, f, rs[i])
      /\ \A j \in 1..Len(rs[i].words) : Finished(p, f, rs[i].words[j])
      /\ i < Len(rs) => Follows(rs[i], rs[i + 1])
  BY DEF Ended
<1>2. rs[i].start + rs[i].duration \in Int
  <2>1. rs[i] \in RunType
    BY ElementOfSeq
  <2> QED
    BY <2>1 DEF RunType
<1>3. RunFits(p, Append(f, r), rs[i])
  BY <1>1, <1>2, RunStays
<1>4. \A j \in 1..Len(rs[i].words) : Finished(p, Append(f, r), rs[i].words[j])
  <2> TAKE j \in 1..Len(rs[i].words)
  <2>1. \E k \in 1..Len(f) : IsWordOf(f, rs[i].words[j], k)
    BY <1>1 DEF RunFits
  <2> QED
    BY <1>1, <2>1, FinishedStays
<1> QED
  BY <1>1, <1>3, <1>4

(* The open run would be flushed with its words and its end.                *)
LEMMA OpenTypes ==
  ASSUME NEW o \in OpenType
  PROVE  /\ Flushed(o) \in RunType
         /\ Flushed(o).words = o.words /\ Flushed(o).speaker = o.speaker
         /\ Flushed(o).start = o.start /\ Flushed(o).start + Flushed(o).duration = o.end
         /\ o.end \in Nat /\ Len(o.words) \in Nat
BY LenProperties DEF OpenType, RunType, Flushed

(* A result that is not kept leaves the words as they are, but for the      *)
(* marks behind the last one.                                               *)
LEMMA NoNewWord ==
  ASSUME NEW f \in Seq(ResultType), NEW r \in ResultType, NEW p, NEW rs \in Seq(RunType),
         NEW o \in OpenType, NEW o2 \in OpenType, Decoded(p, f, rs, o),
         r.type = "word" => r.tagged,
         o2.open = o.open, o2.speaker = o.speaker, o2.start = o.start,
         Len(o2.words) = Len(o.words),
         \A j \in 1..Len(o.words) : o2.words[j].start = o.words[j].start
                                    /\ o2.words[j].end = o.words[j].end,
         \A j \in 1..(Len(o.words) - 1) : o2.words[j] = o.words[j],
         o.end <= o2.end, o.open => o2.end = o.end \/ o2.end = End(Len(f) + 1),
         \A n \in 1..Len(f) :
           /\ o.open /\ IsKept(f, n)
           /\ Growing(p, f, o.words[Len(o.words)].marks, o.suffix, o.removed, n)
           => Growing(p, Append(f, r), o2.words[Len(o.words)].marks, o2.suffix, o2.removed, n)
  PROVE  Decoded(p, Append(f, r), rs, o2)
<1> DEFINE g == Append(f, r)
           at == Len(o.words)
<1>1. /\ Len(f) \in Nat /\ Len(g) = Len(f) + 1
      /\ \A m \in 1..Len(f) : g[m] = f[m] /\ (IsKept(g, m) <=> IsKept(f, m))
      /\ ~IsKept(g, Len(f) + 1)
  BY ResultsGrow
<1> HIDE DEF g
<1>2. Ended(p, g, rs)
  BY EndedStays DEF Decoded, g
<1>3. at \in Nat /\ o.end \in Nat /\ o2.end \in Nat
  BY OpenTypes
<1>4. Covered(g, rs, o2)
  <2> SUFFICES ASSUME NEW n \in 1..Len(g), IsKept(g, n)
               PROVE  \/ SpokenIn(rs, n)
                      \/ o2.open /\ \E j \in 1..Len(o2.words) : o2.words[j].start = Start(n)
    BY DEF Covered
  <2>1. n \in 1..Len(f) /\ IsKept(f, n)
    BY <1>1
  <2>2. \/ SpokenIn(rs, n)
        \/ o.open /\ \E j \in 1..at : o.words[j].start = Start(n)
    BY <2>1 DEF Decoded, Covered
  <2> QED
    BY <2>2
<1>5. ASSUME o.open PROVE OpenRun(p, g, rs, o2)
  <2>1. OpenRun(p, f, rs, o)
    BY <1>5 DEF Decoded
  <2>2. /\ Flushed(o).words = o.words /\ Flushed(o).speaker = o.speaker
        /\ Flushed(o).start = o.start /\ Flushed(o).start + Flushed(o).duration = o.end
        /\ Flushed(o2).words = o2.words /\ Flushed(o2).speaker = o.speaker
        /\ Flushed(o2).start = o.start /\ Flushed(o2).start + Flushed(o2).duration = o2.end
    BY OpenTypes
  <2>3. RunFits(p, f, Flushed(o))
    BY <2>1 DEF OpenRun
  <2>4. /\ at > 0
        /\ \A j \in 1..at : \E k \in 1..Len(f) :
             IsWordOf(f, o.words[j], k) /\ o.speaker = SpeakerOf(p, f[k].label)
        /\ \A j \in 1..(at - 1) : o.words[j].end < o.words[j + 1].start
        /\ o.start = o.words[1].start
        /\ o.end >= o.words[at].end
        /\ o.end <= End(Len(f))
    BY <2>2, <2>3 DEF RunFits
  <2>5. RunFits(p, g, Flushed(o2))
    <3>1. \A j \in 1..at : \E k \in 1..Len(g) :
            IsWordOf(g, o2.words[j], k) /\ o.speaker = SpeakerOf(p, g[k].label)
      <4> TAKE j \in 1..at
      <4>1. PICK k \in 1..Len(f) : IsWordOf(f, o.words[j], k) /\ o.speaker = SpeakerOf(p, f[k].label)
        BY <2>4
      <4>2. k \in 1..Len(g) /\ IsWordOf(g, o2.words[j], k) /\ o.speaker = SpeakerOf(p, g[k].label)
        BY <1>1, <4>1 DEF IsWordOf
      <4> QED
        BY <4>2
    <3>2. \A j \in 1..(at - 1) : o2.words[j].end < o2.words[j + 1].start
      <4> TAKE j \in 1..(at - 1)
      <4>1. j \in 1..at /\ j + 1 \in 1..at
        BY <1>3
      <4> QED
        BY <2>4, <4>1
    <3>3. o.start = o2.words[1].start /\ o2.words[at].end = o.words[at].end /\ o.words[at].end \in Nat
      <4>1. 1 \in 1..at /\ at \in 1..at
        BY <1>3, <2>4
      <4>2. o.words[at] \in WordType
        <5>1. o.words \in Seq(WordType)
          BY DEF OpenType
        <5> QED
          BY <4>1, <5>1, ElementOfSeq
      <4> QED
        BY <2>4, <4>1, <4>2 DEF WordType
    <3>4. o2.end >= o2.words[at].end /\ o2.end <= End(Len(g))
      BY <1>1, <1>3, <1>5, <2>4, <3>3 DEF End
    <3> QED
      BY <2>2, <2>4, <3>1, <3>2, <3>3, <3>4 DEF RunFits
  <2>6. rs # <<>> => Follows(rs[Len(rs)], Flushed(o2))
    BY <2>1, <2>2 DEF OpenRun, Follows
  <2>7. \A j \in 1..(at - 1) : Finished(p, g, o2.words[j])
    <3> TAKE j \in 1..(at - 1)
    <3>1. j \in 1..at
      BY <1>3
    <3>2. Finished(p, f, o.words[j]) /\ \E k \in 1..Len(f) : IsWordOf(f, o.words[j], k)
      BY <2>1, <2>4, <3>1 DEF OpenRun
    <3>3. Finished(p, g, o.words[j])
      BY <3>2, FinishedStays DEF g
    <3> QED
      BY <3>3
  <2>8. PICK n \in 1..Len(f) :
          /\ IsWordOf(f, o.words[at], n)
          /\ Growing(p, f, o.words[at].marks, o.suffix, o.removed, n)
    BY <2>1 DEF OpenRun
  <2>9. n \in 1..Len(g) /\ IsWordOf(g, o2.words[at], n)
    <3>1. at \in 1..at
      BY <1>3, <2>4
    <3> QED
      BY <1>1, <2>8, <3>1 DEF IsWordOf
  <2>10. Growing(p, g, o2.words[at].marks, o2.suffix, o2.removed, n)
    BY <1>5, <2>8 DEF IsWordOf, g
  <2> QED
    BY <2>5, <2>6, <2>7, <2>9, <2>10 DEF OpenRun
<1> QED
  BY <1>2, <1>4, <1>5 DEF Decoded, g

LEMMA RunSpan ==
  ASSUME NEW q \in RunType
  PROVE  q.start + q.duration \in Int
BY DEF RunType

(* Nothing lies behind the last result.                                     *)
LEMMA FreshWord ==
  ASSUME NEW f, Len(f) \in Nat, NEW p
  PROVE  Growing(p, f, <<>>, <<>>, FALSE, Len(f))
<1> DEFINE n == Len(f)
<1>1. (n + 1)..Len(f) = {}
  OBVIOUS
<1>2. ~Sealed(f, n) /\ MarksAfter(f, n) = {} /\ ~RemovedAfter(f, n)
  BY <1>1 DEF Sealed, MarksAfter, RemovedAfter
<1>3. Spells(f, <<>>, {})
  BY FS_EmptySet DEF Spells
<1> QED
  BY <1>2, <1>3 DEF Growing, Marked, Punctuated

(* The run being filled, when it is flushed.                                *)
LEMMA Flushing ==
  ASSUME NEW f \in Seq(ResultType), NEW p, NEW rs \in Seq(RunType), NEW o \in OpenType,
         Decoded(p, f, rs, o), o.open
  PROVE  LET rs2 == Append(rs, Flushed(o))
         IN  /\ rs2 \in Seq(RunType) /\ Len(rs2) = Len(rs) + 1
             /\ rs2[Len(rs) + 1] = Flushed(o) /\ \A i \in 1..Len(rs) : rs2[i] = rs[i]
             /\ \A i \in 1..Len(rs2) : /\ RunFits(p, f, rs2[i])
                                       /\ i < Len(rs2) => Follows(rs2[i], rs2[i + 1])
             /\ \A n \in 1..Len(f) : IsKept(f, n) => SpokenIn(rs2, n)
<1> DEFINE rs2 == Append(rs, Flushed(o))
<1>1. Flushed(o) \in RunType /\ Flushed(o).words = o.words
  BY OpenTypes
<1>2. /\ rs2 \in Seq(RunType) /\ Len(rs) \in Nat /\ Len(rs2) = Len(rs) + 1
      /\ rs2[Len(rs) + 1] = Flushed(o)
      /\ \A i \in 1..Len(rs) : rs2[i] = rs[i]
  BY <1>1, AppendProperties, LenProperties
<1>3. Ended(p, f, rs) /\ OpenRun(p, f, rs, o) /\ Covered(f, rs, o)
  BY DEF Decoded
<1> HIDE DEF rs2
<1>4. ASSUME NEW i \in 1..Len(rs2)
      PROVE  RunFits(p, f, rs2[i]) /\ (i < Len(rs2) => Follows(rs2[i], rs2[i + 1]))
  <2>1. CASE i = Len(rs) + 1
    BY <1>2, <1>3, <2>1 DEF OpenRun
  <2>2. CASE i = Len(rs)
    <3>1. i \in 1..Len(rs)
      BY <1>2, <2>2
    <3>2. rs # <<>>
      BY <3>1
    <3>3. Follows(rs[Len(rs)], Flushed(o))
      BY <1>3, <3>2 DEF OpenRun
    <3> QED
      BY <1>2, <1>3, <2>2, <3>1, <3>3 DEF Ended
  <2>3. CASE i < Len(rs)
    <3>1. i \in 1..Len(rs) /\ i + 1 \in 1..Len(rs)
      BY <1>2, <2>3
    <3> QED
      BY <1>2, <1>3, <2>3, <3>1 DEF Ended
  <2> QED
    BY <1>2, <2>1, <2>2, <2>3
<1>5. ASSUME NEW n \in 1..Len(f), IsKept(f, n) PROVE SpokenIn(rs2, n)
  <2>1. CASE SpokenIn(rs, n)
    <3>1. PICK i \in 1..Len(rs) : \E j \in 1..Len(rs[i].words) : rs[i].words[j].start = Start(n)
      BY <2>1 DEF SpokenIn
    <3>2. i \in 1..Len(rs2) /\ rs2[i] = rs[i]
      BY <1>2
    <3> QED
      BY <3>1, <3>2 DEF SpokenIn
  <2>2. CASE \E j \in 1..Len(o.words) : o.words[j].start = Start(n)
    <3>1. Len(rs) + 1 \in 1..Len(rs2) /\ rs2[Len(rs) + 1].words = o.words
      BY <1>1, <1>2
    <3> QED
      BY <2>2, <3>1 DEF SpokenIn
  <2> QED
    BY <1>3, <1>5, <2>1, <2>2 DEF Covered
<1> QED
  BY <1>2, <1>4, <1>5 DEF rs2

(* A word that is kept: the first of its run when it opens one.             *)
LEMMA OpensRun ==
  ASSUME NEW f \in Seq(ResultType), NEW r \in ResultType, NEW p, NEW rs \in Seq(RunType),
         NEW o \in OpenType, Decoded(p, f, rs, o), r.type = "word", ~r.tagged,
         NEW o2 \in OpenType, NEW rs2,
         rs2 = IF o.open THEN Append(rs, Flushed(o)) ELSE rs,
         o.open => SpeakerOf(p, r.label) # o.speaker,
         o2.speaker = SpeakerOf(p, r.label), o2.start = Start(Len(f) + 1),
         o2.end = End(Len(f) + 1), o2.open, o2.suffix = <<>>, ~o2.removed,
         o2.words = <<[start |-> Start(Len(f) + 1), end |-> End(Len(f) + 1), marks |-> <<>>]>>
  PROVE  rs2 \in Seq(RunType) /\ Decoded(p, Append(f, r), rs2, o2)
<1> DEFINE g == Append(f, r)
           l == Len(f)
           w == [start |-> Start(l + 1), end |-> End(l + 1), marks |-> <<>>]
<1>1. /\ l \in Nat /\ Len(g) = l + 1 /\ g[l + 1] = r /\ IsKept(g, l + 1) /\ g \in Seq(ResultType)
      /\ \A m \in 1..l : g[m] = f[m] /\ (IsKept(g, m) <=> IsKept(f, m))
  BY ResultsGrow
<1>2. Len(o2.words) = 1 /\ o2.words[1] = w
  OBVIOUS
<1>3. w.start = Start(l + 1) /\ w.end = End(l + 1) /\ w.marks = <<>>
  OBVIOUS
<1>4. /\ Flushed(o2).words = o2.words /\ Flushed(o2).speaker = o2.speaker
      /\ Flushed(o2).start = o2.start /\ Flushed(o2).start + Flushed(o2).duration = o2.end
  BY OpenTypes
<1> HIDE DEF g, w
<1>5. IsWordOf(g, w, l + 1)
  BY <1>1, <1>3 DEF IsWordOf
<1>6. RunFits(p, g, Flushed(o2))
  <2>1. 1 \in 1..1 /\ l + 1 \in 1..Len(g) /\ \A j \in 1..1 : j = 1
    BY <1>1
  <2>2. \A j \in 1..1 : \E k \in 1..Len(g) :
          IsWordOf(g, o2.words[j], k) /\ o2.speaker = SpeakerOf(p, g[k].label)
    BY <1>1, <1>2, <1>5, <2>1
  <2>3. \A j \in 1..(1 - 1) : o2.words[j].end < o2.words[j + 1].start
    OBVIOUS
  <2>4. o2.end >= w.end /\ o2.end <= End(Len(g)) /\ o2.start = w.start
    BY <1>1, <1>3 DEF End
  <2> QED
    BY <1>2, <1>4, <2>2, <2>3, <2>4 DEF RunFits
<1>7. Growing(p, g, <<>>, <<>>, FALSE, l + 1)
  <2>1. Len(g) \in Nat
    BY <1>1
  <2>2. Growing(p, g, <<>>, <<>>, FALSE, Len(g))
    BY <2>1, FreshWord
  <2> QED
    BY <1>1, <2>2
<1>8. \E n \in 1..Len(g) : /\ IsWordOf(g, o2.words[Len(o2.words)], n)
                           /\ Growing(p, g, o2.words[Len(o2.words)].marks, o2.suffix, o2.removed, n)
  <2>1. l + 1 \in 1..Len(g) /\ o2.removed = FALSE
    BY <1>1 DEF OpenType
  <2> QED
    BY <1>2, <1>3, <1>5, <1>7, <2>1
<1>9. \A j \in 1..(Len(o2.words) - 1) : Finished(p, g, o2.words[j])
  BY <1>2
<1>10. \E j \in 1..Len(o2.words) : o2.words[j].start = Start(l + 1)
  BY <1>2, <1>3
<1>11. CASE ~o.open
  <2>1. rs = <<>> /\ rs2 = <<>> /\ Len(rs) = 0 /\ Covered(f, rs, o)
    BY <1>11 DEF Decoded
  <2>2. OpenRun(p, g, rs2, o2)
    BY <1>6, <1>8, <1>9, <2>1 DEF OpenRun
  <2>3. Ended(p, g, rs2)
    BY <2>1 DEF Ended
  <2>4. \A n \in 1..l : ~IsKept(f, n)
    BY <1>11, <2>1 DEF Covered, SpokenIn
  <2>5. Covered(g, rs2, o2)
    BY <1>1, <1>10, <2>4 DEF Covered
  <2> QED
    BY <2>1, <2>2, <2>3, <2>5 DEF Decoded, g
<1>12. CASE o.open
  <2>1. /\ rs2 = Append(rs, Flushed(o))
        /\ rs2 \in Seq(RunType) /\ Len(rs2) = Len(rs) + 1 /\ Len(rs) \in Nat
        /\ rs2[Len(rs) + 1] = Flushed(o) /\ \A i \in 1..Len(rs) : rs2[i] = rs[i]
        /\ \A i \in 1..Len(rs2) : /\ RunFits(p, f, rs2[i])
                                  /\ i < Len(rs2) => Follows(rs2[i], rs2[i + 1])
        /\ \A n \in 1..Len(f) : IsKept(f, n) => SpokenIn(rs2, n)
    BY <1>12, Flushing, LenProperties
  <2>2. /\ Flushed(o).words = o.words /\ Flushed(o).speaker = o.speaker
        /\ Flushed(o).start + Flushed(o).duration = o.end
        /\ o.end \in Nat /\ Len(o.words) \in Nat
    BY OpenTypes
  <2>3. OpenRun(p, f, rs, o) /\ Ended(p, f, rs)
    BY <1>12 DEF Decoded
  <2>4. ASSUME NEW i \in 1..Len(rs2)
        PROVE  RunFits(p, g, rs2[i]) /\ \A j \in 1..Len(rs2[i].words) : Finished(p, g, rs2[i].words[j])
    <3>1. rs2[i].start + rs2[i].duration \in Int
      <4>1. rs2[i] \in RunType
        BY <2>1, ElementOfSeq
      <4> QED
        BY <4>1, RunSpan
    <3>2. RunFits(p, f, rs2[i])
      BY <2>1
    <3>3. RunFits(p, g, rs2[i])
      BY <3>1, <3>2, RunStays DEF g
    <3>4. ASSUME NEW j \in 1..Len(rs2[i].words) PROVE Finished(p, g, rs2[i].words[j])
      <4>1. \E k \in 1..Len(f) : IsWordOf(f, rs2[i].words[j], k)
        BY <3>2 DEF RunFits
      <4>2. CASE i \in 1..Len(rs)
        <5>1. Finished(p, f, rs2[i].words[j])
          BY <2>1, <2>3, <4>2 DEF Ended
        <5> QED
          BY <4>1, <5>1, FinishedStays DEF g
      <4>3. CASE i = Len(rs) + 1
        <5>1. rs2[i].words = o.words
          BY <2>1, <2>2, <4>3
        <5>2. CASE j = Len(o.words)
          <6>1. PICK n \in 1..Len(f) : /\ IsWordOf(f, o.words[j], n)
                                      /\ Growing(p, f, o.words[j].marks, o.suffix, o.removed, n)
            BY <2>3, <5>2 DEF OpenRun
          <6>2. Marked(p, f, o.words[j].marks, n)
            BY <6>1 DEF Growing
          <6>3. Finished(p, g, o.words[j])
            BY <6>1, <6>2, NowFinished DEF g
          <6> QED
            BY <5>1, <6>3
        <5>3. CASE j # Len(o.words)
          <6>1. j \in 1..(Len(o.words) - 1)
            BY <2>2, <5>1, <5>3
          <6>2. Finished(p, f, rs2[i].words[j])
            BY <2>3, <5>1, <6>1 DEF OpenRun
          <6> QED
            BY <4>1, <6>2, FinishedStays DEF g
        <5> QED
          BY <5>2, <5>3
      <4> QED
        BY <2>1, <4>2, <4>3
    <3> QED
      BY <3>3, <3>4
  <2>5. Ended(p, g, rs2)
    BY <2>1, <2>4 DEF Ended
  <2>6. Follows(rs2[Len(rs2)], Flushed(o2))
    <3>1. o.end <= End(l)
      BY <2>2, <2>3 DEF OpenRun, RunFits
    <3>2. o.end < o2.start
      BY <1>1, <2>2, <3>1 DEF Start, End
    <3> QED
      BY <1>4, <1>12, <2>1, <2>2, <3>2 DEF Follows
  <2>7. OpenRun(p, g, rs2, o2)
    BY <1>6, <1>8, <1>9, <2>6 DEF OpenRun
  <2>8. Covered(g, rs2, o2)
    BY <1>1, <1>10, <2>1 DEF Covered
  <2> QED
    BY <2>1, <2>5, <2>7, <2>8 DEF Decoded, g
<1> QED
  BY <1>11, <1>12

(* A word that is kept and continues the open run.                          *)
LEMMA ExtendsRun ==
  ASSUME NEW f \in Seq(ResultType), NEW r \in ResultType, NEW p, NEW rs \in Seq(RunType),
         NEW o \in OpenType, Decoded(p, f, rs, o), r.type = "word", ~r.tagged,
         NEW o2 \in OpenType, o.open, SpeakerOf(p, r.label) = o.speaker,
         o2.speaker = o.speaker, o2.start = o.start,
         o2.end = End(Len(f) + 1), o2.open, o2.suffix = <<>>, ~o2.removed,
         o2.words = Append(o.words, [start |-> Start(Len(f) + 1), end |-> End(Len(f) + 1),
                                     marks |-> <<>>])
  PROVE  Decoded(p, Append(f, r), rs, o2)
<1> DEFINE g == Append(f, r)
           l == Len(f)
           at == Len(o.words)
           w == [start |-> Start(l + 1), end |-> End(l + 1), marks |-> <<>>]
<1>1. /\ l \in Nat /\ Len(g) = l + 1 /\ g[l + 1] = r /\ IsKept(g, l + 1) /\ g \in Seq(ResultType)
      /\ \A m \in 1..l : g[m] = f[m] /\ (IsKept(g, m) <=> IsKept(f, m))
  BY ResultsGrow
<1>2. /\ at \in Nat /\ Len(o2.words) = at + 1 /\ o2.words[at + 1] = w
      /\ \A j \in 1..at : o2.words[j] = o.words[j]
  <2>1. o.words \in Seq(WordType)
    BY DEF OpenType
  <2> QED
    BY <2>1, AppendProperties, LenProperties
<1>3. w.start = Start(l + 1) /\ w.end = End(l + 1) /\ w.marks = <<>>
  OBVIOUS
<1>4. /\ Flushed(o2).words = o2.words /\ Flushed(o2).speaker = o.speaker
      /\ Flushed(o2).start = o.start /\ Flushed(o2).start + Flushed(o2).duration = o2.end
      /\ Flushed(o).words = o.words /\ Flushed(o).speaker = o.speaker
      /\ Flushed(o).start = o.start /\ Flushed(o).start + Flushed(o).duration = o.end
      /\ o.end \in Nat
  BY OpenTypes
<1> HIDE DEF g, w, l, at
<1>5. IsWordOf(g, w, l + 1)
  BY <1>1, <1>3 DEF IsWordOf
<1>6. OpenRun(p, f, rs, o) /\ Ended(p, f, rs) /\ Covered(f, rs, o)
  BY DEF Decoded
<1>7. RunFits(p, f, Flushed(o))
  BY <1>6 DEF OpenRun
<1>8. /\ at > 0
      /\ \A j \in 1..at : \E k \in 1..l :
           IsWordOf(f, o.words[j], k) /\ o.speaker = SpeakerOf(p, f[k].label)
      /\ \A j \in 1..(at - 1) : o.words[j].end < o.words[j + 1].start
      /\ o.start = o.words[1].start
  BY <1>4, <1>7 DEF RunFits, at, l
<1>9. PICK n \in 1..l : /\ IsWordOf(f, o.words[at], n)
                        /\ Growing(p, f, o.words[at].marks, o.suffix, o.removed, n)
  BY <1>6 DEF OpenRun, at, l
<1>10. RunFits(p, g, Flushed(o2))
  <2>1. \A j \in 1..(at + 1) : \E k \in 1..Len(g) :
          IsWordOf(g, o2.words[j], k) /\ o.speaker = SpeakerOf(p, g[k].label)
    <3> TAKE j \in 1..(at + 1)
    <3>1. CASE j = at + 1
      <4>1. /\ l + 1 \in 1..Len(g) /\ IsWordOf(g, o2.words[j], l + 1)
            /\ o.speaker = SpeakerOf(p, g[l + 1].label)
        BY <1>1, <1>2, <1>5, <3>1
      <4> QED
        BY <4>1
    <3>2. CASE j \in 1..at
      <4>1. PICK k \in 1..l : IsWordOf(f, o.words[j], k) /\ o.speaker = SpeakerOf(p, f[k].label)
        BY <1>8, <3>2
      <4>2. k \in 1..Len(g) /\ IsWordOf(g, o2.words[j], k) /\ o.speaker = SpeakerOf(p, g[k].label)
        BY <1>1, <1>2, <3>2, <4>1 DEF IsWordOf
      <4> QED
        BY <4>2
    <3>3. j = at + 1 \/ j \in 1..at
      BY <1>2
    <3> QED
      BY <3>1, <3>2, <3>3
  <2>2. \A j \in 1..((at + 1) - 1) : o2.words[j].end < o2.words[j + 1].start
    <3> TAKE j \in 1..((at + 1) - 1)
    <3>1. CASE j = at
      <4>1. o2.words[j].end = End(n) /\ o2.words[j + 1].start = Start(l + 1)
        BY <1>2, <1>3, <1>8, <1>9, <3>1 DEF IsWordOf
      <4>2. End(n) < Start(l + 1)
        BY <1>1 DEF Start, End
      <4> QED
        BY <4>1, <4>2
    <3>2. CASE j # at
      <4>1. j \in 1..(at - 1) /\ j \in 1..at /\ j + 1 \in 1..at
        BY <1>2, <3>2
      <4> QED
        BY <1>2, <1>8, <4>1
    <3> QED
      BY <3>1, <3>2
  <2>3. /\ o.start = o2.words[1].start
        /\ o2.end >= o2.words[at + 1].end /\ o2.end <= End(Len(g))
    <3>1. 1 \in 1..at
      BY <1>2, <1>8
    <3> QED
      BY <1>1, <1>2, <1>3, <1>8, <3>1 DEF End, l
  <2>4. at + 1 > 0 /\ Len(Flushed(o2).words) = at + 1
    BY <1>2, <1>4
  <2> QED
    BY <1>4, <2>1, <2>2, <2>3, <2>4 DEF RunFits
<1>11. rs # <<>> => Follows(rs[Len(rs)], Flushed(o2))
  BY <1>4, <1>6 DEF OpenRun, Follows
<1>12. \A j \in 1..((at + 1) - 1) : Finished(p, g, o2.words[j])
  <2> TAKE j \in 1..((at + 1) - 1)
  <2>1. j \in 1..at /\ o2.words[j] = o.words[j] /\ \E k \in 1..Len(f) : IsWordOf(f, o.words[j], k)
    BY <1>2, <1>8 DEF l
  <2>2. CASE j = at
    <3>1. Marked(p, f, o.words[at].marks, n)
      BY <1>9 DEF Growing
    <3>2. Finished(p, g, o.words[at])
      BY <1>9, <3>1, NowFinished DEF g, l
    <3> QED
      BY <2>1, <2>2, <3>2
  <2>3. CASE j # at
    <3>1. j \in 1..(at - 1)
      BY <1>2, <2>3
    <3>2. Finished(p, f, o.words[j])
      BY <1>6, <3>1 DEF OpenRun, at
    <3>3. Finished(p, g, o.words[j])
      BY <2>1, <3>2, FinishedStays DEF g
    <3> QED
      BY <2>1, <3>3
  <2> QED
    BY <2>2, <2>3
<1>13. Growing(p, g, <<>>, <<>>, FALSE, l + 1)
  <2>1. Len(g) \in Nat
    BY <1>1
  <2>2. Growing(p, g, <<>>, <<>>, FALSE, Len(g))
    BY <2>1, FreshWord
  <2> QED
    BY <1>1, <2>2
<1>14. \E k \in 1..Len(g) : /\ IsWordOf(g, o2.words[at + 1], k)
                            /\ Growing(p, g, o2.words[at + 1].marks, o2.suffix, o2.removed, k)
  <2>1. l + 1 \in 1..Len(g) /\ o2.removed = FALSE
    BY <1>1 DEF OpenType
  <2> QED
    BY <1>2, <1>3, <1>5, <1>13, <2>1
<1>15. OpenRun(p, g, rs, o2)
  BY <1>2, <1>10, <1>11, <1>12, <1>14 DEF OpenRun
<1>16. Covered(g, rs, o2)
  <2> SUFFICES ASSUME NEW k \in 1..Len(g), IsKept(g, k), ~SpokenIn(rs, k)
               PROVE  \E j \in 1..Len(o2.words) : o2.words[j].start = Start(k)
    BY DEF Covered
  <2>1. CASE k = l + 1
    <3>1. at + 1 \in 1..Len(o2.words) /\ o2.words[at + 1].start = Start(k)
      BY <1>2, <1>3, <2>1
    <3> QED
      BY <3>1
  <2>2. CASE k # l + 1
    <3>1. k \in 1..Len(f) /\ IsKept(f, k)
      BY <1>1, <2>2 DEF l
    <3>2. PICK j \in 1..at : o.words[j].start = Start(k)
      BY <1>6, <3>1 DEF Covered, at
    <3>3. j \in 1..Len(o2.words) /\ o2.words[j].start = Start(k)
      BY <1>2, <3>2
    <3> QED
      BY <3>3
  <2> QED
    BY <2>1, <2>2
<1>17. Ended(p, g, rs)
  BY <1>6, EndedStays DEF g
<1> QED
  BY <1>15, <1>16, <1>17 DEF Decoded, g

(* What is returned at the end of the loop is what the properties say.      *)
LEMMA DecodedSays ==
  ASSUME NEW f \in Seq(ResultType), NEW p, NEW rs \in Seq(RunType), NEW o \in OpenType,
         Decoded(p, f, rs, o), NEW rs2, rs2 = IF o.open THEN Append(rs, Flushed(o)) ELSE rs
  PROVE  RunsSay(p, f, rs2) /\ MarksSay(p, f, rs2)
<1>1. CASE ~o.open
  <2>1. rs2 = <<>> /\ Len(rs2) = 0 /\ rs2 = rs /\ Covered(f, rs, o)
    BY <1>1 DEF Decoded
  <2>2. \A n \in 1..Len(f) : IsKept(f, n) => SpokenIn(rs2, n)
    BY <1>1, <2>1 DEF Covered
  <2> QED
    BY <2>1, <2>2 DEF RunsSay, MarksSay
<1>2. CASE o.open
  <2> DEFINE longer == Append(rs, Flushed(o))
  <2>1. /\ longer \in Seq(RunType) /\ Len(longer) = Len(rs) + 1
        /\ longer[Len(rs) + 1] = Flushed(o) /\ \A i \in 1..Len(rs) : longer[i] = rs[i]
        /\ \A i \in 1..Len(longer) : /\ RunFits(p, f, longer[i])
                                     /\ i < Len(longer) => Follows(longer[i], longer[i + 1])
        /\ \A n \in 1..Len(f) : IsKept(f, n) => SpokenIn(longer, n)
    BY <1>2, Flushing
  <2>2. rs2 = longer
    BY <1>2
  <2> HIDE DEF longer
  <2>3. /\ rs2 \in Seq(RunType) /\ Len(rs2) = Len(rs) + 1 /\ Len(rs) \in Nat
        /\ rs2[Len(rs) + 1] = Flushed(o) /\ \A i \in 1..Len(rs) : rs2[i] = rs[i]
        /\ \A i \in 1..Len(rs2) : /\ RunFits(p, f, rs2[i])
                                  /\ i < Len(rs2) => Follows(rs2[i], rs2[i + 1])
        /\ \A n \in 1..Len(f) : IsKept(f, n) => SpokenIn(rs2, n)
    BY <2>1, <2>2, LenProperties
  <2>4. RunsSay(p, f, rs2)
    BY <2>3 DEF RunsSay, RunFits, Follows
  <2>5. OpenRun(p, f, rs, o) /\ Ended(p, f, rs) /\ Flushed(o).words = o.words
        /\ Len(o.words) \in Nat /\ Len(f) \in Nat
    BY <1>2, OpenTypes, LenProperties DEF Decoded
  <2>6. ASSUME NEW i \in 1..Len(rs2), NEW j \in 1..Len(rs2[i].words), NEW n \in 1..Len(f),
               IsWordOf(f, rs2[i].words[j], n)
        PROVE  Marked(p, f, rs2[i].words[j].marks, n)
    <3>1. CASE i \in 1..Len(rs)
      <4>1. Finished(p, f, rs2[i].words[j])
        BY <2>3, <2>5, <3>1 DEF Ended
      <4> QED
        BY <2>6, <4>1 DEF Finished
    <3>2. CASE i = Len(rs) + 1
      <4>1. rs2[i].words = o.words
        BY <2>3, <2>5, <3>2
      <4>2. CASE j = Len(o.words)
        <5>1. PICK m \in 1..Len(f) : /\ IsWordOf(f, o.words[j], m)
                                    /\ Growing(p, f, o.words[j].marks, o.suffix, o.removed, m)
          BY <2>5, <4>2 DEF OpenRun
        <5>2. m = n
          BY <2>5, <2>6, <4>1, <5>1, SamePlace
        <5> QED
          BY <4>1, <5>1, <5>2 DEF Growing
      <4>3. CASE j # Len(o.words)
        <5>1. j \in 1..(Len(o.words) - 1)
          BY <2>5, <4>1, <4>3
        <5>2. Finished(p, f, rs2[i].words[j])
          BY <2>5, <4>1, <5>1 DEF OpenRun
        <5> QED
          BY <2>6, <5>2 DEF Finished
      <4> QED
        BY <4>2, <4>3
    <3> QED
      BY <2>3, <3>1, <3>2
  <2>7. MarksSay(p, f, rs2)
    BY <2>6 DEF MarksSay
  <2> QED
    BY <2>4, <2>7
<1> QED
  BY <1>1, <1>2
-----------------------------------------------------------------------------
(* The steps.                                                              *)

LEMMA NothingDecoded ==
  ASSUME NEW p
  PROVE  Decoded(p, <<>>, <<>>, NoRun) /\ NoRun \in OpenType
<1>1. Len(<<>>) = 0 /\ NoRun.open = FALSE
  BY DEF NoRun
<1>2. NoRun \in OpenType
  BY DEF NoRun, OpenType
<1> QED
  BY <1>1, <1>2 DEF Decoded, Ended, Covered

(* Feeding a result keeps LoopInv once it keeps Decoded.                    *)
LEMMA StillDecoding ==
  ASSUME Types, message # "none", NEW r \in ResultType, Feed(r),
         ts' \in Seq(RunType), run' \in OpenType, Decoded(provider, Append(fed, r), ts', run')
  PROVE  LoopInv'
<1>1. /\ fed' = Append(fed, r) /\ message' = message /\ provider' = provider
      /\ fed \in Seq(ResultType)
  BY DEF Feed, sessionVars, Types
<1>2. fed' \in Seq(ResultType)
  BY <1>1, ResultsGrow
<1>3. Types'
  BY <1>1, <1>2 DEF Types
<1>4. ~Settled'
  BY <1>1 DEF Settled
<1> QED
  BY <1>1, <1>3, <1>4 DEF LoopInv

LEMMA PunctuationStep ==
  ASSUME LoopInv, NEW mark \in Marks, Punctuation(mark)
  PROVE  LoopInv'
<1> DEFINE r == Result("punctuation", Unlabelled, mark, FALSE)
           at == Len(run.words)
           a == AppendPunctuation(run.words[at].marks, run.suffix, run.removed, mark)
           l == Len(fed)
<1>1. /\ provider = "speechmatics" /\ Feed(r) /\ ts' = ts /\ message # "none"
      /\ ~run.open => run' = run
      /\ run.open => run' = [words |-> [run.words EXCEPT ![at].marks = a.marks],
                             speaker |-> run.speaker, start |-> run.start, end |-> End(l + 1),
                             suffix |-> a.suffix, removed |-> FALSE, open |-> TRUE]
  BY DEF Punctuation, Feed, Number
<1>2. /\ Types /\ Decoded(provider, fed, ts, run)
      /\ fed \in Seq(ResultType) /\ ts \in Seq(RunType) /\ run \in OpenType
  BY <1>1 DEF LoopInv, Types
<1>3. r \in ResultType /\ r.type = "punctuation" /\ r.mark = mark
  <2>1. r \in ResultType
    BY DEF Result, ResultType, Labels
  <2> QED
    BY <2>1 DEF Result
<1> HIDE DEF r, a
<1>4. CASE ~run.open
  <2>1. run' = run
    BY <1>1, <1>4
  <2>2. run.end \in Nat
    BY <1>2, OpenTypes
  <2>3. Decoded(provider, Append(fed, r), ts, run)
    BY <1>2, <1>3, <1>4, <2>2, NoNewWord
  <2> QED
    BY <1>1, <1>2, <1>3, <2>1, <2>3, StillDecoding
<1>5. CASE run.open
  <2> DEFINE o2 == [words |-> [run.words EXCEPT ![at].marks = a.marks],
                    speaker |-> run.speaker, start |-> run.start, end |-> End(l + 1),
                    suffix |-> a.suffix, removed |-> FALSE, open |-> TRUE]
  <2>1. OpenRun(provider, fed, ts, run)
    BY <1>2, <1>5 DEF Decoded
  <2>2. PICK n \in 1..l : /\ IsWordOf(fed, run.words[at], n)
                          /\ Growing(provider, fed, run.words[at].marks, run.suffix, run.removed, n)
    BY <2>1 DEF OpenRun
  <2>3. /\ run.words \in Seq(WordType) /\ at \in Nat /\ run.suffix \in Seq(Marks)
        /\ run.removed \in BOOLEAN /\ run.speaker \in Nat /\ run.start \in Nat
    BY <1>2, LenProperties DEF OpenType
  <2>4. at > 0 /\ run.end <= End(l)
    <3>1. RunFits(provider, fed, Flushed(run))
      BY <2>1 DEF OpenRun
    <3>2. Flushed(run).words = run.words /\ Flushed(run).start + Flushed(run).duration = run.end
      BY <1>2, OpenTypes
    <3> QED
      BY <3>1, <3>2 DEF RunFits
  <2>5. at \in 1..at /\ run.words[at] \in WordType
    BY <2>3, <2>4, ElementOfSeq
  <2>6. run.words[at].marks \in Seq(Marks)
    BY <2>5 DEF WordType
  <2>7. \A m \in 1..l : /\ IsKept(fed, m)
                        /\ Growing(provider, fed, run.words[at].marks, run.suffix, run.removed, m)
          => /\ a.marks \in Seq(Marks) /\ a.suffix \in Seq(Marks)
             /\ Growing(provider, Append(fed, r), a.marks, a.suffix, FALSE, m)
    <3> DEFINE left == run.words[at].marks
    <3> HIDE DEF left, l
    <3>1. left \in Seq(Marks) /\ l = Len(fed)
      BY <2>6 DEF left, l
    <3>2. ASSUME NEW m \in 1..l, IsKept(fed, m),
                 Growing(provider, fed, left, run.suffix, run.removed, m)
          PROVE  /\ a.marks \in Seq(Marks) /\ a.suffix \in Seq(Marks)
                 /\ Growing(provider, Append(fed, r), a.marks, a.suffix, FALSE, m)
      <4>1. Growing("speechmatics", fed, left, run.suffix, run.removed, m) /\ m \in 1..Len(fed)
        BY <1>1, <3>1, <3>2
      <4>2. /\ a = AppendPunctuation(left, run.suffix, run.removed, r.mark)
        BY <1>3 DEF a, left
      <4>3. /\ fed \in Seq(ResultType) /\ r \in ResultType /\ m \in 1..Len(fed) /\ IsKept(fed, m)
            /\ r.type = "punctuation" /\ left \in Seq(Marks) /\ run.suffix \in Seq(Marks)
            /\ run.removed \in BOOLEAN
        BY <1>2, <1>3, <2>3, <3>1, <3>2, <4>1
      <4>4. /\ a.marks \in Seq(Marks) /\ a.suffix \in Seq(Marks)
            /\ Growing("speechmatics", Append(fed, r), a.marks, a.suffix, FALSE, m)
        BY <4>1, <4>2, <4>3, GrowsByMark
      <4> QED
        BY <1>1, <4>4
    <3> QED
      BY <3>2 DEF left
  <2>8. a.marks \in Seq(Marks) /\ a.suffix \in Seq(Marks)
    BY <2>2, <2>7 DEF IsWordOf
  <2>9. /\ o2.words = [run.words EXCEPT ![at].marks = a.marks] /\ o2.speaker = run.speaker
        /\ o2.start = run.start /\ o2.end = End(l + 1) /\ o2.suffix = a.suffix
        /\ o2.removed = FALSE /\ o2.open = TRUE
    OBVIOUS
  <2>10. /\ o2.words \in Seq(WordType) /\ Len(o2.words) = at
         /\ o2.words[at].start = run.words[at].start /\ o2.words[at].end = run.words[at].end
         /\ o2.words[at].marks = a.marks
         /\ \A j \in 1..at : j # at => o2.words[j] = run.words[j]
    <3> DEFINE w == [run.words[at] EXCEPT !.marks = a.marks]
    <3>1. w \in WordType /\ w.start = run.words[at].start /\ w.end = run.words[at].end
          /\ w.marks = a.marks
      BY <2>5, <2>8 DEF WordType
    <3>2. o2.words = [run.words EXCEPT ![at] = w]
      BY <2>9
    <3> HIDE DEF w, o2
    <3> QED
      BY <2>3, <2>5, <3>1, <3>2, ExceptSeq
  <2>11. l \in Nat /\ End(l + 1) \in Nat /\ End(l) <= End(l + 1)
    BY <1>2, LenProperties DEF End
  <2>12. o2 \in OpenType
    BY <2>3, <2>8, <2>10, <2>11 DEF OpenType
  <2>13. run.end <= o2.end
    BY <1>2, <2>4, <2>9, <2>11, OpenTypes DEF End
  <2> HIDE DEF o2, at, l
  <2>14. \A j \in 1..at : o2.words[j].start = run.words[j].start
                          /\ o2.words[j].end = run.words[j].end
    BY <2>10
  <2>15. \A j \in 1..(at - 1) : o2.words[j] = run.words[j]
    BY <2>3, <2>10
  <2>16. \A m \in 1..l : /\ IsKept(fed, m)
                         /\ Growing(provider, fed, run.words[at].marks, run.suffix, run.removed, m)
           => Growing(provider, Append(fed, r), o2.words[at].marks, o2.suffix, o2.removed, m)
    BY <2>7, <2>9, <2>10
  <2>17. Decoded(provider, Append(fed, r), ts, o2)
    BY <1>2, <1>3, <1>5, <2>9, <2>10, <2>12, <2>13, <2>14, <2>15, <2>16, NoNewWord DEF at, l
  <2>18. run' = o2
    BY <1>1, <1>5 DEF o2, at, l
  <2> QED
    BY <1>1, <1>2, <1>3, <2>12, <2>17, <2>18, StillDecoding
<1> QED
  BY <1>4, <1>5

(* An entity, or a word that was removed.                                   *)
LEMMA QuietStep ==
  ASSUME LoopInv, NEW r \in ResultType, Feed(r), r.type # "punctuation",
         r.type = "word" => r.tagged, ts' = ts, NEW now \in BOOLEAN,
         run' = [run EXCEPT !.removed = now],
         run.open => (r.tagged => now) /\ (~r.tagged => now = run.removed)
  PROVE  LoopInv'
<1>1. /\ Types /\ Decoded(provider, fed, ts, run) /\ message # "none"
      /\ fed \in Seq(ResultType) /\ ts \in Seq(RunType) /\ run \in OpenType
  BY DEF LoopInv, Types, Feed
<1>2. /\ run' \in OpenType
      /\ run'.words = run.words /\ run'.speaker = run.speaker /\ run'.start = run.start
      /\ run'.end = run.end /\ run'.suffix = run.suffix /\ run'.open = run.open
      /\ run'.removed = now
  BY <1>1 DEF OpenType
<1>3. run.end \in Nat /\ run.removed \in BOOLEAN
  BY <1>1 DEF OpenType
<1>4. ASSUME NEW n \in 1..Len(fed), run.open, IsKept(fed, n),
             Growing(provider, fed, run.words[Len(run.words)].marks, run.suffix, run.removed, n)
      PROVE  Growing(provider, Append(fed, r), run.words[Len(run.words)].marks, run.suffix, now, n)
  BY <1>1, <1>3, <1>4, GrowsQuietly
<1>5. \A o2 \in OpenType :
        /\ o2.words = run.words /\ o2.speaker = run.speaker /\ o2.start = run.start
        /\ o2.end = run.end /\ o2.suffix = run.suffix /\ o2.open = run.open /\ o2.removed = now
        => Decoded(provider, Append(fed, r), ts, o2)
  BY <1>1, <1>3, <1>4, NoNewWord
<1>6. Decoded(provider, Append(fed, r), ts', run')
  BY <1>2, <1>5
<1> QED
  BY <1>1, <1>2, <1>6, StillDecoding

LEMMA SkippedStep ==
  ASSUME LoopInv, Skipped PROVE LoopInv'
<1> DEFINE r == Result("entity", Unlabelled, "", FALSE)
<1>1. r \in ResultType /\ r.type = "entity" /\ ~r.tagged
  BY DEF Result, ResultType, Labels
<1>2. Feed(r) /\ ts' = ts /\ run' = run /\ message # "none"
  BY DEF Skipped, Feed
<1>3. run \in OpenType
  BY DEF LoopInv, Types
<1>4. run.removed \in BOOLEAN /\ run' = [run EXCEPT !.removed = run.removed]
  BY <1>2, <1>3 DEF OpenType
<1> HIDE DEF r
<1> QED
  BY <1>1, <1>2, <1>4, QuietStep

LEMMA RemovedStep ==
  ASSUME LoopInv, NEW label \in Labels, Removed(label) PROVE LoopInv'
<1> DEFINE r == Result("word", label, "", TRUE)
<1>1. r \in ResultType /\ r.type = "word" /\ r.tagged
  BY DEF Result, ResultType
<1>2. Feed(r) /\ ts' = ts /\ run' = [run EXCEPT !.removed = run.open]
  BY DEF Removed, Feed
<1>3. run.open \in BOOLEAN
  BY DEF LoopInv, Types, OpenType
<1> HIDE DEF r
<1> QED
  BY <1>1, <1>2, <1>3, QuietStep

LEMMA KeptStep ==
  ASSUME LoopInv, NEW label \in Labels, Kept(label) PROVE LoopInv'
<1> DEFINE r == Result("word", label, "", FALSE)
           l == Len(fed)
           speaker == SpeakerOf(provider, label)
           w == [start |-> Start(l + 1), end |-> End(l + 1), marks |-> <<>>]
<1>1. r \in ResultType /\ r.type = "word" /\ ~r.tagged /\ r.label = label
  BY DEF Result, ResultType
<1>2. /\ provider = "deepgram" => label # Unlabelled
      /\ Feed(r) /\ message # "none"
      /\ ts' = IF Opens(speaker) THEN Flush ELSE ts
      /\ run' = Extended(Opens(speaker), speaker)
  BY DEF Kept, Feed
<1>3. /\ Types /\ Decoded(provider, fed, ts, run)
      /\ provider \in {"speechmatics", "deepgram"}
      /\ fed \in Seq(ResultType) /\ ts \in Seq(RunType) /\ run \in OpenType
  BY <1>2 DEF LoopInv, Types
<1>4. l \in Nat /\ Start(l + 1) \in Nat /\ End(l + 1) \in Nat
  BY <1>3, LenProperties DEF Start, End
<1>5. w \in WordType
  <2>1. <<>> \in Seq(Marks)
    OBVIOUS
  <2> QED
    BY <1>4, <2>1 DEF WordType
<1>6. speaker \in Nat
  <2>1. Speakers \in Nat /\ (label = -1 \/ label \in 1..Speakers)
    BY ProtocolSizes DEF Labels, Unlabelled
  <2>2. CASE provider = "deepgram"
    <3>1. speaker = label + 1 /\ label # -1
      BY <1>2, <2>2 DEF SpeakerOf, Unlabelled
    <3> HIDE DEF speaker
    <3> QED
      BY <2>1, <3>1
  <2>3. CASE provider = "speechmatics"
    <3>1. speaker = IF label = -1 THEN 0 ELSE label
      BY <2>3 DEF SpeakerOf, ParseSpeaker, Unlabelled
    <3> QED
      BY <2>1, <3>1
  <2> QED
    BY <1>3, <2>2, <2>3
<1>7. Number = l + 1
  BY DEF Number
<1> HIDE DEF r, speaker, w, l
<1>8. CASE Opens(speaker)
  <2> DEFINE o2 == [words |-> <<w>>, speaker |-> speaker, start |-> Start(l + 1),
                    end |-> End(l + 1), suffix |-> <<>>, removed |-> FALSE, open |-> TRUE]
  <2>1. Append(<<>>, w) = <<w>>
    OBVIOUS
  <2>2. run' = o2
    BY <1>2, <1>7, <1>8, <2>1 DEF Extended, w
  <2>3. o2 \in OpenType
    <3>1. <<w>> \in Seq(WordType) /\ <<>> \in Seq(Marks)
      BY <1>5
    <3> HIDE DEF OpenType
    <3> QED
      BY <1>4, <1>6, <3>1 DEF OpenType
  <2>4. ts' = IF run.open THEN Append(ts, Flushed(run)) ELSE ts
    BY <1>2, <1>8 DEF Flush, Flushed
  <2>5. run.open => SpeakerOf(provider, r.label) # run.speaker
    BY <1>1, <1>8 DEF Opens, speaker
  <2>6. /\ o2.speaker = SpeakerOf(provider, r.label) /\ o2.start = Start(l + 1)
        /\ o2.end = End(l + 1) /\ o2.open /\ o2.suffix = <<>> /\ ~o2.removed
        /\ o2.words = <<[start |-> Start(l + 1), end |-> End(l + 1), marks |-> <<>>]>>
    BY <1>1 DEF speaker, w
  <2> HIDE DEF o2
  <2>7. ts' \in Seq(RunType) /\ Decoded(provider, Append(fed, r), ts', o2)
    BY <1>1, <1>3, <2>3, <2>4, <2>5, <2>6, OpensRun DEF l
  <2> QED
    BY <1>1, <1>2, <1>3, <2>2, <2>3, <2>7, StillDecoding
<1>9. CASE ~Opens(speaker)
  <2> DEFINE o2 == [words |-> Append(run.words, w), speaker |-> speaker, start |-> run.start,
                    end |-> End(l + 1), suffix |-> <<>>, removed |-> FALSE, open |-> TRUE]
  <2>1. run' = o2 /\ ts' = ts
    BY <1>2, <1>7, <1>9 DEF Extended, w
  <2>2. run.open /\ SpeakerOf(provider, r.label) = run.speaker /\ speaker = run.speaker
    BY <1>1, <1>9 DEF Opens, speaker
  <2>3. o2 \in OpenType
    <3>1. run.words \in Seq(WordType) /\ run.start \in Nat
      BY <1>3 DEF OpenType
    <3>2. Append(run.words, w) \in Seq(WordType) /\ <<>> \in Seq(Marks)
      BY <1>5, <3>1, AppendProperties
    <3> QED
      BY <1>4, <1>6, <3>1, <3>2 DEF OpenType
  <2>4. /\ o2.speaker = run.speaker /\ o2.start = run.start
        /\ o2.end = End(l + 1) /\ o2.open /\ o2.suffix = <<>> /\ ~o2.removed
        /\ o2.words = Append(run.words, [start |-> Start(l + 1), end |-> End(l + 1),
                                         marks |-> <<>>])
    BY <2>2 DEF w
  <2> HIDE DEF o2
  <2>5. Decoded(provider, Append(fed, r), ts, o2)
    BY <1>1, <1>3, <2>2, <2>3, <2>4, ExtendsRun DEF l
  <2> QED
    BY <1>1, <1>2, <1>3, <2>1, <2>3, <2>5, StillDecoding
<1> QED
  BY <1>8, <1>9

LEMMA ReturnStep ==
  ASSUME LoopInv, NEW text \in BOOLEAN, Return(text) PROVE LoopInv'
<1>1. /\ message # "none" /\ message' = "none" /\ run' = NoRun
      /\ returned' = IF message = "revisable" THEN <<>>
                     ELSE IF fed = <<>> THEN FlatText(text) ELSE Flush
      /\ provider' = provider /\ fed' = fed /\ ts' = ts
  BY DEF Return, sessionVars
<1>2. /\ Types /\ Decoded(provider, fed, ts, run)
      /\ fed \in Seq(ResultType) /\ ts \in Seq(RunType) /\ run \in OpenType
  BY <1>1 DEF LoopInv, Types
<1>3. Types'
  BY <1>1, <1>2, NothingDecoded DEF Types
<1>4. ASSUME Settled' PROVE Returned'
  <2>1. fed # <<>> /\ (provider = "deepgram" => returned' # <<>>)
    BY <1>1, <1>4 DEF Settled
  <2>2. message # "revisable"
    BY <1>1, <1>2, <2>1 DEF Types
  <2>3. returned' = Flush
    BY <1>1, <2>1, <2>2
  <2>4. Flush = IF run.open THEN Append(ts, Flushed(run)) ELSE ts
    BY DEF Flush, Flushed
  <2>5. RunsSay(provider, fed, Flush) /\ MarksSay(provider, fed, Flush)
    BY <1>2, <2>4, DecodedSays
  <2> QED
    BY <1>1, <2>3, <2>5 DEF Returned
<1> QED
  BY <1>1, <1>3, <1>4 DEF LoopInv

(* Steps of the connection leave the decoder alone.                         *)
LEMMA OtherSteps ==
  ASSUME LoopInv, provider' = provider, loopVars' = loopVars, returned' = returned
  PROVE  LoopInv'
<1>1. message' = message /\ fed' = fed /\ ts' = ts /\ run' = run
  BY DEF loopVars
<1> QED
  BY <1>1 DEF LoopInv, Types, Settled, Returned

LEMMA BeginStep ==
  ASSUME LoopInv, BeginTranscript PROVE LoopInv'
<1>1. PICK kind \in {"settled", "revisable"} : Begin(kind) /\ (kind = "revisable" => provider = "deepgram")
  BY DEF BeginTranscript
<1>2. message' = kind /\ fed' = <<>> /\ ts' = <<>> /\ run' = NoRun /\ provider' = provider
  BY <1>1 DEF Begin, sessionVars
<1>3. <<>> \in Seq(ResultType) /\ <<>> \in Seq(RunType)
  OBVIOUS
<1>4. Types'
  BY <1>1, <1>2, <1>3, NothingDecoded DEF LoopInv, Types
<1>5. Decoded(provider', fed', ts', run')
  BY <1>2, NothingDecoded
<1>6. ~Settled'
  BY <1>1, <1>2 DEF Settled
<1> QED
  BY <1>4, <1>5, <1>6 DEF LoopInv

LEMMA SilentStep ==
  ASSUME LoopInv, message = "none", UNCHANGED <<sessionVars, message, run>>,
         fed' = <<>>, ts' = <<>>
  PROVE  LoopInv'
<1>1. message' = "none" /\ run' = run /\ provider' = provider
  BY DEF sessionVars
<1>2. <<>> \in Seq(ResultType) /\ <<>> \in Seq(RunType)
  OBVIOUS
<1>3. Types'
  BY <1>1, <1>2 DEF LoopInv, Types
<1> QED
  BY <1>1, <1>3 DEF LoopInv, Settled

LEMMA LoopInvHolds == Spec => []LoopInv
<1>1. Init => LoopInv
  <2> SUFFICES ASSUME Init PROVE LoopInv
    OBVIOUS
  <2>1. message = "none" /\ fed = <<>> /\ ts = <<>> /\ run = NoRun
        /\ provider \in {"speechmatics", "deepgram"}
    BY DEF Init
  <2>2. <<>> \in Seq(ResultType) /\ <<>> \in Seq(RunType)
    OBVIOUS
  <2>3. Types
    BY <2>1, <2>2, NothingDecoded DEF Types
  <2> QED
    BY <2>1, <2>3 DEF LoopInv, Settled
<1>2. LoopInv /\ [Next]_vars => LoopInv'
  <2> SUFFICES ASSUME LoopInv, [Next]_vars PROVE LoopInv'
    OBVIOUS
  <2>1. CASE Dialed
    BY <2>1, OtherSteps DEF Dialed
  <2>2. CASE \E permanent \in BOOLEAN : DialFails(permanent) \/ DecodeFails(permanent)
    BY <2>2, OtherSteps DEF DialFails, DecodeFails
  <2>3. CASE BeginTranscript
    BY <2>3, BeginStep
  <2>4. CASE DecodeNothing
    BY <2>4, SilentStep DEF DecodeNothing, Reading
  <2>5. CASE \E mark \in Marks : Punctuation(mark)
    BY <2>5, PunctuationStep
  <2>6. CASE Skipped
    BY <2>6, SkippedStep
  <2>7. CASE \E label \in Labels : Removed(label) \/ Kept(label)
    BY <2>7, RemovedStep, KeptStep
  <2>8. CASE \E text \in BOOLEAN : Return(text)
    BY <2>8, ReturnStep
  <2>9. CASE UNCHANGED vars
    BY <2>9, OtherSteps DEF vars, sessionVars
  <2> QED
    BY <2>1, <2>2, <2>3, <2>4, <2>5, <2>6, <2>7, <2>8, <2>9 DEF Next
<1> QED
  BY <1>1, <1>2, PTL DEF Spec

(* What Decode returns are exactly the words that were not removed, in      *)
(* order, cut where the speaker changes, whatever the message: any results, *)
(* speakers and marks of either recognizer (speechmatics.go transcripts,    *)
(* deepgram.go decodeTranscript).                                           *)
THEOREM RunsAreKeptWords == Spec => []RunsAreTheKeptWords
<1>1. LoopInv => RunsAreTheKeptWords
  BY DEF LoopInv, Returned, RunsAreTheKeptWords, RunsSay, SpokenIn
<1> QED
  BY <1>1, LoopInvHolds, PTL

(* No word loses its punctuation, and where marks meet across removed words *)
(* exactly one is left, in a message of any length (speechmatics.go         *)
(* appendPunctuation).                                                      *)
THEOREM PunctuationReconciled == Spec => []PunctuationIsReconciled
<1>1. LoopInv => PunctuationIsReconciled
  BY DEF LoopInv, Returned, PunctuationIsReconciled, MarksSay, Marked
<1> QED
  BY <1>1, LoopInvHolds, PTL
-----------------------------------------------------------------------------
(* Counters and sizes.                                                     *)

(* What bounds the loop: a run takes a result.                              *)
Counts ==
  /\ stage \in {"opening", "live", "failed", "refused"}
  /\ decoded \in 0..MaxMessages

Sizes ==
  /\ Len(fed) <= MaxResults
  /\ Len(ts) + (IF run.open THEN 1 ELSE 0) <= Len(fed)
  /\ run.open => message # "none" /\ run.words # <<>>

LEMMA CountsHold == Spec => []Counts
<1>1. Init => Counts
  BY ProtocolSizes DEF Init, Counts
<1>2. Counts /\ [Next]_vars => Counts'
  <2> SUFFICES ASSUME Counts, [Next]_vars PROVE Counts'
    OBVIOUS
  <2>1. MaxMessages \in Nat
    BY ProtocolSizes
  <2>2. ASSUME decoded' = decoded, stage' \in {"opening", "live", "failed", "refused"}
        PROVE  Counts'
    BY <2>2 DEF Counts
  <2>3. ASSUME UNCHANGED sessionVars, decoded' = decoded PROVE Counts'
    BY <2>3 DEF Counts, sessionVars
  <2>4. ASSUME UNCHANGED sessionVars, decoded' = decoded + 1, decoded < MaxMessages
        PROVE  Counts'
    BY <2>1, <2>4 DEF Counts, sessionVars
  <2>5. ASSUME NEW r, Feed(r) PROVE Counts'
    BY <2>3, <2>5 DEF Feed
  <2>6. CASE Dialed
    BY <2>2, <2>6 DEF Dialed
  <2>7. CASE \E permanent \in BOOLEAN : DialFails(permanent) \/ DecodeFails(permanent)
    BY <2>2, <2>7 DEF DialFails, DecodeFails, AsError
  <2>8. CASE BeginTranscript
    BY <2>4, <2>8 DEF BeginTranscript, Begin, Reading
  <2>9. CASE DecodeNothing
    BY <2>4, <2>9 DEF DecodeNothing, Reading
  <2>10. CASE \E mark \in Marks : Punctuation(mark)
    BY <2>5, <2>10 DEF Punctuation
  <2>11. CASE Skipped
    BY <2>5, <2>11 DEF Skipped
  <2>12. CASE \E label \in Labels : Removed(label) \/ Kept(label)
    BY <2>5, <2>12 DEF Removed, Kept
  <2>13. CASE \E text \in BOOLEAN : Return(text)
    BY <2>3, <2>13 DEF Return
  <2>14. CASE UNCHANGED vars
    BY <2>3, <2>14 DEF vars
  <2> QED
    BY <2>6, <2>7, <2>8, <2>9, <2>10, <2>11, <2>12, <2>13, <2>14 DEF Next
<1> QED
  BY <1>1, <1>2, PTL DEF Spec

LEMMA AppendedIsLonger ==
  ASSUME NEW S, NEW s \in Seq(S), NEW w
  PROVE  Append(s, w) # <<>>
<1>1. s \in Seq(S \cup {w}) /\ w \in S \cup {w}
  OBVIOUS
<1> QED
  BY <1>1, AppendProperties

LEMMA SizesHold == Spec => []Sizes
<1>1. Init => Sizes
  BY ProtocolSizes DEF Init, Sizes, NoRun
<1>2. LoopInv /\ Sizes /\ [Next]_vars => Sizes'
  <2> SUFFICES ASSUME LoopInv, Sizes, [Next]_vars PROVE Sizes'
    OBVIOUS
  <2>1. /\ MaxResults \in Nat /\ Len(fed) \in Nat /\ Len(ts) \in Nat
        /\ fed \in Seq(ResultType) /\ ts \in Seq(RunType) /\ run \in OpenType
    BY ProtocolSizes, LenProperties DEF LoopInv, Types
  <2>2. ASSUME UNCHANGED loopVars PROVE Sizes'
    BY <2>2 DEF Sizes, loopVars
  <2>3. ASSUME fed' = <<>>, ts' = <<>>, ~run'.open PROVE Sizes'
    BY <2>1, <2>3 DEF Sizes
  <2>4. ASSUME NEW r, Feed(r)
        PROVE  /\ Len(fed') = Len(fed) + 1 /\ Len(fed') <= MaxResults /\ message' # "none"
    BY <2>1, <2>4, AppendProperties DEF Feed
  <2>5. ASSUME NEW r, Feed(r), ts' = ts, run'.open = run.open,
               run.open => run'.words # <<>>
        PROVE  Sizes'
    BY <2>1, <2>4, <2>5 DEF Sizes
  <2>6. CASE Dialed
    BY <2>2, <2>6 DEF Dialed
  <2>7. CASE \E permanent \in BOOLEAN : DialFails(permanent) \/ DecodeFails(permanent)
    BY <2>2, <2>7 DEF DialFails, DecodeFails
  <2>8. CASE BeginTranscript
    BY <2>3, <2>8 DEF BeginTranscript, Begin, NoRun
  <2>9. CASE DecodeNothing
    BY <2>3, <2>9 DEF DecodeNothing, Reading, Sizes
  <2>10. ASSUME NEW mark \in Marks, Punctuation(mark) PROVE Sizes'
    <3>1. ts' = ts /\ Feed(Result("punctuation", Unlabelled, mark, FALSE))
      BY <2>10 DEF Punctuation
    <3>2. CASE ~run.open
      <4>1. run' = run
        BY <2>10, <3>2 DEF Punctuation
      <4> QED
        BY <2>5, <3>1, <3>2, <4>1
    <3>3. CASE run.open
      <4>1. run'.open = TRUE /\ run.open = TRUE
        BY <2>1, <2>10, <3>3 DEF Punctuation, OpenType
      <4> DEFINE at == Len(run.words)
                 a == AppendPunctuation(run.words[at].marks, run.suffix, run.removed, mark)
      <4>2. run'.words = [run.words EXCEPT ![at].marks = a.marks]
        <5>1. run' = [words |-> [run.words EXCEPT ![at].marks = a.marks],
                      speaker |-> run.speaker, start |-> run.start, end |-> End(Number),
                      suffix |-> a.suffix, removed |-> FALSE, open |-> TRUE]
          BY <2>10, <3>3 DEF Punctuation
        <5> HIDE DEF a, at
        <5> QED
          BY <5>1
      <4> HIDE DEF a
      <4>3. run.words # <<>> /\ run.words \in Seq(WordType)
        BY <2>1, <3>3 DEF Sizes, OpenType
      <4>4. DOMAIN run'.words = DOMAIN run.words /\ DOMAIN run.words = 1..Len(run.words)
        BY <4>2, <4>3
      <4>5. Len(run.words) > 0 /\ Len(run.words) \in Nat
        BY <4>3, EmptySeq, LenProperties
      <4>6. run'.words # <<>>
        <5>1. 1 \in DOMAIN run'.words
          BY <4>4, <4>5
        <5>2. DOMAIN <<>> = {}
          OBVIOUS
        <5> QED
          BY <5>1, <5>2
      <4> QED
        BY <2>5, <3>1, <4>1, <4>6
    <3> QED
      BY <3>2, <3>3
  <2>11. CASE Skipped
    BY <2>5, <2>11 DEF Skipped, Sizes
  <2>12. ASSUME NEW label \in Labels, Removed(label) PROVE Sizes'
    <3>1. run'.open = run.open /\ run'.words = run.words
      BY <2>1, <2>12 DEF Removed, OpenType
    <3> QED
      BY <2>5, <2>12, <3>1 DEF Removed, Sizes
  <2>13. ASSUME NEW label \in Labels, Kept(label) PROVE Sizes'
    <3> DEFINE speaker == SpeakerOf(provider, label)
    <3>1. /\ Feed(Result("word", label, "", FALSE))
          /\ ts' = IF Opens(speaker) THEN Flush ELSE ts
          /\ run' = Extended(Opens(speaker), speaker)
      BY <2>13 DEF Kept
    <3> HIDE DEF speaker
    <3>2. run'.open = TRUE
      BY <3>1 DEF Extended
    <3>3. run'.words # <<>>
      <4>1. run.words \in Seq(WordType)
        BY <2>1 DEF OpenType
      <4>2. PICK w : run'.words = Append(IF Opens(speaker) THEN <<>> ELSE run.words, w)
        BY <3>1 DEF Extended
      <4>3. <<>> \in Seq(WordType)
        OBVIOUS
      <4>4. (IF Opens(speaker) THEN <<>> ELSE run.words) \in Seq(WordType)
        BY <4>1, <4>3
      <4> QED
        BY <4>2, <4>4, AppendedIsLonger
    <3>4. Len(ts') + 1 <= Len(fed) + 1
      <4>1. CASE run.open /\ Opens(speaker)
        <5>1. ts' = Append(ts, Flushed(run))
          BY <3>1, <4>1 DEF Flush, Flushed
        <5>2. Len(ts') = Len(ts) + 1
          BY <2>1, <5>1
        <5> QED
          BY <2>1, <4>1, <5>2 DEF Sizes
      <4>2. CASE ~(run.open /\ Opens(speaker))
        <5>1. ts' = ts
          BY <3>1, <4>2 DEF Flush
        <5> QED
          BY <2>1, <5>1 DEF Sizes
      <4> QED
        BY <4>1, <4>2
    <3>5. Len(fed') = Len(fed) + 1 /\ Len(fed') <= MaxResults /\ message' # "none"
      BY <2>4, <3>1
    <3> QED
      BY <3>2, <3>3, <3>4, <3>5 DEF Sizes
  <2>14. CASE \E text \in BOOLEAN : Return(text)
    <3>1. fed' = fed /\ ts' = ts /\ run'.open = FALSE
      BY <2>14 DEF Return, NoRun
    <3> QED
      BY <2>1, <3>1 DEF Sizes
  <2>15. CASE UNCHANGED vars
    BY <2>2, <2>15 DEF vars
  <2> QED
    BY <2>6, <2>7, <2>8, <2>9, <2>10, <2>11, <2>12, <2>13, <2>14, <2>15 DEF Next
<1> QED
  BY <1>1, <1>2, LoopInvHolds, PTL DEF Spec

(* The loop over the results stays inside its bounds: there is never a run  *)
(* without a word, nor more runs than results.                              *)
THEOREM ProtocolTypeCorrect == Spec => []TypeOK
<1>1. LoopInv /\ Counts /\ Sizes => TypeOK
  <2> SUFFICES ASSUME LoopInv, Counts, Sizes PROVE TypeOK
    OBVIOUS
  <2>1. /\ message \in {"none", "settled", "revisable"}
        /\ {run.start, run.end, run.speaker} \subseteq Nat
        /\ Len(fed) \in Nat /\ Len(ts) \in Nat
    BY LenProperties DEF LoopInv, Types, OpenType
  <2>2. MaxResults \in Nat
    BY ProtocolSizes
  <2>3. Len(fed) <= MaxResults /\ Len(ts) <= MaxResults
    BY <2>1, <2>2 DEF Sizes
  <2> QED
    BY <2>1, <2>3 DEF TypeOK, Counts, Sizes
<1> QED
  BY <1>1, LoopInvHolds, CountsHold, SizesHold, PTL
=============================================================================
