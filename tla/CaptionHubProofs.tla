-------------------------- MODULE CaptionHubProofs --------------------------
(***************************************************************************)
(* Theorems about the caption hub, for every set of segments, every number  *)
(* of subscribers and every bound: first its types, its lines and what the  *)
(* viewers see; then what music does to it (the frozen screen, the order of *)
(* what is released, what never returns, CaptionStream implemented, what a  *)
(* release paints); last the order of the record when a live session drives *)
(* the hub.                                                                 *)
(***************************************************************************)
EXTENDS CaptionFeed, SequenceTheorems, WellFoundedInduction, TLAPS


(* A nonempty set of word places has a least and a greatest element.        *)
LEMMA LeastPlace ==
  ASSUME NEW P, P \subseteq Nat, P # {}
  PROVE  \E p \in P : \A q \in P : p <= q
<1>1. PICK p \in P : \A q \in P : ~(<<q, p>> \in OpToRel(<, Nat))
  BY NatLessThanWellFounded, WFMin, Zenon
<1>2. \A q \in P : ~(q < p)
  BY <1>1 DEF OpToRel
<1> QED
  BY <1>2

LEMMA GreatestPlace ==
  ASSUME NEW n \in Nat, NEW P, P \subseteq 1..n, P # {}
  PROVE  \E p \in P : \A q \in P : q <= p
<1> DEFINE R == {n - p : p \in P}
<1>0. \A p \in P : n - p \in Nat
  OBVIOUS
<1>1. R \subseteq Nat /\ R # {}
  BY <1>0
<1>2. PICK r \in R : \A q \in R : r <= q
  BY <1>1, LeastPlace
<1>3. PICK p \in P : r = n - p
  BY <1>2
<1>4. \A q \in P : n - p <= n - q
  BY <1>2, <1>3
<1> QED
  BY <1>4

(* FirstWord and LastWord pick a word of the set they are given.            *)
LEMMA FirstWordIn ==
  ASSUME NEW W \in SUBSET Word, W # {}
  PROVE  FirstWord(W) \in W /\ \A v \in W : FirstWord(W).pos <= v.pos
<1> DEFINE P == {w.pos : w \in W}
<1>1. P \subseteq Nat /\ P # {}
  BY SizesAssumption DEF Word, SizesAssumption
<1>2. PICK p \in P : \A q \in P : p <= q
  BY <1>1, LeastPlace
<1>3. \E w \in W : \A v \in W : w.pos <= v.pos
  BY <1>2
<1> QED
  BY <1>3 DEF FirstWord

LEMMA LastWordIn ==
  ASSUME NEW W \in SUBSET Word, W # {}
  PROVE  LastWord(W) \in W
<1> DEFINE P == {w.pos : w \in W}
<1>1. P \subseteq 1..MaxWords /\ P # {}
  BY SizesAssumption DEF Word, SizesAssumption
<1>2. PICK p \in P : \A q \in P : q <= p
  BY <1>1, GreatestPlace, SizesAssumption DEF SizesAssumption
<1>3. \E w \in W : \A v \in W : v.pos <= w.pos
  BY <1>2
<1> QED
  BY <1>3 DEF LastWord

(* What afterMusic leaves of a segment is a segment, of the same number and *)
(* the same speaker.                                                        *)
LEMMA AfterMusicType ==
  ASSUME NEW t \in Segment, NEW at \in Int, Survives(t, at)
  PROVE  /\ AfterMusic(t, at) \in Segment
         /\ AfterMusic(t, at).n = t.n
         /\ AfterMusic(t, at).speaker = t.speaker
<1>1. CASE Untimed(t)
  BY <1>1 DEF AfterMusic
<1>2. CASE ~Untimed(t)
  <2> DEFINE kept == WordsFrom(t, at)
             from == FirstWord(kept).start
             dur  == MaxOf(LastWord(kept).end - from, 0)
  <2>1. kept \in SUBSET Word /\ kept # {}
    BY <1>2 DEF Survives, WordsFrom, Segment
  <2>2. FirstWord(kept) \in Word /\ LastWord(kept) \in Word
    BY <2>1, FirstWordIn, LastWordIn
  <2>3. from \in Nat /\ dur \in Nat
    BY <2>2 DEF Word, MaxOf
  <2>4. AfterMusic(t, at) = [t EXCEPT !.words = kept, !.start = from, !.dur = dur]
    BY <1>2 DEF AfterMusic
  <2> HIDE DEF kept, from, dur
  <2> QED
    BY <2>1, <2>3, <2>4 DEF Segment
<1> QED
  BY <1>1, <1>2

LEMMA SurvivingType ==
  ASSUME NEW S \in SUBSET Segment, NEW at \in Int
  PROVE  /\ Surviving(S, at) \subseteq Segment
         /\ \A t \in Surviving(S, at) : \E u \in S : Survives(u, at) /\ t = AfterMusic(u, at) /\ t.n = u.n
  BY AfterMusicType DEF Surviving

LEMMA TrimmedType ==
  ASSUME NEW S \in SUBSET Segment, NEW newest \in Nat
  PROVE  /\ Trimmed(S, newest) \subseteq Segment
         /\ \A t \in Trimmed(S, newest) : \E u \in S : t.n = u.n
  BY SurvivingType, SizesAssumption DEF Trimmed, SizesAssumption
-----------------------------------------------------------------------------
(* Type correctness, operator by operator and then action by action.        *)
LEMMA EventType ==
  ASSUME NEW n \in Nat, NEW kind \in Kinds, NEW detail \in Details(kind)
  PROVE  [seq |-> n, kind |-> kind, detail |-> detail] \in Event
BY DEF Event

WireType ==
  /\ seq \in Nat
  /\ inbox \in [Clients -> Seq(Event)]
  /\ lost \subseteq subs

LineType ==
  /\ committed \in Seq(Segment)
  /\ uttStart \in Nat /\ uttSpeaker \in Nat /\ uttEnd \in Nat
  /\ prevEnd \in Nat /\ lastSpeaker \in Nat
  /\ uttEndOK \in BOOLEAN

RecordType ==
  /\ painted \in Seq(Segment) /\ recorded \in Seq(Segment)
  /\ transcript \in Seq(TranscriptEntry)

MusicType ==
  /\ music \in BOOLEAN /\ musicTimer \in BOOLEAN /\ cutoffSet \in BOOLEAN
  /\ held \subseteq Segment /\ muted \subseteq Segment
  /\ musicToken \in Nat /\ pendingEnd \in Nat
  /\ newestMedia \in Nat /\ confirmedCutoff \in Nat
  /\ armed \subseteq Nat /\ fired \subseteq Nat
  /\ discarded \in Nat

RestType ==
  /\ lastState \in States \cup {""}
  /\ replay \subseteq Segment
  /\ subs \subseteq Clients
  /\ shown \in [Clients -> Indicators]
  /\ seen \in [Clients -> Nat]
  /\ calls \in Nat /\ arrived \in Nat

LEMMA TypeOKParts ==
  /\ TypeOK <=> WireType /\ LineType /\ RecordType /\ MusicType /\ RestType
  /\ TypeOK' <=> WireType' /\ LineType' /\ RecordType' /\ MusicType' /\ RestType'
BY DEF TypeOK, WireType, LineType, RecordType, MusicType, RestType

LEMMA NumbersType ==
  ASSUME TypeOK
  PROVE  /\ seq \in Nat /\ calls \in Nat /\ arrived \in Nat
         /\ musicToken \in Nat /\ pendingEnd \in Nat
         /\ newestMedia \in Nat /\ confirmedCutoff \in Nat
         /\ prevEnd \in Nat
         /\ armed \subseteq Nat /\ fired \subseteq Nat
BY DEF TypeOK

LEMMA EventDetail ==
  ASSUME NEW ev \in Event
  PROVE  ev.seq \in Nat /\ ev.kind \in Kinds /\ ev.detail \in Details(ev.kind)
BY DEF Event

LEMMA BroadcastType ==
  ASSUME TypeOK, subs' = subs,
         NEW kind \in Kinds, NEW detail \in Details(kind), Broadcast(kind, detail)
  PROVE  WireType'
<1> DEFINE ev == [seq |-> seq + 1, kind |-> kind, detail |-> detail]
<1>0. seq \in Nat /\ inbox \in [Clients -> Seq(Event)] /\ lost \subseteq subs
  BY DEF TypeOK
<1>1. ev \in Event
  <2>1. seq + 1 \in Nat
    BY <1>0
  <2> QED
    BY <2>1, EventType
<1>2. \A c \in Clients : Append(inbox[c], ev) \in Seq(Event)
  BY <1>0, <1>1, AppendProperties
<1>3. /\ seq' = seq + 1
      /\ inbox' = [c \in Clients |-> IF c \in subs /\ ~Full(c)
                                     THEN Append(inbox[c], ev) ELSE inbox[c]]
      /\ lost' = lost \cup {c \in subs : Full(c)}
  BY DEF Broadcast
<1> HIDE DEF ev
<1>4. seq' \in Nat
  BY <1>0, <1>3
<1>5. inbox' \in [Clients -> Seq(Event)]
  BY <1>0, <1>2, <1>3
<1>6. lost' \subseteq subs'
  BY <1>0, <1>3
<1> QED
  BY <1>4, <1>5, <1>6 DEF WireType

LEMMA LineInEntries ==
  ASSUME NEW text \in Seq(Segment), NEW start \in Nat, NEW speaker \in Nat,
         NEW end \in Nat, NEW endOK \in BOOLEAN
  PROVE  Line(text, start, speaker, end, endOK) \in TranscriptEntry
BY DEF Line, TranscriptEntry

LEMMA PaintType ==
  ASSUME TypeOK, subs' = subs, NEW t \in Segment, Paint(t)
  PROVE  WireType' /\ LineType' /\ RecordType'
<1> DEFINE broke  == IsBreak(t)
           before == MustClose(committed, broke \/ SpeakerChanged(t))
           base   == IF before THEN <<>> ELSE committed
           text   == Append(base, t)
           start  == IF base = <<>> THEN t.start ELSE uttStart
           who    == IF base = <<>> THEN t.speaker ELSE uttSpeaker
           after  == MustClose(text, FALSE)
           line   == Line(text, start, who, End(t), t.dur > 0)
<1>1. t.start \in Nat /\ t.dur \in Nat /\ t.speaker \in Nat /\ End(t) \in Nat
  BY DEF Segment, End
<1>2. base \in Seq(Segment) /\ text \in Seq(Segment)
  BY AppendProperties, EmptySeq DEF TypeOK
<1>3. start \in Nat /\ who \in Nat
  BY <1>1 DEF TypeOK
<1>4. line \in TranscriptEntry /\ OpenLine \in TranscriptEntry
  <2>1. /\ committed \in Seq(Segment) /\ uttStart \in Nat
        /\ uttSpeaker \in Nat /\ uttEnd \in Nat /\ uttEndOK \in BOOLEAN
    BY DEF TypeOK
  <2>2. (t.dur > 0) \in BOOLEAN
    OBVIOUS
  <2> HIDE DEF text, start, who
  <2> QED
    BY <1>1, <1>2, <1>3, <2>1, <2>2, LineInEntries, Zenon DEF OpenLine
<1>5. WireType'
  <2>1. Broadcast("caption", IF broke THEN "break" ELSE "flow")
    BY DEF Paint
  <2> QED
    BY <2>1, BroadcastType DEF Kinds, Details
<1>6. LineType'
  <2>1. /\ uttStart' = start /\ uttSpeaker' = who /\ uttEnd' = End(t)
        /\ uttEndOK' = (t.dur > 0) /\ prevEnd' = End(t)
        /\ lastSpeaker' = IF t.speaker # 0 THEN t.speaker ELSE lastSpeaker
        /\ committed' = IF after THEN <<>> ELSE text
    BY DEF Paint
  <2>2. uttEndOK' \in BOOLEAN
    <3>1. (t.dur > 0) \in BOOLEAN
      OBVIOUS
    <3>2. uttEndOK' = (t.dur > 0)
      BY DEF Paint
    <3> QED
      BY <3>1, <3>2, Zenon
  <2> HIDE DEF base, text, start, who, after
  <2>3. committed' \in Seq(Segment)
    BY <1>2, <2>1, EmptySeq, Zenon
  <2>4. lastSpeaker \in Nat
    BY DEF TypeOK
  <2>5. /\ uttStart' \in Nat /\ uttSpeaker' \in Nat /\ uttEnd' \in Nat
        /\ prevEnd' \in Nat /\ lastSpeaker' \in Nat
    BY <1>1, <1>3, <2>1, <2>4
  <2> QED
    BY <2>2, <2>3, <2>5 DEF LineType
<1>7. RecordType'
  <2>1. /\ painted' = Append(painted, t)
        /\ transcript' = transcript \o (IF before THEN <<OpenLine>> ELSE <<>>)
                                    \o (IF after THEN <<line>> ELSE <<>>)
        /\ recorded' = recorded \o (IF before THEN committed ELSE <<>>)
                                \o (IF after THEN text ELSE <<>>)
    BY DEF Paint
  <2> HIDE DEF before, base, text, after, line
  <2>2. painted' \in Seq(Segment)
    BY <2>1, AppendProperties DEF TypeOK
  <2>3. transcript' \in Seq(TranscriptEntry)
    <3> DEFINE one == IF before THEN <<OpenLine>> ELSE <<>>
               two == IF after THEN <<line>> ELSE <<>>
    <3>1. transcript \in Seq(TranscriptEntry)
      BY DEF TypeOK
    <3>2. one \in Seq(TranscriptEntry) /\ two \in Seq(TranscriptEntry)
      BY <1>4
    <3>3. transcript' = (transcript \o one) \o two
      BY <2>1
    <3> HIDE DEF one, two
    <3> QED
      BY <3>1, <3>2, <3>3, ConcatProperties
  <2>4. recorded' \in Seq(Segment)
    BY <1>2, <2>1, ConcatProperties, EmptySeq DEF TypeOK
  <2> QED
    BY <2>2, <2>3, <2>4 DEF RecordType
<1> QED
  BY <1>5, <1>6, <1>7

LEMMA PublishLiveType ==
  ASSUME TypeOK, subs' = subs, NEW t \in Segment, PublishLive(t)
  PROVE  WireType' /\ LineType' /\ RecordType'
<1>1. CASE cutoffSet /\ ~Survives(t, confirmedCutoff)
  BY <1>1 DEF PublishLive, TypeOK, WireType, LineType, RecordType, lineVars,
              recordVars, wireVars
<1>2. CASE ~(cutoffSet /\ ~Survives(t, confirmedCutoff))
  <2>1. (IF cutoffSet THEN AfterMusic(t, confirmedCutoff) ELSE t) \in Segment
    <3>1. confirmedCutoff \in Nat
      BY DEF TypeOK
    <3> QED
      BY <1>2, <3>1, AfterMusicType
  <2> QED
    BY <1>2, <2>1, PaintType DEF PublishLive
<1> QED
  BY <1>1, <1>2

LEMMA ForceCloseType ==
  ASSUME TypeOK, NEW markers \in Seq(TranscriptEntry), ForceClose(markers)
  PROVE  LineType' /\ RecordType'
<1>1. OpenLine \in TranscriptEntry
  BY LineInEntries DEF OpenLine, TypeOK
<1>2. transcript' \in Seq(TranscriptEntry)
  <2> DEFINE one == IF committed = <<>> THEN <<>> ELSE <<OpenLine>>
  <2>1. transcript \in Seq(TranscriptEntry)
    BY DEF TypeOK
  <2>2. one \in Seq(TranscriptEntry)
    BY <1>1
  <2>3. transcript' = (transcript \o one) \o markers
    BY DEF ForceClose
  <2> HIDE DEF one
  <2> QED
    BY <2>1, <2>2, <2>3, ConcatProperties
<1>3. recorded' \in Seq(Segment)
  BY ConcatProperties DEF ForceClose, TypeOK
<1> QED
  BY <1>2, <1>3, EmptySeq DEF ForceClose, TypeOK, LineType, RecordType

LEMMA UnchangedTypes ==
  ASSUME TypeOK
  PROVE  /\ UNCHANGED wireVars /\ UNCHANGED subs => WireType'
         /\ UNCHANGED lineVars => LineType'
         /\ UNCHANGED recordVars => RecordType'
         /\ UNCHANGED musicVars => MusicType'
         /\ UNCHANGED <<lastState, replay, clientVars, calls, arrived>> => RestType'
<1> USE TypeOKParts
<1>1. UNCHANGED wireVars /\ UNCHANGED subs => WireType'
  BY DEF WireType, wireVars
<1>2. UNCHANGED lineVars => LineType'
  BY DEF LineType, lineVars
<1>3. UNCHANGED recordVars => RecordType'
  BY DEF RecordType, recordVars
<1>4. UNCHANGED musicVars => MusicType'
  BY DEF MusicType, musicVars
<1>5. UNCHANGED <<lastState, replay, clientVars, calls, arrived>> => RestType'
  BY DEF RestType, clientVars
<1> QED
  BY <1>1, <1>2, <1>3, <1>4, <1>5

(* A public operation leaves the rest well typed if it sets nothing of it   *)
(* but the two counters.                                                    *)
LEMMA CallType ==
  ASSUME TypeOK, Call, UNCHANGED <<lastState, clientVars>>,
         arrived' \in {arrived, arrived + 1}
  PROVE  RestType'
<1>1. arrived' \in Nat /\ calls' \in Nat
  BY NumbersType DEF Call
<1> QED
  BY <1>1, TypeOKParts DEF Call, RestType, clientVars

LEMMA MarkersType ==
  ASSUME NEW kind \in {"music", "silence"}, NEW at \in Nat
  PROVE  <<Marker(kind, at)>> \in Seq(TranscriptEntry)
BY DEF Marker, TranscriptEntry

LEMMA CancelType ==
  ASSUME TypeOK, CancelMusicEnd
  PROVE  /\ armed' \subseteq Nat /\ fired' \subseteq Nat
         /\ musicTimer' \in BOOLEAN /\ musicToken' \in Nat /\ pendingEnd' \in Nat
<1>1. musicTimer' \in BOOLEAN
  BY DEF CancelMusicEnd
<1>2. armed' \subseteq armed
  BY DEF CancelMusicEnd
<1> QED
  BY <1>1, <1>2, NumbersType DEF CancelMusicEnd

LEMMA PublishType ==
  ASSUME TypeOK, NEW s \in Segments, Publish(s)
  PROVE  TypeOK'
<1> DEFINE t == [s EXCEPT !.n = arrived + 1]
<1>1. t \in Segment
  <2>1. arrived + 1 \in Nat
    BY NumbersType
  <2>2. s \in Segment
    BY SegmentsAssumption DEF SegmentsAssumption
  <2> QED
    BY <2>1, <2>2 DEF Segment
<1>2. RestType'
  BY CallType DEF Publish, clientVars
<1>3. UNCHANGED subs
  BY DEF Publish, clientVars
<1>4. CASE music /\ Hold(t) /\ UNCHANGED <<lineVars, recordVars, wireVars>>
  <2>1. newestMedia' \in Nat
    BY <1>1, <1>4, NumbersType DEF Hold, MaxOf, End, Segment
  <2>2. held \cup {t} \in SUBSET Segment
    BY <1>1 DEF TypeOK
  <2>3. held' \subseteq Segment
    BY <1>4, <2>1, <2>2, TrimmedType DEF Hold
  <2>4. MusicType /\ UNCHANGED <<music, confirmedCutoff, cutoffSet, timerVars, discarded>>
    BY <1>4, TypeOKParts DEF Hold
  <2>5. muted' \subseteq Segment
    BY <1>1, <1>4, <2>4 DEF Hold, MusicType
  <2>6. MusicType'
    BY <2>1, <2>3, <2>4, <2>5 DEF MusicType, timerVars
  <2> QED
    BY <1>2, <1>3, <1>4, <2>6, UnchangedTypes, TypeOKParts
<1>5. CASE ~music /\ PublishLive(t) /\ UNCHANGED musicVars
  <2>1. WireType' /\ LineType' /\ RecordType'
    BY <1>1, <1>3, <1>5, PublishLiveType
  <2> QED
    BY <1>2, <1>5, <2>1, UnchangedTypes, TypeOKParts
<1> QED
  BY <1>4, <1>5 DEF Publish

LEMMA SetMusicOnType ==
  ASSUME TypeOK, NEW at \in MusicTimes, SetMusicOn(at)
  PROVE  TypeOK'
<1>1. at \in Nat
  BY TimesAssumption DEF TimesAssumption
<1>2. RestType' /\ UNCHANGED subs
  BY CallType DEF SetMusicOn, clientVars
<1>3. MusicType /\ newestMedia' \in Nat
  BY <1>1, TypeOKParts DEF SetMusicOn, MaxOf, MusicType
<1>4. Trimmed(held, newestMedia') \subseteq Segment
  BY <1>3, TrimmedType DEF MusicType
<1>5. arrived \in Nat
  BY DEF TypeOK
<1>6. CASE ~music
  <2>1. /\ music' = TRUE /\ confirmedCutoff' = 0 /\ cutoffSet' = FALSE
        /\ held' = Trimmed(held, newestMedia') /\ muted' = {}
        /\ ForceClose(<<Marker("music", at)>>) /\ Broadcast("music", "on")
        /\ UNCHANGED <<timerVars, discarded>>
    BY <1>6 DEF SetMusicOn
  <2>2. LineType' /\ RecordType'
    BY <1>1, <2>1, MarkersType, ForceCloseType
  <2>3. WireType'
    BY <1>2, <2>1, BroadcastType DEF Kinds, Details
  <2>4. MusicType'
    BY <1>3, <1>4, <2>1 DEF MusicType, timerVars
  <2> QED
    BY <1>2, <2>2, <2>3, <2>4, TypeOKParts
<1>7. CASE music
  <2>1. /\ UNCHANGED <<music, confirmedCutoff, cutoffSet>>
        /\ UNCHANGED lineVars /\ UNCHANGED recordVars /\ UNCHANGED wireVars
    BY <1>7 DEF SetMusicOn
  <2>2. CASE musicTimer
    <3>1. CancelMusicEnd /\ DiscardHeld
      BY <1>7, <2>2 DEF SetMusicOn
    <3>2. MusicType'
      BY <1>3, <1>5, <2>1, <3>1, CancelType DEF MusicType, DiscardHeld
    <3> QED
      BY <1>2, <2>1, <3>2, UnchangedTypes, TypeOKParts
  <2>3. CASE ~musicTimer
    <3>1. held' = Trimmed(held, newestMedia') /\ UNCHANGED <<timerVars, muted, discarded>>
      BY <1>7, <2>3 DEF SetMusicOn
    <3>2. MusicType'
      BY <1>3, <1>4, <2>1, <3>1 DEF MusicType, timerVars
    <3> QED
      BY <1>2, <2>1, <3>2, UnchangedTypes, TypeOKParts
  <2> QED
    BY <2>2, <2>3
<1> QED
  BY <1>6, <1>7

LEMMA SetMusicOffType ==
  ASSUME TypeOK, NEW at \in MusicTimes, SetMusicOff(at)
  PROVE  TypeOK'
<1>1. at \in Nat
  BY TimesAssumption DEF TimesAssumption
<1>2. RestType' /\ UNCHANGED subs
  BY CallType DEF SetMusicOff, clientVars
<1>3. MusicType /\ newestMedia' \in Nat
  BY <1>1, TypeOKParts DEF SetMusicOff, MaxOf, MusicType
<1>4. held' \subseteq Segment
  BY <1>3, TrimmedType DEF MusicType, SetMusicOff
<1>5. MusicType'
  <2>1. UNCHANGED <<music, confirmedCutoff, cutoffSet, fired, muted, discarded>>
    BY DEF SetMusicOff
  <2>2. pendingEnd' \in Nat /\ musicToken' \in Nat /\ armed' \subseteq Nat
    BY <1>1, NumbersType DEF SetMusicOff
  <2>3. musicTimer' \in BOOLEAN
    BY <1>3 DEF SetMusicOff, MusicType
  <2> QED
    BY <1>3, <1>4, <2>1, <2>2, <2>3 DEF MusicType
<1>6. UNCHANGED lineVars /\ UNCHANGED recordVars /\ UNCHANGED wireVars
  BY DEF SetMusicOff
<1> QED
  BY <1>2, <1>5, <1>6, UnchangedTypes, TypeOKParts

LEMMA ResetConnectionType ==
  ASSUME TypeOK, ResetConnection
  PROVE  TypeOK'
<1>1. RestType' /\ UNCHANGED subs
  BY CallType DEF ResetConnection, clientVars
<1>2. WireType'
  <2>1. CASE music
    BY <1>1, <2>1, BroadcastType DEF ResetConnection, Kinds, Details
  <2>2. CASE ~music
    BY <1>1, <2>2, UnchangedTypes DEF ResetConnection
  <2> QED
    BY <2>1, <2>2
<1>3. MusicType'
  <2>1. CancelMusicEnd /\ DiscardHeld /\ newestMedia' = 0 /\ confirmedCutoff' = 0
        /\ cutoffSet' = FALSE /\ music' = FALSE
    BY DEF ResetConnection
  <2> QED
    BY <2>1, CancelType, NumbersType DEF MusicType, DiscardHeld
<1>4. LineType' /\ RecordType'
  BY UnchangedTypes DEF ResetConnection
<1> QED
  BY <1>1, <1>2, <1>3, <1>4, TypeOKParts

LEMMA PublishStatusType ==
  ASSUME TypeOK, NEW state \in States, PublishStatus(state)
  PROVE  TypeOK'
<1>1. RestType' /\ UNCHANGED subs
  <2>1. /\ Call /\ lastState' = state
        /\ UNCHANGED clientVars /\ UNCHANGED arrived
    BY DEF PublishStatus
  <2>2. calls' \in Nat
    BY <2>1, NumbersType DEF Call
  <2> QED
    BY <2>1, <2>2, TypeOKParts DEF Call, RestType, clientVars
<1>2. WireType'
  BY <1>1, BroadcastType DEF PublishStatus, Kinds, Details
<1>3. MusicType'
  BY UnchangedTypes DEF PublishStatus
<1>4. LineType' /\ RecordType'
  <2>1. CASE state = "paused" /\ lastState # "paused"
    <3>1. MaxOf(prevEnd, newestMedia) \in Nat
      BY NumbersType DEF MaxOf
    <3>2. ForceClose(<<Marker("silence", MaxOf(prevEnd, newestMedia))>>)
      BY <2>1 DEF PublishStatus
    <3> QED
      BY <3>1, <3>2, MarkersType, ForceCloseType
  <2>2. CASE ~(state = "paused" /\ lastState # "paused")
    BY <2>2, UnchangedTypes DEF PublishStatus
  <2> QED
    BY <2>1, <2>2
<1> QED
  BY <1>1, <1>2, <1>3, <1>4, TypeOKParts

LEMMA ClearType ==
  ASSUME TypeOK, Clear
  PROVE  TypeOK'
<1>1. RestType' /\ UNCHANGED subs
  BY CallType DEF Clear, clientVars
<1>2. WireType'
  BY <1>1, BroadcastType DEF Clear, Kinds, Details
<1>3. MusicType'
  <2>1. DiscardHeld /\ UNCHANGED <<music, newestMedia, confirmedCutoff, cutoffSet>>
        /\ UNCHANGED timerVars
    BY DEF Clear
  <2> QED
    BY <2>1, NumbersType, TypeOKParts DEF MusicType, DiscardHeld, timerVars
<1>4. LineType' /\ RecordType'
  <2>1. ForceClose(<<>>)
    BY DEF Clear
  <2> QED
    BY <2>1, EmptySeq, ForceCloseType
<1> QED
  BY <1>1, <1>2, <1>3, <1>4, TypeOKParts

LEMMA FlushType ==
  ASSUME TypeOK, Flush
  PROVE  TypeOK'
<1>1. RestType' /\ UNCHANGED subs /\ UNCHANGED wireVars
  BY CallType DEF Flush, clientVars
<1>2. MusicType'
  <2>1. CancelMusicEnd /\ DiscardHeld
        /\ UNCHANGED <<music, newestMedia, confirmedCutoff, cutoffSet>>
    BY DEF Flush
  <2> QED
    BY <2>1, CancelType, NumbersType, TypeOKParts DEF MusicType, DiscardHeld
<1>3. LineType' /\ RecordType'
  <2>1. ForceClose(<<>>)
    BY DEF Flush
  <2> QED
    BY <2>1, EmptySeq, ForceCloseType
<1> QED
  BY <1>1, <1>2, <1>3, UnchangedTypes, TypeOKParts

LEMMA TimerFiresType ==
  ASSUME TypeOK, NEW k \in armed, TimerFires(k)
  PROVE  TypeOK'
<1>1. armed' \subseteq Nat /\ fired' \subseteq Nat
  BY NumbersType DEF TimerFires
<1>2. /\ UNCHANGED lineVars /\ UNCHANGED recordVars /\ UNCHANGED wireVars
      /\ UNCHANGED subs /\ UNCHANGED <<lastState, replay, clientVars, calls, arrived>>
      /\ UNCHANGED <<music, held, musicTimer, musicToken, pendingEnd, newestMedia,
                     confirmedCutoff, cutoffSet, muted, discarded>>
  BY DEF TimerFires, clientVars
<1>3. MusicType'
  BY <1>1, <1>2, TypeOKParts DEF MusicType
<1> QED
  BY <1>2, <1>3, UnchangedTypes, TypeOKParts

LEMMA ReleaseMusicType ==
  ASSUME TypeOK, NEW k \in fired, ReleaseMusic(k)
  PROVE  TypeOK'
<1> DEFINE cutoff == MaxOf(pendingEnd, newestMedia - MusicReplayWindow)
<1>1. cutoff \in Nat
  BY NumbersType, SizesAssumption DEF MaxOf, SizesAssumption
<1>2. /\ UNCHANGED lineVars /\ UNCHANGED recordVars /\ UNCHANGED subs
      /\ UNCHANGED <<lastState, clientVars, calls, arrived>>
      /\ UNCHANGED <<musicToken, pendingEnd, newestMedia, armed, discarded>>
      /\ fired' \subseteq fired
  BY DEF ReleaseMusic, ReleaseAt, clientVars
<1>3. CASE musicTimer /\ musicToken = k /\ music
  <2>1. /\ musicTimer' = FALSE /\ music' = FALSE /\ confirmedCutoff' = cutoff
        /\ cutoffSet' = TRUE /\ replay' = Surviving(held, cutoff) /\ held' = {}
        /\ muted' = {} /\ Broadcast("music", "off")
    BY <1>3 DEF ReleaseMusic, ReleaseAt, Current, MusicCutoff
  <2> HIDE DEF cutoff
  <2>2. replay' \subseteq Segment
    BY <1>1, <2>1, SurvivingType, TypeOKParts DEF MusicType
  <2>3. WireType'
    BY <1>2, <2>1, BroadcastType DEF Kinds, Details
  <2>4. MusicType'
    BY <1>1, <1>2, <2>1, TypeOKParts DEF MusicType
  <2>5. RestType'
    BY <1>2, <2>2, TypeOKParts DEF RestType, clientVars
  <2> QED
    BY <1>2, <2>3, <2>4, <2>5, UnchangedTypes, TypeOKParts
<1>4. CASE ~(musicTimer /\ musicToken = k /\ music)
  <2>1. /\ UNCHANGED <<musicTimer, music, confirmedCutoff, cutoffSet, replay, held, muted>>
        /\ UNCHANGED wireVars
    BY <1>4 DEF ReleaseMusic, ReleaseAt, Current, MusicCutoff
  <2>2. MusicType'
    BY <1>2, <2>1, TypeOKParts DEF MusicType
  <2>3. RestType'
    BY <1>2, <2>1, TypeOKParts DEF RestType, clientVars
  <2> QED
    BY <1>2, <2>1, <2>2, <2>3, UnchangedTypes, TypeOKParts
<1> QED
  BY <1>3, <1>4

LEMMA ReplayNextType ==
  ASSUME TypeOK, ReplayNext
  PROVE  TypeOK'
<1>1. PICK t \in replay : /\ replay' = replay \ {t} /\ PublishLive(t)
                          /\ UNCHANGED <<lastState, musicVars, clientVars, calls, arrived>>
  BY DEF ReplayNext
<1>2. t \in Segment /\ UNCHANGED subs
  BY <1>1, TypeOKParts DEF RestType, clientVars
<1>3. WireType' /\ LineType' /\ RecordType'
  BY <1>1, <1>2, PublishLiveType
<1>4. RestType'
  BY <1>1, TypeOKParts DEF RestType, clientVars
<1>5. MusicType'
  BY <1>1, UnchangedTypes
<1> QED
  BY <1>3, <1>4, <1>5, TypeOKParts

LEMMA ClientsType ==
  ASSUME TypeOK, NEW c \in Clients,
         Subscribe(c) \/ Unsubscribe(c) \/ Receive(c)
  PROVE  TypeOK'
<1>1. UNCHANGED lineVars /\ UNCHANGED recordVars /\ UNCHANGED musicVars
  BY DEF Subscribe, SubscribeWith, Unsubscribe, Receive
<1>2. /\ seq \in Nat /\ inbox \in [Clients -> Seq(Event)] /\ lost \subseteq subs
      /\ subs \subseteq Clients
  BY DEF TypeOK
<1>3. CASE Subscribe(c)
  <2> DEFINE sts == [seq |-> seq + 1, kind |-> "status", detail |-> lastState]
             mus == [seq |-> seq + 2, kind |-> "music",
                     detail |-> IF music THEN "on" ELSE "off"]
  <2>1. sts \in Event /\ mus \in Event
    <3>1. seq + 1 \in Nat /\ seq + 2 \in Nat
      BY <1>2
    <3>2. lastState \in Details("status")
      BY DEF TypeOK, Details
    <3>3. (IF music THEN "on" ELSE "off") \in Details("music")
      BY DEF Details
    <3>4. "status" \in Kinds /\ "music" \in Kinds
      BY DEF Kinds
    <3> QED
      BY <3>1, <3>2, <3>3, <3>4, EventType
  <2>2. /\ seq' = seq + 2 /\ subs' = subs \cup {c}
        /\ inbox' = [inbox EXCEPT ![c] = <<sts, mus>>]
        /\ UNCHANGED <<lost, shown, seen, lastState, arrived>> /\ Call
    BY <1>3 DEF Subscribe, SubscribeWith, StatusSnapshot, MusicSnapshot
  <2> HIDE DEF sts, mus
  <2>3. WireType'
    BY <1>2, <2>1, <2>2 DEF WireType
  <2>4. calls' \in Nat
    BY <2>2, NumbersType DEF Call
  <2>5. RestType'
    BY <1>2, <2>2, <2>4, TypeOKParts DEF RestType, Call
  <2> QED
    BY <1>1, <2>3, <2>5, UnchangedTypes, TypeOKParts
<1>4. CASE Unsubscribe(c)
  <2>1. /\ subs' = subs \ {c} /\ inbox' = [inbox EXCEPT ![c] = <<>>]
        /\ lost' = lost \ {c}
        /\ UNCHANGED <<seq, shown, seen, lastState, arrived>> /\ Call
    BY <1>4 DEF Unsubscribe
  <2>2. WireType'
    BY <1>2, <2>1 DEF WireType
  <2>3. calls' \in Nat
    BY <2>1, NumbersType DEF Call
  <2>4. RestType'
    BY <1>2, <2>1, <2>3, TypeOKParts DEF RestType, Call
  <2> QED
    BY <1>1, <2>2, <2>4, UnchangedTypes, TypeOKParts
<1>5. CASE Receive(c)
  <2> DEFINE ev == Head(inbox[c])
  <2>1. /\ inbox[c] # <<>> /\ seen' = [seen EXCEPT ![c] = ev.seq]
        /\ shown' = IF ev.kind \in {"status", "music"}
                    THEN [shown EXCEPT ![c][ev.kind] = ev.detail] ELSE shown
        /\ inbox' = [inbox EXCEPT ![c] = Tail(@)]
        /\ UNCHANGED <<lastState, replay, subs, seq, lost, calls, arrived>>
    BY <1>5 DEF Receive
  <2>2. ev \in Event /\ Tail(inbox[c]) \in Seq(Event)
    BY <1>2, <2>1, HeadTailProperties
  <2>3. WireType'
    BY <1>2, <2>1, <2>2 DEF WireType
  <2>4. shown' \in [Clients -> Indicators]
    <3>1. shown \in [Clients -> Indicators]
      BY DEF TypeOK
    <3>2. CASE ev.kind = "status"
      <4>1. ev.detail \in States \cup {""}
        BY <2>2, <3>2, EventDetail DEF Details
      <4>2. [shown[c] EXCEPT !["status"] = ev.detail] \in Indicators
        BY <3>1, <4>1 DEF Indicators
      <4>3. shown' = [shown EXCEPT ![c] = [shown[c] EXCEPT !["status"] = ev.detail]]
        BY <2>1, <3>2
      <4> QED
        BY <3>1, <4>2, <4>3
    <3>3. CASE ev.kind = "music"
      <4>1. ev.detail \in {"on", "off"}
        BY <2>2, <3>3, EventDetail DEF Details
      <4>2. [shown[c] EXCEPT !["music"] = ev.detail] \in Indicators
        BY <3>1, <4>1 DEF Indicators
      <4>3. shown' = [shown EXCEPT ![c] = [shown[c] EXCEPT !["music"] = ev.detail]]
        BY <2>1, <3>3
      <4> QED
        BY <3>1, <4>2, <4>3
    <3> QED
      BY <2>1, <3>1, <3>2, <3>3
  <2>5. ev.seq \in Nat
    BY <2>2 DEF Event
  <2>6. RestType'
    BY <2>1, <2>4, <2>5, TypeOKParts DEF RestType
  <2> QED
    BY <1>1, <2>3, <2>6, UnchangedTypes, TypeOKParts
<1> QED
  BY <1>3, <1>4, <1>5

LEMMA InitType == Init => TypeOK
<1> SUFFICES ASSUME Init PROVE TypeOK
  OBVIOUS
<1>1. WireType /\ LineType /\ RecordType
  BY EmptySeq DEF Init, WireType, LineType, RecordType
<1>2. MusicType /\ RestType
  BY DEF Init, MusicType, RestType, Indicators
<1> QED
  BY <1>1, <1>2, TypeOKParts

LEMMA StutterType ==
  ASSUME TypeOK, UNCHANGED vars
  PROVE  TypeOK'
<1>1. /\ UNCHANGED lineVars /\ UNCHANGED recordVars /\ UNCHANGED musicVars
      /\ UNCHANGED wireVars /\ UNCHANGED subs
      /\ UNCHANGED <<lastState, replay, clientVars, calls, arrived>>
  BY DEF vars, clientVars
<1> QED
  BY <1>1, UnchangedTypes, TypeOKParts

LEMMA NextType ==
  ASSUME TypeOK, [Next]_vars
  PROVE  TypeOK'
BY PublishType, SetMusicOnType, SetMusicOffType, ResetConnectionType,
   PublishStatusType, ClearType, FlushType, TimerFiresType, ReleaseMusicType,
   ReplayNextType, ClientsType, StutterType DEF Next

(* Every variable of the hub keeps its type, whatever the recognizer, the   *)
(* operator, the timers and the subscribers do (all of hub.go).             *)
THEOREM TypeCorrect == Spec => []TypeOK
<1>1. TypeOK /\ [Next]_vars => TypeOK'
  BY NextType
<1> QED
  BY <1>1, InitType, PTL DEF Spec
-----------------------------------------------------------------------------
(* Whatever a step does, it does one of three things to the open line and   *)
(* to the record of what was painted.                                       *)
LEMMA LineSteps ==
  ASSUME TypeOK, [Next]_vars
  PROVE  \/ \E t \in Segment : Paint(t)
         \/ \E markers \in Seq(TranscriptEntry) :
              /\ ForceClose(markers)
              /\ \A i \in 1..Len(markers) : markers[i].kind # "line"
         \/ UNCHANGED lineVars /\ UNCHANGED recordVars
<1> DEFINE Done == \/ \E t \in Segment : Paint(t)
                   \/ \E markers \in Seq(TranscriptEntry) :
                        /\ ForceClose(markers)
                        /\ \A i \in 1..Len(markers) : markers[i].kind # "line"
                   \/ UNCHANGED lineVars /\ UNCHANGED recordVars
<1>1. ASSUME NEW t \in Segment, PublishLive(t) PROVE Done
  <2>1. CASE cutoffSet /\ ~Survives(t, confirmedCutoff)
    BY <1>1, <2>1 DEF PublishLive
  <2>2. CASE ~(cutoffSet /\ ~Survives(t, confirmedCutoff))
    <3>1. confirmedCutoff \in Int
      BY NumbersType
    <3>2. (IF cutoffSet THEN AfterMusic(t, confirmedCutoff) ELSE t) \in Segment
      BY <2>2, <3>1, AfterMusicType
    <3> QED
      BY <1>1, <2>2, <3>2 DEF PublishLive
  <2> QED
    BY <2>1, <2>2
<1>2. ASSUME NEW kind \in {"music", "silence"}, NEW at \in Nat,
             ForceClose(<<Marker(kind, at)>>)
      PROVE  Done
  <2>1. <<Marker(kind, at)>> \in Seq(TranscriptEntry)
    BY MarkersType
  <2>2. \A i \in 1..Len(<<Marker(kind, at)>>) : <<Marker(kind, at)>>[i].kind # "line"
    BY DEF Marker
  <2> QED
    BY <1>2, <2>1, <2>2
<1>3. ASSUME ForceClose(<<>>) PROVE Done
  <2>1. <<>> \in Seq(TranscriptEntry) /\ 1..Len(<<>>) = {}
    BY EmptySeq
  <2> QED
    BY <1>3, <2>1, Zenon
<1> HIDE DEF Done
<1>4. ASSUME NEW s \in Segments, Publish(s) PROVE Done
  <2> DEFINE t == [s EXCEPT !.n = arrived + 1]
  <2>1. t \in Segment
    <3>1. arrived + 1 \in Nat
      BY NumbersType
    <3>2. s \in Segment
      BY SegmentsAssumption DEF SegmentsAssumption
    <3> QED
      BY <3>1, <3>2 DEF Segment
  <2>2. CASE music /\ UNCHANGED <<lineVars, recordVars, wireVars>>
    BY <2>2 DEF Done
  <2>3. CASE PublishLive(t)
    BY <1>1, <2>1, <2>3
  <2> QED
    BY <1>4, <2>2, <2>3 DEF Publish
<1>5. ASSUME NEW at \in MusicTimes, SetMusicOn(at) PROVE Done
  <2>1. at \in Nat
    BY TimesAssumption DEF TimesAssumption
  <2>2. CASE ForceClose(<<Marker("music", at)>>)
    BY <1>2, <2>1, <2>2
  <2>3. CASE UNCHANGED <<music, confirmedCutoff, cutoffSet, lineVars, recordVars, wireVars>>
    BY <2>3 DEF Done
  <2> QED
    BY <1>5, <2>2, <2>3 DEF SetMusicOn
<1>6. ASSUME NEW state \in States, PublishStatus(state) PROVE Done
  <2>1. MaxOf(prevEnd, newestMedia) \in Nat
    BY NumbersType DEF MaxOf
  <2>2. CASE ForceClose(<<Marker("silence", MaxOf(prevEnd, newestMedia))>>)
    BY <1>2, <2>1, <2>2
  <2>3. CASE UNCHANGED <<lineVars, recordVars>>
    BY <2>3 DEF Done
  <2> QED
    BY <1>6, <2>2, <2>3 DEF PublishStatus
<1>7. ASSUME Clear \/ Flush PROVE Done
  BY <1>3, <1>7 DEF Clear, Flush
<1>8. ASSUME ReplayNext PROVE Done
  <2>1. PICK t \in replay : PublishLive(t)
    BY <1>8 DEF ReplayNext
  <2> QED
    BY <1>1, <2>1, TypeOKParts DEF RestType
<1>9. ASSUME \/ \E at \in MusicTimes : SetMusicOff(at)
             \/ ResetConnection
             \/ \E k \in armed : TimerFires(k)
             \/ \E k \in fired : ReleaseMusic(k)
             \/ \E c \in Clients : Subscribe(c) \/ Unsubscribe(c) \/ Receive(c)
             \/ UNCHANGED vars
      PROVE  Done
  BY <1>9 DEF Done, SetMusicOff, ResetConnection, TimerFires, ReleaseMusic, ReleaseAt, Subscribe, SubscribeWith,
              Unsubscribe, Receive, vars
<1>10. Done
  BY <1>4, <1>5, <1>6, <1>7, <1>8, <1>9 DEF Next
<1> QED
  BY <1>10 DEF Done

LEMMA PaintKeepsRecord ==
  ASSUME TypeOK, TranscriptIsWhatWasPainted, NEW t \in Segment, Paint(t)
  PROVE  TranscriptIsWhatWasPainted'
<1> DEFINE before == MustClose(committed, IsBreak(t) \/ SpeakerChanged(t))
           base   == IF before THEN <<>> ELSE committed
           text   == Append(base, t)
           after  == MustClose(text, FALSE)
           flushed == IF before THEN committed ELSE <<>>
           closed  == IF after THEN text ELSE <<>>
           open    == IF after THEN <<>> ELSE text
<1>1. committed \in Seq(Segment) /\ recorded \in Seq(Segment) /\ painted \in Seq(Segment)
  BY DEF TypeOK
<1>2. painted' = Append(painted, t) /\ committed' = open
      /\ recorded' = (recorded \o flushed) \o closed
  BY DEF Paint
<1>3. base \in Seq(Segment) /\ flushed \in Seq(Segment)
  BY <1>1, EmptySeq
<1>4. text = base \o <<t>>
  BY <1>3, AppendIsConcat
<1>5. <<t>> \in Seq(Segment)
  OBVIOUS
<1>6. closed \o open = text /\ closed \in Seq(Segment) /\ open \in Seq(Segment)
      /\ text \in Seq(Segment)
  <2>1. text \in Seq(Segment)
    BY <1>3, AppendProperties
  <2> HIDE DEF text, after
  <2> QED
    BY <2>1, ConcatEmptySeq, EmptySeq
<1>7. flushed \o base = committed
  BY <1>1, ConcatEmptySeq
<1>8. painted' = (recorded \o committed) \o <<t>>
  BY <1>1, <1>2, AppendIsConcat DEF TranscriptIsWhatWasPainted
<1> HIDE DEF before, base, text, after, flushed, closed, open
<1>9. ((recorded \o flushed) \o closed) \o open = (recorded \o flushed) \o text
  <2>1. recorded \o flushed \in Seq(Segment)
    BY <1>1, <1>3, ConcatProperties
  <2>2. ((recorded \o flushed) \o closed) \o open
        = (recorded \o flushed) \o (closed \o open)
    <3>1. closed \in Seq(Segment) /\ open \in Seq(Segment)
      BY <1>6
    <3> DEFINE past == recorded \o flushed
    <3> HIDE DEF past
    <3>2. (past \o closed) \o open = past \o (closed \o open)
      BY <2>1, <3>1, ConcatAssociative DEF past
    <3> QED
      BY <3>2 DEF past
  <2> QED
    BY <1>6, <2>2
<1>10. (recorded \o flushed) \o text = ((recorded \o flushed) \o base) \o <<t>>
  <2>1. recorded \o flushed \in Seq(Segment)
    BY <1>1, <1>3, ConcatProperties
  <2> QED
    BY <1>3, <1>4, <1>5, <2>1, ConcatAssociative
<1>11. (recorded \o flushed) \o base = recorded \o committed
  <2>1. (recorded \o flushed) \o base = recorded \o (flushed \o base)
    BY <1>1, <1>3, ConcatAssociative
  <2> QED
    BY <1>7, <2>1
<1> QED
  BY <1>2, <1>8, <1>9, <1>10, <1>11 DEF TranscriptIsWhatWasPainted

LEMMA ForceCloseKeepsRecord ==
  ASSUME TypeOK, TranscriptIsWhatWasPainted,
         NEW markers \in Seq(TranscriptEntry), ForceClose(markers)
  PROVE  TranscriptIsWhatWasPainted'
<1>1. committed \in Seq(Segment) /\ recorded \in Seq(Segment)
  BY DEF TypeOK
<1>2. recorded' = recorded \o committed /\ committed' = <<>> /\ painted' = painted
  BY DEF ForceClose
<1>3. (recorded \o committed) \o <<>> = recorded \o committed
  BY <1>1, ConcatProperties, ConcatEmptySeq
<1> QED
  BY <1>2, <1>3 DEF TranscriptIsWhatWasPainted

(* The transcript, with the open line, is exactly what viewers were sent,   *)
(* each segment once and in order (publish and every forced close).         *)
THEOREM TranscriptMatchesScreen == Spec => []TranscriptIsWhatWasPainted
<1>1. Init => TranscriptIsWhatWasPainted
  <2>1. <<>> = <<>> \o <<>>
    BY EmptySeq, ConcatEmptySeq
  <2> QED
    BY <2>1 DEF Init, TranscriptIsWhatWasPainted
<1>2. TypeOK /\ TranscriptIsWhatWasPainted /\ [Next]_vars
      => TranscriptIsWhatWasPainted'
  <2> SUFFICES ASSUME TypeOK, TranscriptIsWhatWasPainted, [Next]_vars
               PROVE  TranscriptIsWhatWasPainted'
    OBVIOUS
  <2>1. CASE UNCHANGED lineVars /\ UNCHANGED recordVars
    BY <2>1 DEF lineVars, recordVars, TranscriptIsWhatWasPainted
  <2> QED
    BY <2>1, LineSteps, PaintKeepsRecord, ForceCloseKeepsRecord
<1> QED
  BY <1>1, <1>2, TypeCorrect, PTL DEF Spec
-----------------------------------------------------------------------------
(***************************************************************************)
(* Who speaks in a transcript line.                                         *)
(***************************************************************************)

(* Only the words of one known speaker, or of nobody known.                 *)
SpokenBy(text, who) == \A i \in 1..Len(text) : text[i].speaker \in {0, who}

Voiced(entries) ==
  \A i \in 1..Len(entries) :
    entries[i].kind = "line" => OneVoice(entries[i].text, entries[i].speaker)

(* The inductive form: the open line holds words of the last speaker heard  *)
(* only, and is stamped with that speaker or with none.                     *)
VoiceInv ==
  /\ committed # <<>> => /\ SpokenBy(committed, lastSpeaker)
                         /\ uttSpeaker \in {0, lastSpeaker}
  /\ Voiced(transcript)

LEMMA SpokenIsOneVoice ==
  ASSUME NEW text, NEW who, NEW stamp \in {0, who}, SpokenBy(text, who)
  PROVE  OneVoice(text, stamp)
BY DEF SpokenBy, OneVoice

LEMMA VoicedConcat ==
  ASSUME NEW S \in Seq(TranscriptEntry), NEW T \in Seq(TranscriptEntry),
         Voiced(S), Voiced(T)
  PROVE  Voiced(S \o T) /\ S \o T \in Seq(TranscriptEntry)
<1>1. /\ S \o T \in Seq(TranscriptEntry)
      /\ Len(S \o T) = Len(S) + Len(T)
      /\ \A i \in 1..Len(S) + Len(T) :
           (S \o T)[i] = IF i <= Len(S) THEN S[i] ELSE T[i - Len(S)]
  BY ConcatProperties
<1>2. Len(S) \in Nat /\ Len(T) \in Nat
  BY LenProperties
<1> SUFFICES ASSUME NEW i \in 1..Len(S \o T), (S \o T)[i].kind = "line"
             PROVE  OneVoice((S \o T)[i].text, (S \o T)[i].speaker)
  BY <1>1 DEF Voiced
<1>3. CASE i <= Len(S)
  BY <1>1, <1>2, <1>3 DEF Voiced
<1>4. CASE ~(i <= Len(S))
  <2>1. i - Len(S) \in 1..Len(T) /\ (S \o T)[i] = T[i - Len(S)]
    BY <1>1, <1>2, <1>4
  <2> QED
    BY <2>1 DEF Voiced
<1> QED
  BY <1>3, <1>4

LEMMA NoLineVoiced == Voiced(<<>>) /\ <<>> \in Seq(TranscriptEntry)
<1>1. Len(<<>>) = 0
  BY EmptySeq
<1> QED
  BY <1>1, EmptySeq DEF Voiced

LEMMA OneLineVoiced ==
  ASSUME NEW text \in Seq(Segment), NEW start \in Nat, NEW who \in Nat,
         NEW end \in Nat, NEW endOK \in BOOLEAN, OneVoice(text, who)
  PROVE  /\ Voiced(<<Line(text, start, who, end, endOK)>>)
         /\ <<Line(text, start, who, end, endOK)>> \in Seq(TranscriptEntry)
<1>1. Line(text, start, who, end, endOK) \in TranscriptEntry
  BY LineInEntries
<1>2. Line(text, start, who, end, endOK).text = text
      /\ Line(text, start, who, end, endOK).speaker = who
  BY DEF Line
<1> QED
  BY <1>1, <1>2 DEF Voiced

(* One more segment in the line: publish closed the line before it unless   *)
(* the speaker may be the same.                                             *)
LEMMA SpokenAppend ==
  ASSUME NEW text \in Seq(Segment), NEW t \in Segment, NEW who \in Nat,
         text # <<>> => SpokenBy(text, who),
         text # <<>> => who = 0 \/ t.speaker = 0 \/ t.speaker = who
  PROVE  SpokenBy(Append(text, t), IF t.speaker # 0 THEN t.speaker ELSE who)
<1> DEFINE last == IF t.speaker # 0 THEN t.speaker ELSE who
<1>1. Len(text) \in Nat /\ Len(Append(text, t)) = Len(text) + 1
      /\ (\A i \in 1..Len(text) : Append(text, t)[i] = text[i])
      /\ Append(text, t)[Len(text) + 1] = t
  BY AppendProperties, LenProperties
<1>2. ASSUME NEW i \in 1..Len(text) PROVE text[i].speaker \in {0, last}
  <2>1. text # <<>>
    BY EmptySeq
  <2> QED
    BY <2>1 DEF SpokenBy
<1>3. t.speaker \in {0, last}
  OBVIOUS
<1>4. \A i \in 1..Len(text) + 1 : i \in 1..Len(text) \/ i = Len(text) + 1
  BY <1>1
<1> HIDE DEF last
<1>5. SpokenBy(Append(text, t), last)
  BY <1>1, <1>2, <1>3, <1>4 DEF SpokenBy
<1> QED
  BY <1>5 DEF last

LEMMA PaintKeepsVoice ==
  ASSUME TypeOK, VoiceInv, NEW t \in Segment, Paint(t)
  PROVE  VoiceInv'
<1> DEFINE before == MustClose(committed, IsBreak(t) \/ SpeakerChanged(t))
           base   == IF before THEN <<>> ELSE committed
           text   == Append(base, t)
           start  == IF base = <<>> THEN t.start ELSE uttStart
           who    == IF base = <<>> THEN t.speaker ELSE uttSpeaker
           after  == MustClose(text, FALSE)
           last   == IF t.speaker # 0 THEN t.speaker ELSE lastSpeaker
           flushed == IF before THEN <<OpenLine>> ELSE <<>>
           closed  == IF after THEN <<Line(text, start, who, End(t), t.dur > 0)>>
                               ELSE <<>>
<1>1. /\ committed \in Seq(Segment) /\ uttStart \in Nat /\ uttSpeaker \in Nat
      /\ uttEnd \in Nat /\ lastSpeaker \in Nat /\ uttEndOK \in BOOLEAN
      /\ transcript \in Seq(TranscriptEntry)
  BY TypeOKParts DEF LineType, RecordType
<1>2. /\ t.speaker \in Nat /\ t.start \in Nat /\ End(t) \in Nat
      /\ (t.dur > 0) \in BOOLEAN
  BY DEF Segment, End
<1>3. /\ committed' = IF after THEN <<>> ELSE text
      /\ uttSpeaker' = who /\ lastSpeaker' = last
      /\ transcript' = (transcript \o flushed) \o closed
  BY DEF Paint
<1>4. base \in Seq(Segment) /\ text \in Seq(Segment)
  <2>1. base \in Seq(Segment)
    BY <1>1, EmptySeq
  <2> QED
    BY <2>1, AppendProperties
<1>5. base # <<>> => /\ base = committed /\ SpokenBy(base, lastSpeaker)
                     /\ uttSpeaker \in {0, lastSpeaker}
                     /\ lastSpeaker = 0 \/ t.speaker = 0 \/ t.speaker = lastSpeaker
  BY DEF VoiceInv, MustClose, SpeakerChanged
<1>6. SpokenBy(text, last)
  <2> HIDE DEF base
  <2> QED
    BY <1>1, <1>4, <1>5, SpokenAppend
<1>7. who \in {0, last} /\ who \in Nat /\ start \in Nat
  <2> HIDE DEF base
  <2> QED
    BY <1>1, <1>2, <1>5
<1>8. Voiced(flushed) /\ flushed \in Seq(TranscriptEntry)
  <2>1. CASE before
    <3>1. committed # <<>>
      BY <2>1 DEF MustClose
    <3>2. OneVoice(committed, uttSpeaker)
      BY <3>1, SpokenIsOneVoice DEF VoiceInv
    <3> QED
      BY <1>1, <2>1, <3>2, OneLineVoiced DEF OpenLine
  <2>2. CASE ~before
    BY <2>2, NoLineVoiced
  <2> QED
    BY <2>1, <2>2
<1> HIDE DEF before, base, text, start, who, after, last, flushed
<1>9. Voiced(closed) /\ closed \in Seq(TranscriptEntry)
  <2>1. CASE after
    <3>1. OneVoice(text, who)
      BY <1>6, <1>7, SpokenIsOneVoice
    <3> QED
      BY <1>2, <1>4, <1>7, <2>1, <3>1, OneLineVoiced
  <2>2. CASE ~after
    BY <2>2, NoLineVoiced
  <2> QED
    BY <2>1, <2>2
<1> HIDE DEF closed
<1>10. Voiced((transcript \o flushed) \o closed)
  <2>1. Voiced(transcript \o flushed) /\ transcript \o flushed \in Seq(TranscriptEntry)
    BY <1>1, <1>8, VoicedConcat DEF VoiceInv
  <2> DEFINE past == transcript \o flushed
  <2> HIDE DEF past
  <2>2. Voiced(past \o closed)
    BY <1>9, <2>1, VoicedConcat DEF past
  <2> QED
    BY <2>2 DEF past
<1>11. SpokenBy(committed', lastSpeaker') \/ committed' = <<>>
  BY <1>3, <1>6
<1> QED
  BY <1>3, <1>7, <1>10, <1>11 DEF VoiceInv, Voiced, SpokenBy

LEMMA ForceCloseKeepsVoice ==
  ASSUME TypeOK, VoiceInv, NEW markers \in Seq(TranscriptEntry),
         \A i \in 1..Len(markers) : markers[i].kind # "line", ForceClose(markers)
  PROVE  VoiceInv'
<1> DEFINE closed == IF committed = <<>> THEN <<>> ELSE <<OpenLine>>
<1>1. /\ committed \in Seq(Segment) /\ uttStart \in Nat /\ uttSpeaker \in Nat
      /\ uttEnd \in Nat /\ uttEndOK \in BOOLEAN
      /\ transcript \in Seq(TranscriptEntry)
  BY TypeOKParts DEF LineType, RecordType
<1>2. committed' = <<>> /\ transcript' = (transcript \o closed) \o markers
  BY DEF ForceClose
<1>3. Voiced(closed) /\ closed \in Seq(TranscriptEntry)
  <2>1. CASE committed = <<>>
    BY <2>1, NoLineVoiced
  <2>2. CASE committed # <<>>
    <3>1. OneVoice(committed, uttSpeaker)
      BY <2>2, SpokenIsOneVoice DEF VoiceInv
    <3> QED
      BY <1>1, <2>2, <3>1, OneLineVoiced DEF OpenLine
  <2> QED
    BY <2>1, <2>2
<1>4. Voiced(markers)
  BY DEF Voiced
<1> HIDE DEF closed
<1>5. Voiced((transcript \o closed) \o markers)
  <2>1. Voiced(transcript \o closed) /\ transcript \o closed \in Seq(TranscriptEntry)
    BY <1>1, <1>3, VoicedConcat DEF VoiceInv
  <2> DEFINE past == transcript \o closed
  <2> HIDE DEF past
  <2>2. Voiced(past \o markers)
    BY <1>4, <2>1, VoicedConcat DEF past
  <2> QED
    BY <2>2 DEF past
<1> QED
  BY <1>2, <1>5 DEF VoiceInv, Voiced

(* No transcript line mixes two known speakers, and a stamped line holds    *)
(* nobody else's words: publish closes the open line whenever the speaker   *)
(* changes, and lastSpeaker, not the stamp, is what it compares with.       *)
THEOREM LinesHaveOneVoice == Spec => []OneVoicePerLine
<1>1. Init => VoiceInv
  BY NoLineVoiced DEF Init, VoiceInv
<1>2. TypeOK /\ VoiceInv /\ [Next]_vars => VoiceInv'
  <2> SUFFICES ASSUME TypeOK, VoiceInv, [Next]_vars PROVE VoiceInv'
    OBVIOUS
  <2>1. CASE UNCHANGED lineVars /\ UNCHANGED recordVars
    BY <2>1 DEF lineVars, recordVars, VoiceInv, Voiced, SpokenBy
  <2> QED
    BY <2>1, LineSteps, PaintKeepsVoice, ForceCloseKeepsVoice
<1>3. VoiceInv => OneVoicePerLine
  BY SpokenIsOneVoice DEF VoiceInv, Voiced, OneVoicePerLine
<1> QED
  BY <1>1, <1>2, <1>3, TypeCorrect, PTL DEF Spec
-----------------------------------------------------------------------------
(* What a viewer will show, from its channel and what it shows now.         *)
Hits(box, kind) == {i \in 1..Len(box) : box[i].kind = kind}

Latest(box, was, kind) ==
  IF Hits(box, kind) = {} THEN was
  ELSE box[CHOOSE i \in Hits(box, kind) : \A j \in Hits(box, kind) : j <= i].detail

LEMMA LatestIs ==
  ASSUME NEW box, Len(box) \in Nat, NEW was, NEW kind, NEW i \in Hits(box, kind),
         \A j \in Hits(box, kind) : j <= i
  PROVE  Latest(box, was, kind) = box[i].detail
<1> DEFINE m == CHOOSE m \in Hits(box, kind) : \A j \in Hits(box, kind) : j <= m
<1>1. m \in Hits(box, kind) /\ \A j \in Hits(box, kind) : j <= m
  OBVIOUS
<1>2. Latest(box, was, kind) = box[m].detail
  BY DEF Latest
<1> HIDE DEF m
<1>3. m <= i /\ i <= m /\ m \in Nat /\ i \in Nat
  BY <1>1 DEF Hits
<1>4. m = i
  BY <1>3
<1> QED
  BY <1>2, <1>4

LEMMA LatestAppended ==
  ASSUME NEW box \in Seq(Event), NEW ev \in Event, NEW was, NEW kind
  PROVE  Latest(Append(box, ev), was, kind) =
           IF ev.kind = kind THEN ev.detail ELSE Latest(box, was, kind)
<1> DEFINE all == Append(box, ev)
           n == Len(box)
<1>1. /\ n \in Nat /\ Len(all) = n + 1 /\ all[n + 1] = ev
      /\ \A i \in 1..n : all[i] = box[i]
  BY AppendProperties, LenProperties
<1> HIDE DEF all
<1>2. CASE ev.kind = kind
  <2>1. n + 1 \in Hits(all, kind) /\ \A j \in Hits(all, kind) : j <= n + 1
    BY <1>1, <1>2 DEF Hits
  <2>2. Len(all) \in Nat
    BY <1>1
  <2>3. Latest(all, was, kind) = all[n + 1].detail
    BY <2>1, <2>2, LatestIs
  <2> QED
    BY <1>1, <1>2, <2>3 DEF all
<1>3. CASE ev.kind # kind
  <2>1. Hits(all, kind) = Hits(box, kind)
    BY <1>1, <1>3 DEF Hits
  <2>2. CASE Hits(box, kind) = {}
    BY <1>3, <2>1, <2>2 DEF Latest, all
  <2>3. CASE Hits(box, kind) # {}
    <3>1. Hits(box, kind) \subseteq 1..n
      BY DEF Hits
    <3>2. PICK i \in Hits(box, kind) : \A j \in Hits(box, kind) : j <= i
      BY <1>1, <2>3, <3>1, GreatestPlace
    <3>3. Latest(box, was, kind) = box[i].detail
      BY <1>1, <3>2, LatestIs
    <3>4. Len(all) \in Nat /\ all[i] = box[i]
      BY <1>1, <3>1, <3>2
    <3>5. Latest(all, was, kind) = all[i].detail
      BY <2>1, <3>2, <3>4, LatestIs
    <3> QED
      BY <1>3, <3>3, <3>4, <3>5 DEF all
  <2> QED
    BY <2>2, <2>3
<1> QED
  BY <1>2, <1>3

LEMMA LatestTaken ==
  ASSUME NEW box \in Seq(Event), box # <<>>, NEW was, NEW kind
  PROVE  Latest(Tail(box), IF Head(box).kind = kind THEN Head(box).detail ELSE was, kind)
           = Latest(box, was, kind)
<1> DEFINE rest == Tail(box)
           now == IF Head(box).kind = kind THEN Head(box).detail ELSE was
           n == Len(rest)
<1>1. /\ n \in Nat /\ Len(box) = n + 1 /\ Head(box) = box[1]
      /\ \A i \in 1..n : rest[i] = box[i + 1]
  <2>1. rest \in Seq(Event) /\ Len(rest) = Len(box) - 1 /\ Head(box) = box[1]
        /\ \A i \in 1..Len(rest) : rest[i] = box[i + 1]
    BY HeadTailProperties
  <2>2. n \in Nat /\ Len(box) \in Nat
    BY <2>1, LenProperties
  <2> QED
    BY <2>1, <2>2
<1> HIDE DEF rest
<1>2. CASE Hits(rest, kind) = {}
  <2>1. Latest(rest, now, kind) = now
    BY <1>2 DEF Latest
  <2>2. \A j \in Hits(box, kind) : j = 1
    <3> TAKE j \in Hits(box, kind)
    <3>1. j \in 1..(n + 1) /\ box[j].kind = kind
      BY <1>1 DEF Hits
    <3>2. CASE j # 1
      <4>1. j - 1 \in 1..n /\ (j - 1) + 1 = j
        BY <1>1, <3>1, <3>2
      <4>2. rest[j - 1].kind = kind
        BY <1>1, <3>1, <4>1
      <4> QED
        BY <1>2, <4>1, <4>2 DEF Hits
    <3> QED
      BY <3>2
  <2>3. CASE Head(box).kind = kind
    <3>1. 1 \in Hits(box, kind) /\ \A j \in Hits(box, kind) : j <= 1
      BY <1>1, <2>2, <2>3 DEF Hits
    <3>2. Latest(box, was, kind) = box[1].detail
      BY <1>1, <3>1, LatestIs
    <3> QED
      BY <1>1, <2>1, <2>3, <3>2 DEF rest
  <2>4. CASE Head(box).kind # kind
    <3>1. Hits(box, kind) = {}
      BY <1>1, <2>2, <2>4 DEF Hits
    <3> QED
      BY <2>1, <2>4, <3>1 DEF Latest, rest
  <2> QED
    BY <2>3, <2>4
<1>3. CASE Hits(rest, kind) # {}
  <2>1. Hits(rest, kind) \subseteq 1..n
    BY DEF Hits
  <2>2. PICK i \in Hits(rest, kind) : \A j \in Hits(rest, kind) : j <= i
    BY <1>1, <1>3, <2>1, GreatestPlace
  <2>3. Latest(rest, now, kind) = rest[i].detail
    BY <1>1, <2>2, LatestIs
  <2>4. i \in 1..n /\ i + 1 \in Hits(box, kind) /\ rest[i] = box[i + 1]
    <3>1. i \in 1..n /\ rest[i].kind = kind
      BY <2>2 DEF Hits
    <3>2. i + 1 \in 1..(n + 1)
      BY <1>1, <3>1
    <3> QED
      BY <1>1, <3>1, <3>2 DEF Hits
  <2>5. \A j \in Hits(box, kind) : j <= i + 1
    <3> TAKE j \in Hits(box, kind)
    <3>1. j \in 1..(n + 1) /\ box[j].kind = kind
      BY <1>1 DEF Hits
    <3>2. CASE j # 1
      <4>1. j - 1 \in 1..n /\ (j - 1) + 1 = j
        BY <1>1, <3>1, <3>2
      <4>2. j - 1 \in Hits(rest, kind)
        BY <1>1, <3>1, <4>1 DEF Hits
      <4>3. j - 1 <= i
        BY <2>2, <4>2
      <4> QED
        BY <2>4, <3>1, <4>3
    <3> QED
      BY <2>4, <3>1, <3>2
  <2>6. Latest(box, was, kind) = box[i + 1].detail
    BY <1>1, <2>4, <2>5, LatestIs
  <2> QED
    BY <2>3, <2>4, <2>6 DEF rest
<1> QED
  BY <1>2, <1>3

(* The two indicators of the hub, and a viewer that will show them.         *)
Sign == IF music THEN "on" ELSE "off"

Agrees(c) ==
  /\ Latest(inbox[c], shown[c]["status"], "status") = lastState
  /\ Latest(inbox[c], shown[c]["music"], "music") = Sign

LEMMA AgreeingViewers ==
  /\ ViewersAgree <=> \A c \in subs \ lost : Agrees(c)
  /\ ViewersAgree' <=> \A c \in subs' \ lost' : Agrees(c)'
BY DEF ViewersAgree, Agrees, WillShow, Latest, Hits, Sign

LEMMA QuietWire ==
  ASSUME ViewersAgree, UNCHANGED <<subs, lost, inbox, shown, lastState, music>>
  PROVE  ViewersAgree'
<1>1. Sign' = Sign
  BY DEF Sign
<1>2. ASSUME NEW c \in subs' \ lost' PROVE Agrees(c)'
  <2>1. Agrees(c)
    BY <1>2, AgreeingViewers
  <2> QED
    BY <1>1, <2>1 DEF Agrees
<1> QED
  BY <1>2, AgreeingViewers

(* A broadcast tells every viewer that does not miss it.                    *)
LEMMA BroadcastTells ==
  ASSUME TypeOK, ViewersAgree, NEW kind \in Kinds, NEW detail \in Details(kind),
         Broadcast(kind, detail), UNCHANGED <<subs, shown>>,
         lastState' = IF kind = "status" THEN detail ELSE lastState,
         Sign' = IF kind = "music" THEN detail ELSE Sign
  PROVE  ViewersAgree'
<1> DEFINE ev == [seq |-> seq + 1, kind |-> kind, detail |-> detail]
<1>1. /\ seq \in Nat /\ inbox \in [Clients -> Seq(Event)] /\ subs \subseteq Clients
  BY DEF TypeOK
<1>2. ev \in Event
  <2>1. seq + 1 \in Nat
    BY <1>1
  <2> QED
    BY <2>1, EventType
<1>3. /\ inbox' = [c \in Clients |-> IF c \in subs /\ ~Full(c)
                                     THEN Append(inbox[c], ev) ELSE inbox[c]]
      /\ lost' = lost \cup {c \in subs : Full(c)}
  BY DEF Broadcast
<1>4. ev.kind = kind /\ ev.detail = detail
  OBVIOUS
<1> HIDE DEF ev
<1>5. ASSUME NEW c \in subs' \ lost' PROVE Agrees(c)'
  <2>1. c \in subs \ lost /\ c \in Clients /\ ~Full(c)
    BY <1>1, <1>3
  <2>2. inbox'[c] = Append(inbox[c], ev) /\ shown'[c] = shown[c]
    BY <1>3, <2>1
  <2>3. inbox[c] \in Seq(Event)
    BY <1>1, <2>1
  <2>4. \A was : /\ Latest(Append(inbox[c], ev), was, "status")
                      = IF kind = "status" THEN detail ELSE Latest(inbox[c], was, "status")
                 /\ Latest(Append(inbox[c], ev), was, "music")
                      = IF kind = "music" THEN detail ELSE Latest(inbox[c], was, "music")
    BY <1>2, <1>4, <2>3, LatestAppended
  <2>5. Agrees(c)
    BY <2>1, AgreeingViewers
  <2>6. Latest(inbox'[c], shown'[c]["status"], "status") = lastState'
    BY <2>2, <2>4, <2>5 DEF Agrees
  <2>7. Latest(inbox'[c], shown'[c]["music"], "music") = Sign'
    BY <2>2, <2>4, <2>5 DEF Agrees
  <2> QED
    BY <2>6, <2>7 DEF Agrees
<1> QED
  BY <1>5, AgreeingViewers

(* A new viewer is told both indicators first.                              *)
LEMMA SubscribeTells ==
  ASSUME TypeOK, ViewersAgree, NEW c \in Clients, Subscribe(c)
  PROVE  ViewersAgree'
<1> DEFINE sts == [seq |-> seq + 1, kind |-> "status", detail |-> lastState]
           mus == [seq |-> seq + 2, kind |-> "music", detail |-> Sign]
<1>1. /\ inbox \in [Clients -> Seq(Event)] /\ subs \subseteq Clients
  BY DEF TypeOK
<1>2. /\ subs' = subs \cup {c} /\ inbox' = [inbox EXCEPT ![c] = <<sts, mus>>]
      /\ UNCHANGED <<lost, shown, lastState, music>>
  BY DEF Subscribe, SubscribeWith, StatusSnapshot, MusicSnapshot, Sign, musicVars
<1>3. sts.kind = "status" /\ sts.detail = lastState /\ mus.kind = "music" /\ mus.detail = Sign
  OBVIOUS
<1> HIDE DEF sts, mus
<1>4. Sign' = Sign
  BY <1>2 DEF Sign
<1>5. ASSUME NEW d \in subs' \ lost' PROVE Agrees(d)'
  <2>1. CASE d = c
    <3> DEFINE box == <<sts, mus>>
    <3>1. inbox'[c] = box
      BY <1>1, <1>2
    <3>2. Len(box) = 2 /\ box[1] = sts /\ box[2] = mus
      OBVIOUS
    <3> HIDE DEF box
    <3>3. 1 \in Hits(box, "status") /\ \A j \in Hits(box, "status") : j <= 1
      BY <1>3, <3>2 DEF Hits
    <3>4. 2 \in Hits(box, "music") /\ \A j \in Hits(box, "music") : j <= 2
      BY <1>3, <3>2 DEF Hits
    <3>5. \A was : Latest(box, was, "status") = lastState /\ Latest(box, was, "music") = Sign
      BY <1>3, <3>2, <3>3, <3>4, LatestIs
    <3> QED
      BY <1>2, <1>4, <2>1, <3>1, <3>5 DEF Agrees
  <2>2. CASE d # c
    <3>1. d \in subs \ lost /\ inbox'[d] = inbox[d] /\ shown'[d] = shown[d]
      BY <1>1, <1>2, <2>2
    <3>2. Agrees(d)
      BY <3>1, AgreeingViewers
    <3> QED
      BY <1>2, <1>4, <3>1, <3>2 DEF Agrees
  <2> QED
    BY <2>1, <2>2
<1> QED
  BY <1>5, AgreeingViewers

(* What a viewer takes off its channel, it shows.                           *)
LEMMA ReceiveShows ==
  ASSUME TypeOK, ViewersAgree, NEW c \in Clients, Receive(c)
  PROVE  ViewersAgree'
<1> DEFINE ev == Head(inbox[c])
<1>1. /\ inbox \in [Clients -> Seq(Event)] /\ subs \subseteq Clients
      /\ shown \in [Clients -> Indicators]
  BY DEF TypeOK
<1>2. /\ inbox[c] # <<>>
      /\ shown' = IF ev.kind \in {"status", "music"}
                  THEN [shown EXCEPT ![c][ev.kind] = ev.detail] ELSE shown
      /\ inbox' = [inbox EXCEPT ![c] = Tail(inbox[c])]
      /\ UNCHANGED <<subs, lost, lastState, music>>
  BY DEF Receive, musicVars
<1>3. Sign' = Sign
  BY <1>2 DEF Sign
<1>4. /\ shown'[c]["status"] = IF ev.kind = "status" THEN ev.detail ELSE shown[c]["status"]
      /\ shown'[c]["music"] = IF ev.kind = "music" THEN ev.detail ELSE shown[c]["music"]
  <2> HIDE DEF ev
  <2>0. shown[c] \in Indicators
    BY <1>1
  <2>1. CASE ev.kind = "status"
    <3>1. shown' = [shown EXCEPT ![c] = [shown[c] EXCEPT !["status"] = ev.detail]]
      BY <1>2, <2>1
    <3> QED
      BY <1>1, <2>0, <2>1, <3>1 DEF Indicators
  <2>2. CASE ev.kind = "music"
    <3>1. shown' = [shown EXCEPT ![c] = [shown[c] EXCEPT !["music"] = ev.detail]]
      BY <1>2, <2>2
    <3> QED
      BY <1>1, <2>0, <2>2, <3>1 DEF Indicators
  <2>3. CASE ev.kind \notin {"status", "music"}
    BY <1>2, <2>3
  <2> QED
    BY <2>1, <2>2, <2>3
<1>5. \A d \in Clients : d # c => inbox'[d] = inbox[d] /\ shown'[d] = shown[d]
  <2> HIDE DEF ev
  <2>1. \A d \in Clients : d # c => inbox'[d] = inbox[d]
    BY <1>1, <1>2
  <2>2. \A d \in Clients : d # c => shown'[d] = shown[d]
    BY <1>1, <1>2
  <2> QED
    BY <2>1, <2>2
<1>6. ASSUME NEW d \in subs' \ lost' PROVE Agrees(d)'
  <2>1. d \in subs \ lost /\ d \in Clients /\ Agrees(d)
    BY <1>1, <1>2, AgreeingViewers
  <2>2. CASE d = c
    <3>1. inbox'[c] = Tail(inbox[c]) /\ inbox[c] \in Seq(Event)
      BY <1>1, <1>2
    <3>2. \A was, kind :
            Latest(Tail(inbox[c]), IF ev.kind = kind THEN ev.detail ELSE was, kind)
              = Latest(inbox[c], was, kind)
      BY <1>2, <3>1, LatestTaken
    <3> HIDE DEF ev
    <3>3. Latest(inbox'[c], shown'[c]["status"], "status") = lastState
      BY <1>4, <2>1, <2>2, <3>1, <3>2, Zenon DEF Agrees
    <3>4. Latest(inbox'[c], shown'[c]["music"], "music") = Sign
      BY <1>4, <2>1, <2>2, <3>1, <3>2, Zenon DEF Agrees
    <3> QED
      BY <1>2, <1>3, <2>2, <3>3, <3>4 DEF Agrees
  <2>3. CASE d # c
    <3>1. inbox'[d] = inbox[d] /\ shown'[d] = shown[d]
      BY <1>5, <2>1, <2>3
    <3> QED
      BY <1>2, <1>3, <2>1, <3>1 DEF Agrees
  <2> QED
    BY <2>2, <2>3
<1> QED
  BY <1>6, AgreeingViewers

(* A viewer that missed no event ends up with the hub's indicators, whenever *)
(* it joined and whatever is still in its channel (hub.go Subscribe,        *)
(* broadcast).                                                              *)
THEOREM ViewersCatchUp == Spec => []ViewersAgree
<1>1. Init => ViewersAgree
  BY DEF Init, ViewersAgree
<1>2. TypeOK /\ ViewersAgree /\ [Next]_vars => ViewersAgree'
  <2> SUFFICES ASSUME TypeOK, ViewersAgree, [Next]_vars PROVE ViewersAgree'
    OBVIOUS
  <2>0. "caption" \in Kinds /\ "status" \in Kinds /\ "music" \in Kinds /\ "clear" \in Kinds
    BY DEF Kinds
  <2>1. ASSUME NEW t, PublishLive(t), UNCHANGED <<subs, shown, lastState, music>>
        PROVE  ViewersAgree'
    <3>1. CASE UNCHANGED wireVars
      BY <2>1, <3>1, QuietWire DEF wireVars
    <3>2. ASSUME NEW u, Paint(u) PROVE ViewersAgree'
      <4>1. PICK detail : detail \in Details("caption") /\ Broadcast("caption", detail)
        BY <3>2 DEF Paint, Details
      <4>2. lastState' = lastState /\ Sign' = Sign /\ UNCHANGED <<subs, shown>>
        BY <2>1 DEF Sign
      <4> QED
        BY <2>0, <4>1, <4>2, BroadcastTells
    <3> QED
      BY <2>1, <3>1, <3>2 DEF PublishLive
  <2>2. ASSUME NEW s \in Segments, Publish(s) PROVE ViewersAgree'
    <3>1. CASE UNCHANGED wireVars
      BY <2>2, <3>1, QuietWire DEF Publish, wireVars, clientVars, Hold, musicVars
    <3>2. CASE PublishLive([s EXCEPT !.n = arrived + 1]) /\ UNCHANGED musicVars
      BY <2>1, <2>2, <3>2 DEF Publish, clientVars, musicVars
    <3> QED
      BY <2>2, <3>1, <3>2 DEF Publish
  <2>3. ASSUME NEW at \in MusicTimes, SetMusicOn(at) PROVE ViewersAgree'
    <3>1. CASE UNCHANGED wireVars /\ UNCHANGED music
      BY <2>3, <3>1, QuietWire DEF SetMusicOn, wireVars, clientVars
    <3>2. CASE Broadcast("music", "on") /\ music'
      <4>1. Sign' = "on" /\ "on" \in Details("music") /\ UNCHANGED <<subs, shown, lastState>>
        BY <2>3, <3>2 DEF SetMusicOn, clientVars, Sign, Details
      <4> QED
        BY <2>0, <3>2, <4>1, BroadcastTells
    <3> QED
      BY <2>3, <3>1, <3>2 DEF SetMusicOn
  <2>4. ASSUME ResetConnection PROVE ViewersAgree'
    <3>1. CASE UNCHANGED wireVars /\ ~music
      <4>1. music' = FALSE /\ music = FALSE
        BY <2>4, <3>1 DEF ResetConnection, TypeOK
      <4> QED
        BY <2>4, <3>1, <4>1, QuietWire DEF ResetConnection, wireVars, clientVars
    <3>2. CASE Broadcast("music", "off")
      <4>1. Sign' = "off" /\ "off" \in Details("music") /\ UNCHANGED <<subs, shown, lastState>>
        BY <2>4, <3>2 DEF ResetConnection, clientVars, Sign, Details
      <4> QED
        BY <2>0, <3>2, <4>1, BroadcastTells
    <3> QED
      BY <2>4, <3>1, <3>2 DEF ResetConnection
  <2>5. ASSUME NEW state \in States, PublishStatus(state) PROVE ViewersAgree'
    <3>1. /\ Broadcast("status", state) /\ lastState' = state /\ state \in Details("status")
          /\ UNCHANGED <<subs, shown, music>>
      BY <2>5 DEF PublishStatus, clientVars, musicVars, Details
    <3>2. Sign' = Sign
      BY <3>1 DEF Sign
    <3> QED
      BY <2>0, <3>1, <3>2, BroadcastTells
  <2>6. ASSUME Clear PROVE ViewersAgree'
    <3>1. Broadcast("clear", "") /\ "" \in Details("clear") /\ UNCHANGED <<subs, shown, lastState, music>>
      BY <2>6 DEF Clear, clientVars, Details
    <3>2. Sign' = Sign
      BY <3>1 DEF Sign
    <3> QED
      BY <2>0, <3>1, <3>2, BroadcastTells
  <2>7. ASSUME NEW k \in fired, ReleaseMusic(k) PROVE ViewersAgree'
    <3>1. CASE UNCHANGED wireVars /\ UNCHANGED music
      BY <2>7, <3>1, QuietWire DEF ReleaseMusic, ReleaseAt, wireVars, clientVars
    <3>2. CASE Broadcast("music", "off") /\ music' = FALSE
      <4>1. Sign' = "off" /\ "off" \in Details("music") /\ UNCHANGED <<subs, shown, lastState>>
        BY <2>7, <3>2 DEF ReleaseMusic, ReleaseAt, clientVars, Sign, Details
      <4> QED
        BY <2>0, <3>2, <4>1, BroadcastTells
    <3> QED
      BY <2>7, <3>1, <3>2 DEF ReleaseMusic, ReleaseAt
  <2>8. ASSUME ReplayNext PROVE ViewersAgree'
    BY <2>1, <2>8 DEF ReplayNext, clientVars, musicVars
  <2>9. ASSUME NEW c \in Clients, Unsubscribe(c) PROVE ViewersAgree'
    <3>1. /\ subs' = subs \ {c} /\ lost' = lost \ {c} /\ inbox' = [inbox EXCEPT ![c] = <<>>]
          /\ UNCHANGED <<shown, lastState, music>> /\ inbox \in [Clients -> Seq(Event)]
          /\ subs \subseteq Clients
      BY <2>9 DEF Unsubscribe, musicVars, TypeOK
    <3>2. ASSUME NEW d \in subs' \ lost' PROVE Agrees(d)'
      <4>1. d \in subs \ lost /\ inbox'[d] = inbox[d] /\ shown'[d] = shown[d]
        BY <3>1
      <4>2. Agrees(d) /\ Sign' = Sign /\ lastState' = lastState
        BY <3>1, <4>1, AgreeingViewers DEF Sign
      <4> QED
        BY <4>1, <4>2 DEF Agrees
    <3> QED
      BY <3>2, AgreeingViewers
  <2>10. ASSUME \/ \E at \in MusicTimes : SetMusicOff(at)
                \/ Flush
                \/ \E k \in armed : TimerFires(k)
                \/ UNCHANGED vars
         PROVE  ViewersAgree'
    BY <2>10, QuietWire DEF SetMusicOff, Flush, TimerFires, vars, wireVars, clientVars, musicVars
  <2> QED
    BY <2>2, <2>3, <2>4, <2>5, <2>6, <2>7, <2>8, <2>9, <2>10, SubscribeTells, ReceiveShows DEF Next
<1> QED
  BY <1>1, <1>2, TypeCorrect, PTL DEF Spec
-----------------------------------------------------------------------------
(* Music.                                                                   *)

(* The frozen screen is inductive: one step for every action.               *)
LEMMA FrozenStep ==
  ASSUME TypeOK, FrozenWhileMusic, [Next]_vars
  PROVE  FrozenWhileMusic'
<1> USE DEF FrozenWhileMusic, musicVars, timerVars
<1>1. ASSUME NEW s \in Segments, Publish(s) PROVE FrozenWhileMusic'
  BY <1>1 DEF Publish, Call, Hold, lineVars
<1>2. ASSUME NEW at \in MusicTimes, SetMusicOn(at) PROVE FrozenWhileMusic'
  BY <1>2 DEF SetMusicOn, Call, ForceClose, lineVars, CancelMusicEnd
<1>3. ASSUME NEW at \in MusicTimes, SetMusicOff(at) PROVE FrozenWhileMusic'
  <2>1. CASE music
    BY <1>3, <2>1 DEF SetMusicOff, Call, lineVars
  <2>2. CASE ~music
    <3>1. held = {} /\ held' = Trimmed(held, newestMedia')
      BY <1>3, <2>2 DEF SetMusicOff
    <3>2. held' = {}
      BY <3>1 DEF Trimmed, Surviving
    <3> QED
      BY <1>3, <2>2, <3>2 DEF SetMusicOff
  <2> QED
    BY <2>1, <2>2
<1>4. ASSUME ResetConnection PROVE FrozenWhileMusic'
  BY <1>4 DEF ResetConnection, CancelMusicEnd, DiscardHeld
<1>5. ASSUME NEW state \in States, PublishStatus(state) PROVE FrozenWhileMusic'
  BY <1>5 DEF PublishStatus, Call, ForceClose, lineVars
<1>6. ASSUME Clear PROVE FrozenWhileMusic'
  BY <1>6 DEF Clear, Call, ForceClose, DiscardHeld
<1>7. ASSUME Flush PROVE FrozenWhileMusic'
  BY <1>7 DEF Flush, Call, ForceClose, DiscardHeld, CancelMusicEnd
<1>8. ASSUME NEW k \in armed, TimerFires(k) PROVE FrozenWhileMusic'
  BY <1>8 DEF TimerFires, lineVars
<1>9. ASSUME NEW k \in fired, ReleaseMusic(k) PROVE FrozenWhileMusic'
  BY <1>9 DEF ReleaseMusic, ReleaseAt, Current, lineVars
<1>10. ASSUME ReplayNext PROVE FrozenWhileMusic'
  BY <1>10 DEF ReplayNext
<1>11. ASSUME NEW c \in Clients, Subscribe(c) \/ Unsubscribe(c) \/ Receive(c)
       PROVE  FrozenWhileMusic'
  BY <1>11 DEF Subscribe, SubscribeWith, Unsubscribe, Receive, Call, lineVars
<1>12. CASE UNCHANGED vars
  BY <1>12 DEF vars, lineVars
<1> QED
  BY <1>1, <1>2, <1>3, <1>4, <1>5, <1>6, <1>7, <1>8, <1>9, <1>10, <1>11, <1>12
     DEF Next

(* While music plays no line is open and no release is under way; when none *)
(* plays nothing is held and no end edge is pending (hub.go, publish,       *)
(* SetMusic, releaseMusic and ResetConnection).                             *)
THEOREM ScreenFrozen == Spec => []FrozenWhileMusic
<1>1. Init => FrozenWhileMusic
  BY DEF Init, FrozenWhileMusic
<1>2. TypeOK /\ FrozenWhileMusic /\ [Next]_vars => FrozenWhileMusic'
  BY FrozenStep
<1> QED
  BY <1>1, <1>2, TypeCorrect, PTL DEF Spec

(* Only the callback whose token is still current ends the music by a       *)
(* timer: a hold that was abandoned ends nothing (releaseMusic).            *)
THEOREM OnlyItsOwnHold == Spec => OwnHoldElapsed
<1>1. TypeOK /\ [Next]_vars => [Released => musicToken \in fired]_vars
  <2> SUFFICES ASSUME TypeOK, Next, Released PROVE musicToken \in fired
    BY DEF Released, vars, musicVars
  <2> USE DEF Released, musicVars, timerVars
  <2>1. musicToken + 1 # musicToken
    BY NumbersType
  <2>2. ASSUME NEW s \in Segments, Publish(s) PROVE FALSE
    BY <2>2 DEF Publish, Hold
  <2>3. ASSUME NEW at \in MusicTimes, SetMusicOn(at) \/ SetMusicOff(at) PROVE FALSE
    BY <2>3 DEF SetMusicOn, SetMusicOff
  <2>4. ASSUME ResetConnection PROVE FALSE
    BY <2>1, <2>4 DEF ResetConnection, CancelMusicEnd
  <2>5. ASSUME NEW state \in States, PublishStatus(state) PROVE FALSE
    BY <2>5 DEF PublishStatus
  <2>6. ASSUME Clear \/ Flush PROVE FALSE
    BY <2>6 DEF Clear, Flush
  <2>7. ASSUME NEW k \in armed, TimerFires(k) PROVE FALSE
    BY <2>7 DEF TimerFires
  <2>8. ASSUME NEW k \in fired, ReleaseMusic(k) PROVE musicToken \in fired
    BY <2>8 DEF ReleaseMusic, ReleaseAt, Current
  <2>9. ASSUME ReplayNext PROVE FALSE
    BY <2>9 DEF ReplayNext
  <2>10. ASSUME NEW c \in Clients, Subscribe(c) \/ Unsubscribe(c) \/ Receive(c)
         PROVE  FALSE
    BY <2>10 DEF Subscribe, SubscribeWith, Unsubscribe, Receive
  <2> QED
    BY <2>2, <2>3, <2>4, <2>5, <2>6, <2>7, <2>8, <2>9, <2>10 DEF Next
<1> QED
  BY <1>1, TypeCorrect, PTL DEF Spec, OwnHoldElapsed
-----------------------------------------------------------------------------
(* The order of captions.  What waits (held or still to be replayed) has    *)
(* numbers of its own, newer than everything painted or discarded and not   *)
(* newer than the last arrival.                                             *)
Numbered(S) == \A t, u \in S : t.n = u.n => t = u

Waiting == held \cup replay

ArrivalInv ==
  /\ PaintedInArrivalOrder
  /\ Numbered(held) /\ Numbered(replay)
  /\ discarded <= arrived
  /\ \A t \in Waiting : discarded < t.n

LEMMA SurvivingNumbered ==
  ASSUME NEW S \in SUBSET Segment, NEW at \in Int, Numbered(S)
  PROVE  Numbered(Surviving(S, at))
<1> SUFFICES ASSUME NEW t \in Surviving(S, at), NEW v \in Surviving(S, at), t.n = v.n
             PROVE  t = v
  BY DEF Numbered
<1>1. PICK u \in S : t = AfterMusic(u, at) /\ t.n = u.n
  BY SurvivingType
<1>2. PICK w \in S : v = AfterMusic(w, at) /\ v.n = w.n
  BY SurvivingType
<1>3. u = w
  BY <1>1, <1>2 DEF Numbered
<1> QED
  BY <1>1, <1>2, <1>3

LEMMA TrimmedNumbered ==
  ASSUME NEW S \in SUBSET Segment, NEW newest \in Nat, Numbered(S)
  PROVE  Numbered(Trimmed(S, newest))
<1>1. newest - MusicReplayWindow \in Int
  BY SizesAssumption DEF SizesAssumption
<1> QED
  BY <1>1, SurvivingNumbered DEF Trimmed

(* A step that paints nothing and lets nothing new wait.                    *)
LEMMA QuietStep ==
  ASSUME TypeOK, ArrivalInv, painted' = painted, arrived' = arrived,
         \A t \in held' \cup replay' : \E u \in Waiting : t.n = u.n,
         Numbered(held'), Numbered(replay'),
         \/ discarded' = discarded
         \/ discarded' = arrived /\ held' = {} /\ replay' = {}
  PROVE  ArrivalInv'
<1> USE DEF ArrivalInv, PaintedInArrivalOrder, Waiting
<1>1. discarded' <= arrived'
  BY NumbersType
<1>2. \A t \in held' \cup replay' : discarded' < t.n
  OBVIOUS
<1>3. PaintedInArrivalOrder'
  OBVIOUS
<1> QED
  BY <1>1, <1>2, <1>3 DEF Numbered

(* A step that paints one segment, newer than everything painted before and *)
(* older than everything that still waits.                                  *)
LEMMA PaintStep ==
  ASSUME TypeOK, ArrivalInv, NEW p \in Segment, painted' = Append(painted, p),
         \A i \in 1..Len(painted) : painted[i].n < p.n,
         \A t \in held' \cup replay' : p.n < t.n,
         p.n <= arrived', arrived <= arrived', arrived' \in Nat,
         held' \cup replay' \subseteq Waiting,
         Numbered(held'), Numbered(replay'), discarded' = discarded
  PROVE  ArrivalInv'
<1>0. painted \in Seq(Segment) /\ Len(painted) \in Nat /\ arrived \in Nat
      /\ discarded \in Nat
  BY TypeOKParts, NumbersType, LenProperties DEF RecordType, MusicType
<1>1. Len(painted') = Len(painted) + 1
      /\ \A i \in 1..Len(painted) : painted'[i] = painted[i]
      /\ painted'[Len(painted) + 1] = p
  BY <1>0, AppendProperties
<1>2. \A i \in 1..Len(painted') : i \in 1..Len(painted) \/ i = Len(painted) + 1
  BY <1>0, <1>1
<1>3. \A i, j \in 1..Len(painted') : i < j => painted'[i].n < painted'[j].n
  <2> SUFFICES ASSUME NEW i \in 1..Len(painted'), NEW j \in 1..Len(painted'), i < j
               PROVE  painted'[i].n < painted'[j].n
    OBVIOUS
  <2>1. i \in 1..Len(painted)
    BY <1>0, <1>1
  <2>2. CASE j \in 1..Len(painted)
    BY <1>1, <2>1, <2>2 DEF ArrivalInv, PaintedInArrivalOrder
  <2>3. CASE j = Len(painted) + 1
    BY <1>1, <2>1, <2>3
  <2> QED
    BY <1>2, <2>2, <2>3
<1>4. p.n \in Nat /\ \A i \in 1..Len(painted) : painted[i].n \in Nat
  <2>1. \A t \in Segment : t.n \in Nat
    BY DEF Segment
  <2> QED
    BY <1>0, <2>1, ElementOfSeq
<1>5. \A t \in held' \cup replay' : t \in Segment /\ t.n \in Nat
  BY DEF TypeOK, Waiting, Segment
<1>6. \A i \in 1..Len(painted'), t \in held' \cup replay' : painted'[i].n < t.n
  <2> SUFFICES ASSUME NEW i \in 1..Len(painted'), NEW t \in held' \cup replay'
               PROVE  painted'[i].n < t.n
    OBVIOUS
  <2>1. CASE i \in 1..Len(painted)
    BY <1>1, <1>4, <1>5, <2>1
  <2>2. CASE i = Len(painted) + 1
    BY <1>1, <2>2
  <2> QED
    BY <1>2, <2>1, <2>2
<1>7. \A t \in held' \cup replay' : t.n <= arrived'
  BY <1>0, <1>5 DEF ArrivalInv, PaintedInArrivalOrder, Waiting
<1>8. \A i \in 1..Len(painted') : painted'[i].n <= arrived'
  <2> SUFFICES ASSUME NEW i \in 1..Len(painted') PROVE painted'[i].n <= arrived'
    OBVIOUS
  <2>1. CASE i \in 1..Len(painted)
    BY <1>0, <1>1, <1>4, <2>1 DEF ArrivalInv, PaintedInArrivalOrder
  <2>2. CASE i = Len(painted) + 1
    BY <1>1, <2>2
  <2> QED
    BY <1>2, <2>1, <2>2
<1>9. PaintedInArrivalOrder'
  BY <1>3, <1>6, <1>7, <1>8 DEF PaintedInArrivalOrder
<1>10. discarded' <= arrived'
  BY <1>0 DEF ArrivalInv
<1>11. \A t \in held' \cup replay' : discarded' < t.n
  BY DEF ArrivalInv, Waiting
<1> QED
  BY <1>9, <1>10, <1>11 DEF ArrivalInv, Waiting, Numbered

(* What is left of a segment that publish lets through keeps its number.    *)
LEMMA PublishLivePaints ==
  ASSUME TypeOK, NEW t \in Segment, PublishLive(t)
  PROVE  \/ painted' = painted
         \/ \E p \in Segment : p.n = t.n /\ painted' = Append(painted, p)
<1>1. CASE cutoffSet /\ ~Survives(t, confirmedCutoff)
  BY <1>1 DEF PublishLive, recordVars
<1>2. CASE ~(cutoffSet /\ ~Survives(t, confirmedCutoff))
  <2> DEFINE p == IF cutoffSet THEN AfterMusic(t, confirmedCutoff) ELSE t
  <2>1. confirmedCutoff \in Int
    BY NumbersType
  <2>2. p \in Segment /\ p.n = t.n
    BY <1>2, <2>1, AfterMusicType
  <2>3. painted' = Append(painted, p)
    BY <1>2 DEF PublishLive, Paint
  <2> QED
    BY <2>2, <2>3
<1> QED
  BY <1>1, <1>2

(* Publish, in both positions of the music gate.                            *)
LEMMA PublishArrives ==
  ASSUME TypeOK, FrozenWhileMusic, ArrivalInv, NEW s \in Segments, Publish(s)
  PROVE  ArrivalInv'
<1> DEFINE t == [s EXCEPT !.n = arrived + 1]
<1>1. arrived \in Nat /\ discarded \in Nat /\ held \subseteq Segment
      /\ painted \in Seq(Segment)
  BY TypeOKParts, NumbersType DEF RecordType, MusicType
<1>2. t \in Segment /\ t.n = arrived + 1
  BY <1>1, SegmentsAssumption DEF SegmentsAssumption, Segment
<1>3. replay = {} /\ replay' = {} /\ arrived' = arrived + 1
  BY DEF Publish, Call
<1>4. \A u \in held : u.n \in Nat /\ u.n <= arrived
  BY <1>1 DEF ArrivalInv, PaintedInArrivalOrder, Segment
<1>5. \A i \in 1..Len(painted) : painted[i].n \in Nat /\ painted[i].n <= arrived
  <2>1. \A u \in Segment : u.n \in Nat
    BY DEF Segment
  <2> QED
    BY <1>1, <2>1, ElementOfSeq DEF ArrivalInv, PaintedInArrivalOrder
<1> HIDE DEF t
<1>6. CASE music
  <2>1. Hold(t) /\ painted' = painted
    BY <1>6 DEF Publish, recordVars, t
  <2>2. newestMedia' \in Nat /\ held' = Trimmed(held \cup {t}, newestMedia')
        /\ discarded' = discarded
    <3>1. End(t) \in Nat
      BY <1>2 DEF End, Segment
    <3> QED
      BY <2>1, <3>1, NumbersType DEF Hold, MaxOf
  <2>3. held \cup {t} \in SUBSET Segment
    BY <1>1, <1>2
  <2>4. Numbered(held \cup {t})
    BY <1>2, <1>4, <1>1 DEF Numbered, ArrivalInv
  <2>5. Numbered(held')
    BY <2>2, <2>3, <2>4, TrimmedNumbered
  <2>6. \A u \in held' : \E v \in held \cup {t} : u.n = v.n
    BY <2>2, <2>3, TrimmedType
  <2>7. \A u \in held' : u.n \in Nat /\ discarded < u.n /\ u.n <= arrived'
    BY <1>1, <1>2, <1>3, <1>4, <2>6 DEF ArrivalInv, Waiting
  <2>8. \A i \in 1..Len(painted), u \in held' : painted[i].n < u.n
    BY <1>1, <1>2, <1>5, <2>6 DEF ArrivalInv, PaintedInArrivalOrder
  <2>9. \A i \in 1..Len(painted) : painted[i].n <= arrived'
    BY <1>1, <1>3, <1>5
  <2>10. discarded' <= arrived'
    BY <1>1, <1>3, <2>2 DEF ArrivalInv
  <2> QED
    BY <1>3, <2>1, <2>2, <2>5, <2>7, <2>8, <2>9, <2>10
       DEF ArrivalInv, PaintedInArrivalOrder, Waiting, Numbered
<1>7. CASE ~music
  <2>1. held = {} /\ held' = {} /\ discarded' = discarded
    BY <1>7 DEF FrozenWhileMusic, Publish, Hold, musicVars
  <2>2. PublishLive(t)
    BY <1>7 DEF Publish, t
  <2>3. CASE painted' = painted
    BY <1>1, <1>3, <1>5, <2>1, <2>3
       DEF ArrivalInv, PaintedInArrivalOrder, Waiting, Numbered
  <2>4. ASSUME NEW p \in Segment, p.n = t.n, painted' = Append(painted, p)
        PROVE  ArrivalInv'
    <3>1. \A i \in 1..Len(painted) : painted[i].n < p.n
      BY <1>1, <1>2, <1>5, <2>4
    <3>2. p.n <= arrived' /\ arrived <= arrived' /\ arrived' \in Nat
      BY <1>1, <1>2, <1>3, <2>4
    <3>3. held' \cup replay' = {} /\ Numbered(held') /\ Numbered(replay')
      BY <1>3, <2>1 DEF Numbered
    <3> QED
      BY <2>1, <2>4, <3>1, <3>2, <3>3, PaintStep
  <2> QED
    BY <1>2, <2>2, <2>3, <2>4, PublishLivePaints
<1> QED
  BY <1>6, <1>7

(* One turn of the release.                                                 *)
LEMMA ReplayInOrder ==
  ASSUME TypeOK, FrozenWhileMusic, ArrivalInv, ReplayNext
  PROVE  ArrivalInv'
<1>1. PICK t \in replay : /\ \A u \in replay : t.n <= u.n
                         /\ replay' = replay \ {t}
                         /\ PublishLive(t)
                         /\ UNCHANGED <<lastState, musicVars, clientVars, calls, arrived>>
  BY DEF ReplayNext
<1>2. ~music /\ held = {} /\ held' = {}
  BY <1>1 DEF FrozenWhileMusic, musicVars
<1>3. arrived' = arrived /\ discarded' = discarded /\ arrived \in Nat
  BY <1>1, NumbersType DEF musicVars
<1>4. replay \subseteq Segment /\ t \in Segment /\ \A u \in replay : u.n \in Nat
  BY <1>1, TypeOKParts DEF RestType, Segment
<1>5. Numbered(held') /\ Numbered(replay')
  BY <1>1, <1>2 DEF Numbered, ArrivalInv
<1>6. CASE painted' = painted
  <2>1. \A u \in held' \cup replay' : \E v \in Waiting : u.n = v.n
    BY <1>1, <1>2 DEF Waiting
  <2> QED
    BY <1>3, <1>5, <1>6, <2>1, QuietStep
<1>7. ASSUME NEW p \in Segment, p.n = t.n, painted' = Append(painted, p)
      PROVE  ArrivalInv'
  <2>1. \A i \in 1..Len(painted) : painted[i].n < p.n
    BY <1>1, <1>7 DEF ArrivalInv, PaintedInArrivalOrder
  <2>2. \A u \in held' \cup replay' : p.n < u.n
    <3> SUFFICES ASSUME NEW u \in replay' PROVE p.n < u.n
      BY <1>2
    <3>1. u \in replay /\ u # t
      BY <1>1
    <3>2. u.n # t.n
      BY <3>1 DEF ArrivalInv, Numbered
    <3> QED
      BY <1>1, <1>4, <1>7, <3>1, <3>2
  <2>3. p.n <= arrived' /\ arrived <= arrived' /\ arrived' \in Nat
    BY <1>1, <1>3, <1>7 DEF ArrivalInv, PaintedInArrivalOrder
  <2>4. held' \cup replay' \subseteq Waiting
    BY <1>1, <1>2 DEF Waiting
  <2> QED
    BY <1>3, <1>5, <1>7, <2>1, <2>2, <2>3, <2>4, PaintStep
<1> QED
  BY <1>1, <1>4, <1>6, <1>7, PublishLivePaints

(* The operations that trim or discard what is held, or hand it to a release.*)
LEMMA HeldTrimmed ==
  ASSUME TypeOK, ArrivalInv, painted' = painted, arrived' = arrived,
         replay = {}, replay' = {}, discarded' = discarded,
         newestMedia' \in Nat, held' = Trimmed(held, newestMedia')
  PROVE  ArrivalInv'
<1>1. held \in SUBSET Segment
  BY TypeOKParts DEF MusicType
<1>2. Numbered(held') /\ Numbered(replay')
  BY <1>1, TrimmedNumbered DEF ArrivalInv
<1>3. \A t \in held' \cup replay' : \E u \in Waiting : t.n = u.n
  BY <1>1, TrimmedType DEF Waiting
<1> QED
  BY <1>2, <1>3, QuietStep

LEMMA HeldDiscarded ==
  ASSUME TypeOK, ArrivalInv, painted' = painted, arrived' = arrived,
         replay' = {}, DiscardHeld
  PROVE  ArrivalInv'
<1>1. held' = {} /\ discarded' = arrived
  BY DEF DiscardHeld
<1>2. Numbered(held') /\ Numbered(replay')
  BY <1>1 DEF Numbered
<1> QED
  BY <1>1, <1>2, QuietStep

LEMMA HeldReleased ==
  ASSUME TypeOK, ArrivalInv, NEW k \in fired, ReleaseMusic(k)
  PROVE  ArrivalInv'
<1>1. held \in SUBSET Segment /\ MusicCutoff \in Int
  BY TypeOKParts, NumbersType, SizesAssumption
     DEF MusicType, MusicCutoff, MaxOf, SizesAssumption
<1>2. painted' = painted /\ arrived' = arrived /\ discarded' = discarded
      /\ replay = {}
  BY DEF ReleaseMusic, ReleaseAt, recordVars
<1>3. CASE Current(k)
  <2>1. replay' = Surviving(held, MusicCutoff) /\ held' = {}
    BY <1>3 DEF ReleaseMusic, ReleaseAt
  <2>2. Numbered(held') /\ Numbered(replay')
    BY <1>1, <2>1, SurvivingNumbered DEF ArrivalInv, Numbered
  <2>3. \A t \in held' \cup replay' : \E u \in Waiting : t.n = u.n
    BY <1>1, <2>1, SurvivingType DEF Waiting
  <2> QED
    BY <1>2, <2>2, <2>3, QuietStep
<1>4. CASE ~Current(k)
  BY <1>2, <1>4 DEF ReleaseMusic, ReleaseAt, ArrivalInv, PaintedInArrivalOrder,
                    Waiting, Numbered
<1> QED
  BY <1>3, <1>4

LEMMA ArrivalStep ==
  ASSUME TypeOK, FrozenWhileMusic, ArrivalInv, [Next]_vars
  PROVE  ArrivalInv'
<1> DEFINE Same == UNCHANGED <<painted, arrived, held, replay, discarded>>
<1>1. ASSUME Same PROVE ArrivalInv'
  BY <1>1 DEF ArrivalInv, PaintedInArrivalOrder, Waiting, Numbered
<1>2. ASSUME NEW at \in MusicTimes, SetMusicOn(at) PROVE ArrivalInv'
  <2>1. painted' = painted /\ arrived' = arrived /\ replay = {} /\ replay' = {}
    BY <1>2 DEF SetMusicOn, Call, ForceClose, recordVars
  <2>2. newestMedia' \in Nat
    BY <1>2, NumbersType, TimesAssumption DEF SetMusicOn, MaxOf, TimesAssumption
  <2>3. CASE DiscardHeld
    BY <2>1, <2>3, HeldDiscarded
  <2>4. CASE held' = Trimmed(held, newestMedia') /\ discarded' = discarded
    BY <2>1, <2>2, <2>4, HeldTrimmed
  <2> QED
    BY <1>2, <2>3, <2>4 DEF SetMusicOn
<1>3. ASSUME NEW at \in MusicTimes, SetMusicOff(at) PROVE ArrivalInv'
  <2>1. newestMedia' \in Nat
    BY <1>3, NumbersType, TimesAssumption DEF SetMusicOff, MaxOf, TimesAssumption
  <2> QED
    BY <1>3, <2>1, HeldTrimmed DEF SetMusicOff, Call, recordVars
<1>4. ASSUME ResetConnection PROVE ArrivalInv'
  BY <1>4, HeldDiscarded DEF ResetConnection, Call, recordVars
<1>5. ASSUME NEW state \in States, PublishStatus(state) PROVE ArrivalInv'
  BY <1>1, <1>5 DEF PublishStatus, Call, ForceClose, recordVars, musicVars
<1>6. ASSUME Clear \/ Flush PROVE ArrivalInv'
  BY <1>6, HeldDiscarded DEF Clear, Flush, Call, ForceClose
<1>7. ASSUME NEW k \in armed, TimerFires(k) PROVE ArrivalInv'
  BY <1>1, <1>7 DEF TimerFires, recordVars
<1>8. ASSUME NEW c \in Clients, Subscribe(c) \/ Unsubscribe(c) \/ Receive(c)
      PROVE  ArrivalInv'
  BY <1>1, <1>8 DEF Subscribe, SubscribeWith, Unsubscribe, Receive, Call,
                    recordVars, musicVars
<1>9. CASE UNCHANGED vars
  BY <1>1, <1>9 DEF vars, recordVars, musicVars
<1> QED
  BY <1>2, <1>3, <1>4, <1>5, <1>6, <1>7, <1>8, <1>9,
     PublishArrives, ReplayInOrder, HeldReleased DEF Next

LEMMA ArrivalInvariant == Spec => []ArrivalInv
<1>1. Init => ArrivalInv
  <2> SUFFICES ASSUME Init PROVE ArrivalInv
    OBVIOUS
  <2>1. painted = <<>> /\ held = {} /\ replay = {} /\ discarded = 0 /\ arrived = 0
    BY DEF Init
  <2>2. Len(painted) = 0
    BY <2>1, EmptySeq
  <2> QED
    BY <2>1, <2>2 DEF ArrivalInv, PaintedInArrivalOrder, Waiting, Numbered
<1>2. TypeOK /\ FrozenWhileMusic /\ ArrivalInv /\ [Next]_vars => ArrivalInv'
  BY ArrivalStep
<1> QED
  BY <1>1, <1>2, TypeCorrect, ScreenFrozen, PTL DEF Spec

(* Captions are painted in the order in which the recognizer delivered the  *)
(* segments and none twice, whatever was held back and released meanwhile   *)
(* (publish, releaseMusic and the mutex op).                                *)
THEOREM ArrivalOrderKept == Spec => []PaintedInArrivalOrder
<1>1. ArrivalInv => PaintedInArrivalOrder
  BY DEF ArrivalInv
<1> QED
  BY <1>1, ArrivalInvariant, PTL
-----------------------------------------------------------------------------
(***************************************************************************)
(* The hub implements CaptionStream, and nothing it has given up ever       *)
(* reaches the screen.                                                      *)
(***************************************************************************)

(* What publish does to a segment that reaches it with the gate open.       *)
LEMMA PublishLiveSteps ==
  ASSUME TypeOK, NEW t \in Segment, PublishLive(t)
  PROVE  \/ UNCHANGED <<painted, recorded>>
         \/ \E p \in Segment : p.n = t.n /\ Paint(p)
<1>1. CASE cutoffSet /\ ~Survives(t, confirmedCutoff)
  BY <1>1 DEF PublishLive, recordVars
<1>2. CASE ~(cutoffSet /\ ~Survives(t, confirmedCutoff))
  <2> DEFINE p == IF cutoffSet THEN AfterMusic(t, confirmedCutoff) ELSE t
  <2>1. confirmedCutoff \in Int
    BY NumbersType
  <2>2. p \in Segment /\ p.n = t.n
    BY <1>2, <2>1, AfterMusicType
  <2>3. Paint(p)
    BY <1>2 DEF PublishLive
  <2> HIDE DEF p
  <2> QED
    BY <2>2, <2>3
<1> QED
  BY <1>1, <1>2

(* What a step does to the screen, the record and the music: it paints a    *)
(* segment that has just arrived or was waiting, with no music; it closes   *)
(* the open line, and music may begin; or it leaves screen and record       *)
(* alone, and music may end.                                                *)
Paints ==
  /\ ~music /\ ~music'
  /\ discarded' = discarded
  /\ \E p \in Segment : /\ Paint(p)
                        /\ p.n = arrived + 1 \/ \E t \in Waiting : p.n = t.n

Closes ==
  /\ painted' = painted
  /\ recorded' = recorded \o committed
  /\ music => music'

LeavesAlone ==
  /\ UNCHANGED <<painted, recorded>>
  /\ music' => music

LEMMA StepKinds ==
  ASSUME TypeOK, FrozenWhileMusic, [Next]_vars
  PROVE  Paints \/ Closes \/ LeavesAlone
<1> USE DEF Closes, LeavesAlone, recordVars, musicVars
<1>1. ASSUME NEW s \in Segments, Publish(s) PROVE Paints \/ LeavesAlone
  <2> DEFINE t == [s EXCEPT !.n = arrived + 1]
  <2>1. t \in Segment /\ t.n = arrived + 1
    <3>1. arrived + 1 \in Nat /\ s \in Segment
      BY NumbersType, SegmentsAssumption DEF SegmentsAssumption
    <3> QED
      BY <3>1 DEF Segment
  <2>2. CASE music
    BY <1>1, <2>2 DEF Publish, Hold
  <2>3. CASE ~music
    <3>1. PublishLive(t) /\ ~music' /\ discarded' = discarded
      BY <1>1, <2>3 DEF Publish
    <3> HIDE DEF t
    <3> QED
      BY <2>1, <2>3, <3>1, PublishLiveSteps DEF Paints
  <2> QED
    BY <2>2, <2>3
<1>2. ASSUME ReplayNext PROVE Paints \/ LeavesAlone
  <2>1. PICK t \in replay : PublishLive(t) /\ UNCHANGED musicVars
    BY <1>2 DEF ReplayNext
  <2>2. t \in Segment /\ t \in Waiting
    BY <2>1, TypeOKParts DEF RestType, Waiting
  <2>3. ~music /\ ~music' /\ discarded' = discarded
    BY <2>1 DEF FrozenWhileMusic
  <2> QED
    BY <2>1, <2>2, <2>3, PublishLiveSteps DEF Paints
<1>3. ASSUME NEW at \in MusicTimes, SetMusicOn(at) PROVE Closes \/ LeavesAlone
  BY <1>3 DEF SetMusicOn, ForceClose
<1>4. ASSUME NEW at \in MusicTimes, SetMusicOff(at) PROVE LeavesAlone
  BY <1>4 DEF SetMusicOff
<1>5. ASSUME ResetConnection PROVE LeavesAlone
  BY <1>5 DEF ResetConnection
<1>6. ASSUME NEW state \in States, PublishStatus(state) PROVE Closes \/ LeavesAlone
  BY <1>6 DEF PublishStatus, ForceClose
<1>7. ASSUME Clear \/ Flush PROVE Closes
  <2>1. ForceClose(<<>>) /\ music' = music
    BY <1>7 DEF Clear, Flush
  <2> QED
    BY <2>1 DEF ForceClose
<1>8. ASSUME NEW k \in armed, TimerFires(k) PROVE LeavesAlone
  BY <1>8 DEF TimerFires
<1>9. ASSUME NEW k \in fired, ReleaseMusic(k) PROVE LeavesAlone
  BY <1>9 DEF ReleaseMusic, ReleaseAt
<1>10. ASSUME NEW c \in Clients, Subscribe(c) \/ Unsubscribe(c) \/ Receive(c)
       PROVE  LeavesAlone
  BY <1>10 DEF Subscribe, SubscribeWith, Unsubscribe, Receive
<1>11. CASE UNCHANGED vars
  BY <1>11 DEF vars
<1> QED
  BY <1>1, <1>2, <1>3, <1>4, <1>5, <1>6, <1>7, <1>8, <1>9, <1>10, <1>11 DEF Next
-----------------------------------------------------------------------------
(* Painting is Show: the record stays, catches up with the screen before p, *)
(* or with the screen that has p.                                           *)
LEMMA PaintShows ==
  ASSUME TypeOK, TranscriptIsWhatWasPainted, TranscriptIsWhatWasPainted', TypeOK',
         NEW p \in Segment, Paint(p), ~music, ~music'
  PROVE  Readers!Show
<1> DEFINE before  == MustClose(committed, IsBreak(p) \/ SpeakerChanged(p))
           base    == IF before THEN <<>> ELSE committed
           text    == Append(base, p)
           after   == MustClose(text, FALSE)
           flushed == IF before THEN committed ELSE <<>>
           closed  == IF after THEN text ELSE <<>>
<1>1. committed \in Seq(Segment) /\ recorded \in Seq(Segment) /\ painted \in Seq(Segment)
  BY DEF TypeOK
<1>2. /\ painted' = Append(painted, p)
      /\ committed' = IF after THEN <<>> ELSE text
      /\ recorded' = (recorded \o flushed) \o closed
  BY DEF Paint
<1>3. base \in Seq(Segment) /\ text \in Seq(Segment) /\ flushed \in Seq(Segment)
  <2>1. base \in Seq(Segment) /\ flushed \in Seq(Segment)
    BY <1>1, EmptySeq
  <2> QED
    BY <2>1, AppendProperties
<1> HIDE DEF before, base, text, after
<1>4. recorded \o flushed \in Seq(Segment) /\ recorded \o flushed \in {recorded, painted}
  BY <1>1, <1>3, ConcatProperties, ConcatEmptySeq DEF TranscriptIsWhatWasPainted
<1>5. recorded' \in {recorded, painted, painted'}
  <2>1. CASE after
    <3>1. closed \in Seq(Segment) /\ committed' = <<>>
      BY <1>2, <1>3, <2>1
    <3>2. recorded' \in Seq(Segment)
      BY <1>2, <1>4, <3>1, ConcatProperties
    <3>3. painted' = recorded'
      BY <3>1, <3>2, ConcatEmptySeq DEF TranscriptIsWhatWasPainted
    <3> QED
      BY <3>3
  <2>2. CASE ~after
    <3>1. recorded' = recorded \o flushed
      BY <1>2, <1>4, <2>2, ConcatEmptySeq
    <3> QED
      BY <1>4, <3>1
  <2> QED
    BY <2>1, <2>2
<1>6. Len(painted') = Len(painted) + 1
      /\ \A i \in 1..Len(painted) : painted'[i] = painted[i]
  BY <1>1, <1>2, AppendProperties
<1>7. music' = music
  BY TypeOKParts DEF MusicType
<1> QED
  BY <1>5, <1>6, <1>7 DEF Readers!Show

LEMMA RefinesStep ==
  ASSUME TypeOK, FrozenWhileMusic, TranscriptIsWhatWasPainted,
         TranscriptIsWhatWasPainted', TypeOK', [Next]_vars
  PROVE  [Readers!StreamNext]_Readers!Stream
<1>0. music \in BOOLEAN /\ music' \in BOOLEAN
  BY TypeOKParts DEF MusicType
<1>1. CASE Paints
  BY <1>1, PaintShows DEF Paints, Readers!StreamNext
<1>2. CASE Closes
  <2>1. painted' = painted /\ recorded' = painted
    BY <1>2 DEF Closes, TranscriptIsWhatWasPainted
  <2> QED
    BY <1>0, <1>2, <2>1 DEF Closes, Readers!StreamNext, Readers!Save, Readers!Freeze
<1>3. CASE LeavesAlone
  BY <1>0, <1>3 DEF LeavesAlone, Readers!StreamNext, Readers!Thaw, Readers!Stream
<1> QED
  BY <1>1, <1>2, <1>3, StepKinds

(* Every behaviour of the hub is, seen through what was painted, what was   *)
(* given to OnFinal and the music flag, a behaviour of CaptionStream        *)
(* (every public operation of hub.go and the release).                      *)
THEOREM HubImplementsStream == Spec => ImplementsCaptionStream
<1>1. Init => Readers!StreamInit
  BY DEF Init, Readers!StreamInit
<1>2. /\ TypeOK /\ FrozenWhileMusic /\ TranscriptIsWhatWasPainted
      /\ TranscriptIsWhatWasPainted' /\ TypeOK' /\ [Next]_vars
      => [Readers!StreamNext]_Readers!Stream
  BY RefinesStep
<1> QED
  BY <1>1, <1>2, TypeCorrect, ScreenFrozen, TranscriptMatchesScreen, PTL
     DEF Spec, ImplementsCaptionStream, Readers!StreamSpec
-----------------------------------------------------------------------------
(* What the operator cleared, a closed connection left frozen or a song cut *)
(* short never reaches the screen later: what is painted is newer than what *)
(* had arrived when the hub last gave up what it held (Clear, Flush,        *)
(* ResetConnection and SetMusic).                                           *)
THEOREM GivenUpStaysAway == Spec => NothingDiscardedReturns
<1>1. TypeOK /\ FrozenWhileMusic /\ ArrivalInv /\ [Next]_vars
      => [\A i \in Len(painted) + 1 .. Len(painted') : painted'[i].n > discarded]_vars
  <2> SUFFICES ASSUME TypeOK, FrozenWhileMusic, ArrivalInv, Next,
                      NEW i \in Len(painted) + 1 .. Len(painted')
               PROVE  painted'[i].n > discarded
    OBVIOUS
  <2>1. painted \in Seq(Segment) /\ Len(painted) \in Nat /\ arrived \in Nat
        /\ discarded \in Nat /\ held \subseteq Segment /\ replay \subseteq Segment
    BY TypeOKParts, NumbersType, LenProperties DEF RecordType, MusicType, RestType
  <2>2. painted' # painted
    BY <2>1
  <2>3. Paints
    BY <2>2, StepKinds DEF Closes, LeavesAlone
  <2>4. PICK p \in Segment : /\ Paint(p)
                             /\ p.n = arrived + 1 \/ \E t \in Waiting : p.n = t.n
    BY <2>3 DEF Paints
  <2>5. Len(painted') = Len(painted) + 1 /\ painted'[Len(painted) + 1] = p
    BY <2>1, <2>4, AppendProperties DEF Paint
  <2>6. p.n > discarded
    <3>1. CASE p.n = arrived + 1
      BY <2>1, <3>1 DEF ArrivalInv
    <3>2. CASE \E t \in Waiting : p.n = t.n
      BY <2>1, <3>2 DEF ArrivalInv, Waiting, Segment
    <3> QED
      BY <2>4, <3>1, <3>2
  <2> QED
    BY <2>1, <2>5, <2>6
<1> QED
  BY <1>1, TypeCorrect, ScreenFrozen, ArrivalInvariant, PTL
     DEF Spec, NothingDiscardedReturns
-----------------------------------------------------------------------------
(***************************************************************************)
(* What a release paints when music ends: exactly what was sung over and is *)
(* recent enough, and no word of the song.                                  *)
(***************************************************************************)

(* afterMusic twice is afterMusic at the later time: publish cuts, holds,   *)
(* trims and cuts again, and the words that are left are the same.          *)
LEMMA WordsFromTwice ==
  ASSUME NEW t \in Segment, NEW a \in Int, NEW b \in Int, a <= b
  PROVE  \A w \in WordsFrom(t, b) : w \in WordsFrom(t, a)
BY DEF WordsFrom, Segment, Word

LEMMA CutTwice ==
  ASSUME NEW t \in Segment, NEW a \in Int, NEW b \in Int, a <= b, Survives(t, a)
  PROVE  /\ Survives(AfterMusic(t, a), b) <=> Survives(t, b)
         /\ Survives(t, b) => AfterMusic(AfterMusic(t, a), b) = AfterMusic(t, b)
<1>1. CASE Untimed(t)
  BY <1>1 DEF AfterMusic
<1>2. CASE ~Untimed(t)
  <2> DEFINE kept  == WordsFrom(t, a)
             from  == FirstWord(kept).start
             dur   == MaxOf(LastWord(kept).end - from, 0)
             u     == AfterMusic(t, a)
             later == WordsFrom(t, b)
  <2>1. u = [t EXCEPT !.words = kept, !.start = from, !.dur = dur]
    BY <1>2 DEF AfterMusic
  <2>2. u.words = kept /\ u.start = from /\ u.dur = dur
    BY <2>1 DEF Segment
  <2>3. WordsFrom(u, b) = later
    BY <2>2, WordsFromTwice DEF WordsFrom
  <2>4. kept \in SUBSET Word
    BY DEF WordsFrom, Segment
  <2>5. CASE ~Untimed(u)
    <3>1. Survives(u, b) <=> Survives(t, b)
      BY <1>2, <2>3, <2>5 DEF Survives
    <3> DEFINE first == FirstWord(later).start
               long  == MaxOf(LastWord(later).end - first, 0)
    <3>2. AfterMusic(u, b) = [u EXCEPT !.words = later, !.start = first, !.dur = long]
      BY <2>3, <2>5 DEF AfterMusic
    <3>3. AfterMusic(t, b) = [t EXCEPT !.words = later, !.start = first, !.dur = long]
      BY <1>2 DEF AfterMusic
    <3> HIDE DEF first, long, u, kept, from, dur, later
    <3>4. [u EXCEPT !.words = later, !.start = first, !.dur = long]
          = [t EXCEPT !.words = later, !.start = first, !.dur = long]
      BY <2>1 DEF Segment
    <3> QED
      BY <3>1, <3>2, <3>3, <3>4 DEF u
  <2>6. CASE Untimed(u)
    <3>1. PICK w \in kept : kept = {w} /\ w.end = 0
      BY <2>2, <2>6 DEF Untimed
    <3>2. w \in Word /\ FirstWord(kept) = w /\ LastWord(kept) = w
      <4>1. kept # {} /\ FirstWord(kept) \in kept /\ LastWord(kept) \in kept
        BY <2>4, <3>1, FirstWordIn, LastWordIn
      <4> QED
        BY <2>4, <3>1, <4>1
    <3>3. from = w.start /\ w.start \in Nat
      BY <3>2 DEF Word
    <3>4. later = IF w.start >= b THEN kept ELSE {}
      <4>1. \A v \in later : v = w /\ w.start >= b
        BY <3>1, WordsFromTwice DEF WordsFrom
      <4>2. w.start >= b => w \in later
        BY <3>1 DEF WordsFrom
      <4> HIDE DEF kept, later
      <4> QED
        BY <3>1, <4>1, <4>2
    <3>5. Survives(u, b) <=> w.start >= b
      BY <2>2, <2>6, <3>3 DEF Survives
    <3>6. Survives(t, b) <=> w.start >= b
      <4>1. Survives(t, b) <=> later # {}
        BY <1>2 DEF Survives
      <4> HIDE DEF kept, later
      <4> QED
        BY <3>1, <3>4, <4>1
    <3>7. ASSUME w.start >= b PROVE AfterMusic(u, b) = AfterMusic(t, b)
      <4>1. AfterMusic(u, b) = u
        BY <2>6 DEF AfterMusic
      <4>2. WordsFrom(t, b) = kept
        BY <3>4, <3>7
      <4>3. AfterMusic(t, b) = u
        BY <1>2, <4>2 DEF AfterMusic
      <4> QED
        BY <4>1, <4>3
    <3> HIDE DEF u
    <3> QED
      BY <3>5, <3>6, <3>7 DEF u
  <2> QED
    BY <2>5, <2>6
<1> QED
  BY <1>1, <1>2

LEMMA SurvivingTwice ==
  ASSUME NEW S \in SUBSET Segment, NEW a \in Int, NEW b \in Int, a <= b
  PROVE  Surviving(Surviving(S, a), b) = Surviving(S, b)
<1>1. ASSUME NEW v \in Surviving(Surviving(S, a), b) PROVE v \in Surviving(S, b)
  <2>1. PICK u \in Surviving(S, a) : Survives(u, b) /\ v = AfterMusic(u, b)
    BY <1>1 DEF Surviving
  <2>2. PICK t \in S : Survives(t, a) /\ u = AfterMusic(t, a)
    BY <2>1 DEF Surviving
  <2>3. Survives(t, b) /\ v = AfterMusic(t, b)
    BY <2>1, <2>2, CutTwice
  <2> QED
    BY <2>3 DEF Surviving
<1>2. ASSUME NEW v \in Surviving(S, b) PROVE v \in Surviving(Surviving(S, a), b)
  <2>1. PICK t \in S : Survives(t, b) /\ v = AfterMusic(t, b)
    BY <1>2 DEF Surviving
  <2>2. Survives(t, a)
    BY <2>1, WordsFromTwice DEF Survives, Segment
  <2>3. Survives(AfterMusic(t, a), b) /\ v = AfterMusic(AfterMusic(t, a), b)
    BY <2>1, <2>2, CutTwice
  <2>4. AfterMusic(t, a) \in Surviving(S, a)
    BY <2>2 DEF Surviving
  <2> QED
    BY <2>3, <2>4 DEF Surviving
<1> QED
  BY <1>1, <1>2

LEMMA SurvivingUnion ==
  ASSUME NEW S, NEW T, NEW at
  PROVE  Surviving(S \cup T, at) = Surviving(S, at) \cup Surviving(T, at)
BY DEF Surviving
-----------------------------------------------------------------------------
LEMMA TrimmedTwice ==
  ASSUME NEW S \in SUBSET Segment, NEW m \in Nat, NEW n \in Nat, m <= n
  PROVE  Trimmed(Trimmed(S, m), n) = Trimmed(S, n)
<1>1. m - MusicReplayWindow \in Int /\ n - MusicReplayWindow \in Int
      /\ m - MusicReplayWindow <= n - MusicReplayWindow
  BY SizesAssumption DEF SizesAssumption
<1>2. CASE m - MusicReplayWindow <= 0
  BY <1>2 DEF Trimmed
<1>3. CASE ~(m - MusicReplayWindow <= 0)
  <2>1. ~(n - MusicReplayWindow <= 0)
    BY <1>1, <1>3
  <2> QED
    BY <1>1, <1>3, <2>1, SurvivingTwice DEF Trimmed
<1> QED
  BY <1>2, <1>3

LEMMA TrimmedUnion ==
  ASSUME NEW S, NEW T, NEW newest
  PROVE  Trimmed(S \cup T, newest) = Trimmed(S, newest) \cup Trimmed(T, newest)
<1>1. CASE newest - MusicReplayWindow <= 0
  BY <1>1 DEF Trimmed
<1>2. CASE ~(newest - MusicReplayWindow <= 0)
  BY <1>2, SurvivingUnion DEF Trimmed
<1> QED
  BY <1>1, <1>2

LEMMA TrimmedEmpty == \A newest : Trimmed({}, newest) = {}
BY DEF Trimmed, Surviving

LEMMA LaterMedia ==
  ASSUME TypeOK, NEW m \in Nat
  PROVE  MaxOf(newestMedia, m) \in Nat /\ newestMedia <= MaxOf(newestMedia, m)
BY NumbersType DEF MaxOf

(* One step for each action that touches what is held.                      *)
LEMMA TrimStep ==
  ASSUME TypeOK, FrozenWhileMusic, TrimmingIsHarmless, [Next]_vars
  PROVE  TrimmingIsHarmless'
<1> DEFINE Same == UNCHANGED <<held, muted, newestMedia>>
<1>0. /\ held \in SUBSET Segment /\ muted \in SUBSET Segment
      /\ newestMedia \in Nat /\ arrived \in Nat
  BY TypeOKParts, NumbersType DEF MusicType
<1>1. ASSUME Same PROVE TrimmingIsHarmless'
  BY <1>1 DEF TrimmingIsHarmless
<1>2. ASSUME held' = {}, muted' = {} PROVE TrimmingIsHarmless'
  BY <1>2, TrimmedEmpty DEF TrimmingIsHarmless
<1>3. ASSUME NEW m \in Nat, newestMedia' = MaxOf(newestMedia, m), muted' = muted,
             held' = Trimmed(held, newestMedia')
      PROVE  TrimmingIsHarmless'
  BY <1>0, <1>3, LaterMedia, TrimmedTwice DEF TrimmingIsHarmless
<1>4. ASSUME NEW s \in Segments, Publish(s) PROVE TrimmingIsHarmless'
  <2> DEFINE t == [s EXCEPT !.n = arrived + 1]
  <2>1. t \in Segment
    <3>1. arrived + 1 \in Nat /\ s \in Segment
      BY <1>0, SegmentsAssumption DEF SegmentsAssumption
    <3> QED
      BY <3>1 DEF Segment
  <2>2. CASE ~music
    BY <1>1, <1>4, <2>2 DEF Publish, musicVars
  <2>3. CASE music
    <3>1. Hold(t)
      BY <1>4, <2>3 DEF Publish
    <3> HIDE DEF t
    <3>2. End(t) \in Nat
      BY <2>1 DEF End, Segment
    <3>3. newestMedia' \in Nat /\ newestMedia <= newestMedia'
      BY <3>1, <3>2, LaterMedia DEF Hold
    <3>4. held' = Trimmed(held, newestMedia') \cup Trimmed({t}, newestMedia')
      BY <3>1, TrimmedUnion DEF Hold
    <3>5. Trimmed(held, newestMedia') = Trimmed(muted, newestMedia')
      BY <1>0, <3>3, TrimmedTwice DEF TrimmingIsHarmless
    <3>6. held' = Trimmed(muted \cup {t}, newestMedia')
      BY <3>4, <3>5, TrimmedUnion
    <3> QED
      BY <3>1, <3>6 DEF Hold, TrimmingIsHarmless
  <2> QED
    BY <2>2, <2>3
<1>5. ASSUME NEW at \in MusicTimes, SetMusicOn(at) PROVE TrimmingIsHarmless'
  <2>1. at \in Nat /\ newestMedia' = MaxOf(newestMedia, at)
    BY <1>5, TimesAssumption DEF TimesAssumption, SetMusicOn
  <2>2. CASE ~music
    <3>1. held' = Trimmed({}, newestMedia') /\ muted' = {}
      BY <1>5, <2>2 DEF SetMusicOn, FrozenWhileMusic
    <3> QED
      BY <1>2, <3>1, TrimmedEmpty
  <2>3. CASE music /\ musicTimer
    BY <1>2, <1>5, <2>3 DEF SetMusicOn, DiscardHeld
  <2>4. CASE music /\ ~musicTimer
    BY <1>3, <1>5, <2>1, <2>4 DEF SetMusicOn
  <2> QED
    BY <2>2, <2>3, <2>4
<1>6. ASSUME NEW at \in MusicTimes, SetMusicOff(at) PROVE TrimmingIsHarmless'
  <2>1. at \in Nat
    BY TimesAssumption DEF TimesAssumption
  <2> QED
    BY <1>3, <1>6, <2>1 DEF SetMusicOff
<1>7. ASSUME ResetConnection \/ Clear \/ Flush PROVE TrimmingIsHarmless'
  BY <1>2, <1>7 DEF ResetConnection, Clear, Flush, DiscardHeld
<1>8. ASSUME NEW k \in fired, ReleaseMusic(k) PROVE TrimmingIsHarmless'
  <2>1. CASE Current(k)
    BY <1>2, <1>8, <2>1 DEF ReleaseMusic, ReleaseAt
  <2>2. CASE ~Current(k)
    BY <1>1, <1>8, <2>2 DEF ReleaseMusic, ReleaseAt
  <2> QED
    BY <2>1, <2>2
<1>9. ASSUME \/ \E state \in States : PublishStatus(state)
             \/ \E k \in armed : TimerFires(k)
             \/ ReplayNext
             \/ \E c \in Clients : Subscribe(c) \/ Unsubscribe(c) \/ Receive(c)
             \/ UNCHANGED vars
      PROVE  TrimmingIsHarmless'
  BY <1>1, <1>9 DEF PublishStatus, TimerFires, ReplayNext, Subscribe, SubscribeWith,
                    Unsubscribe, Receive, vars, musicVars
<1> QED
  BY <1>4, <1>5, <1>6, <1>7, <1>8, <1>9 DEF Next

(* Trimming what is held step by step, as media time advances, keeps what   *)
(* one trim at the newest media time would keep (trimHeldLocked, called by  *)
(* publish and SetMusic on every segment and edge).                         *)
THEOREM TrimmingLosesNothing == Spec => []TrimmingIsHarmless
<1>1. Init => TrimmingIsHarmless
  BY TrimmedEmpty DEF Init, TrimmingIsHarmless
<1>2. TypeOK /\ FrozenWhileMusic /\ TrimmingIsHarmless /\ [Next]_vars
      => TrimmingIsHarmless'
  BY TrimStep
<1> QED
  BY <1>1, <1>2, TypeCorrect, ScreenFrozen, PTL DEF Spec

(* A release hands to publish exactly the words since the freeze that start *)
(* at or after the confirmed end and inside the replay window.              *)
THEOREM ReleaseTakesAll == Spec => ReleaseIsExact
<1>1. TypeOK /\ FrozenWhileMusic /\ TrimmingIsHarmless /\ [Next]_vars
      => [Released => replay' = Surviving(muted, MusicCutoff)]_vars
  <2> SUFFICES ASSUME TypeOK, FrozenWhileMusic, TrimmingIsHarmless, Next, Released
               PROVE  replay' = Surviving(muted, MusicCutoff)
    OBVIOUS
  <2>1. /\ muted \in SUBSET Segment /\ newestMedia \in Nat
        /\ MusicCutoff \in Int /\ newestMedia - MusicReplayWindow \in Int
        /\ newestMedia - MusicReplayWindow <= MusicCutoff
    BY TypeOKParts, NumbersType, SizesAssumption
       DEF MusicType, MusicCutoff, MaxOf, SizesAssumption
  <2>2. PICK k \in fired : ReleaseMusic(k) /\ Current(k)
    <3>1. music /\ ~music' /\ musicToken' = musicToken
      BY DEF Released
    <3>2. ~ResetConnection
      BY <3>1, NumbersType DEF ResetConnection, CancelMusicEnd
    <3>3. ASSUME NEW s \in Segments, Publish(s) PROVE FALSE
      BY <3>1, <3>3 DEF Publish, Hold, musicVars
    <3>4. ASSUME NEW at \in MusicTimes, SetMusicOn(at) \/ SetMusicOff(at) PROVE FALSE
      BY <3>1, <3>4 DEF SetMusicOn, SetMusicOff
    <3>5. ASSUME \/ \E state \in States : PublishStatus(state)
                 \/ Clear \/ Flush
                 \/ \E j \in armed : TimerFires(j)
                 \/ ReplayNext
                 \/ \E c \in Clients : Subscribe(c) \/ Unsubscribe(c) \/ Receive(c)
          PROVE  FALSE
      BY <3>1, <3>5 DEF PublishStatus, Clear, Flush, TimerFires, ReplayNext, Subscribe,
                        SubscribeWith, Unsubscribe, Receive, musicVars
    <3>6. \E k \in fired : ReleaseMusic(k)
      BY <3>2, <3>3, <3>4, <3>5 DEF Next
    <3> QED
      BY <3>1, <3>6 DEF ReleaseMusic, ReleaseAt
  <2>3. replay' = Surviving(held, MusicCutoff)
    BY <2>2 DEF ReleaseMusic, ReleaseAt
  <2>4. CASE newestMedia - MusicReplayWindow <= 0
    BY <2>3, <2>4 DEF TrimmingIsHarmless, Trimmed
  <2>5. CASE ~(newestMedia - MusicReplayWindow <= 0)
    BY <2>1, <2>3, <2>5, SurvivingTwice DEF TrimmingIsHarmless, Trimmed
  <2> QED
    BY <2>4, <2>5
<1> QED
  BY <1>1, TypeCorrect, ScreenFrozen, TrimmingLosesNothing, PTL DEF Spec, ReleaseIsExact
-----------------------------------------------------------------------------
(* The words of p, or p itself when its words have no times, start at `at'  *)
(* or later.                                                                *)
NotBefore(p, at) ==
  \/ \A w \in p.words : w.start >= at
  \/ Untimed(p) /\ p.start >= at

LEMMA CutIsNotBefore ==
  ASSUME NEW t \in Segment, NEW at \in Int, Survives(t, at)
  PROVE  NotBefore(AfterMusic(t, at), at)
<1>1. CASE Untimed(t)
  BY <1>1 DEF AfterMusic, Survives, NotBefore
<1>2. CASE ~Untimed(t)
  <2>1. AfterMusic(t, at).words = WordsFrom(t, at)
    BY <1>2 DEF AfterMusic, Segment
  <2> QED
    BY <2>1 DEF WordsFrom, NotBefore
<1> QED
  BY <1>1, <1>2

(* No word from before the confirmed end of the music is ever painted, be   *)
(* it released or delivered late, and nothing is painted while music plays. *)
THEOREM SongStaysOff == Spec => NoSongWordPainted
<1> DEFINE Clean == \A i \in Len(painted) + 1 .. Len(painted') :
                      ~music /\ (cutoffSet => NotBefore(painted'[i], confirmedCutoff))
<1>1. ASSUME TypeOK, NEW t \in Segment, PublishLive(t), ~music PROVE Clean
  <2>1. /\ painted \in Seq(Segment) /\ Len(painted) \in Nat
        /\ confirmedCutoff \in Int
    BY <1>1, TypeOKParts, NumbersType, LenProperties DEF RecordType
  <2>2. CASE cutoffSet /\ ~Survives(t, confirmedCutoff)
    BY <1>1, <2>1, <2>2 DEF PublishLive, recordVars
  <2>3. CASE ~(cutoffSet /\ ~Survives(t, confirmedCutoff))
    <3> DEFINE p == IF cutoffSet THEN AfterMusic(t, confirmedCutoff) ELSE t
    <3>1. p \in Segment /\ painted' = Append(painted, p)
      BY <1>1, <2>1, <2>3, AfterMusicType DEF PublishLive, Paint
    <3>2. cutoffSet => NotBefore(p, confirmedCutoff)
      BY <2>1, <2>3, CutIsNotBefore
    <3> HIDE DEF p
    <3>3. Len(painted') = Len(painted) + 1 /\ painted'[Len(painted) + 1] = p
      BY <2>1, <3>1, AppendProperties
    <3> QED
      BY <1>1, <2>1, <3>2, <3>3
  <2> QED
    BY <2>2, <2>3
<1>2. TypeOK /\ FrozenWhileMusic /\ [Next]_vars => [Clean]_vars
  <2> SUFFICES ASSUME TypeOK, FrozenWhileMusic, Next PROVE Clean
    OBVIOUS
  <2>1. ASSUME painted' = painted PROVE Clean
    BY <2>1, TypeOKParts, LenProperties DEF RecordType
  <2> HIDE DEF Clean
  <2>2. ASSUME NEW s \in Segments, Publish(s) PROVE Clean
    <3> DEFINE t == [s EXCEPT !.n = arrived + 1]
    <3>1. t \in Segment
      <4>1. arrived + 1 \in Nat /\ s \in Segment
        BY NumbersType, SegmentsAssumption DEF SegmentsAssumption
      <4> QED
        BY <4>1 DEF Segment
    <3>2. CASE music
      BY <2>1, <2>2, <3>2 DEF Publish, recordVars
    <3>3. CASE ~music
      BY <1>1, <2>2, <3>1, <3>3 DEF Publish
    <3> QED
      BY <3>2, <3>3
  <2>3. ASSUME ReplayNext PROVE Clean
    <3>1. PICK t \in replay : PublishLive(t)
      BY <2>3 DEF ReplayNext
    <3> QED
      BY <1>1, <3>1, TypeOKParts DEF RestType, FrozenWhileMusic
  <2>4. ASSUME \/ \E at \in MusicTimes : SetMusicOn(at) \/ SetMusicOff(at)
               \/ ResetConnection
               \/ \E state \in States : PublishStatus(state)
               \/ Clear \/ Flush
               \/ \E k \in armed : TimerFires(k)
               \/ \E k \in fired : ReleaseMusic(k)
               \/ \E c \in Clients : Subscribe(c) \/ Unsubscribe(c) \/ Receive(c)
        PROVE  painted' = painted
    BY <2>4 DEF SetMusicOn, SetMusicOff, ResetConnection, PublishStatus, Clear, Flush,
                TimerFires, ReleaseMusic, ReleaseAt, Subscribe, SubscribeWith,
                Unsubscribe, Receive, ForceClose, recordVars
  <2> QED
    BY <2>1, <2>2, <2>3, <2>4 DEF Next
<1>3. [Clean]_vars => [\A i \in Len(painted) + 1 .. Len(painted') :
       /\ ~music
       /\ cutoffSet => \/ \A w \in painted'[i].words :
                             w.start >= confirmedCutoff
                       \/ /\ Untimed(painted'[i])
                          /\ painted'[i].start >= confirmedCutoff]_vars
  BY DEF NotBefore
<1> QED
  BY <1>2, <1>3, TypeCorrect, ScreenFrozen, PTL DEF Spec, NoSongWordPainted
-----------------------------------------------------------------------------
(***************************************************************************)
(* The hub as a live session drives it (CaptionFeed): the record stays in   *)
(* the order of the recording.                                              *)
(***************************************************************************)

(* t is in the order of its words: what a cut leaves starts no earlier.     *)
Ordered(t) ==
  \/ Untimed(t)
  \/ \A w \in t.words : /\ t.start <= w.start
                        /\ \A v \in t.words : v.pos <= w.pos => v.start <= w.start

(* t starts no later than `at', however much of its beginning is cut off.   *)
StartsBy(t, at) ==
  /\ t.start <= at
  /\ Untimed(t) \/ \A w \in t.words : w.start <= at

(* Segments that wait in the order of the recording.                        *)
Lined(S, at) ==
  \A t \in S : /\ Ordered(t) /\ StartsBy(t, at)
               /\ \A u \in S : t.n < u.n => StartsBy(t, u.start)

Heard == {"line", "music"}

(* No line or marker of the entries is later than `at'.                     *)
AllBy(entries, at) ==
  \A i \in 1..Len(entries) : entries[i].kind \in Heard => entries[i].offset <= at

Ascending(entries) ==
  \A i, j \in 1..Len(entries) :
    i < j /\ entries[i].kind \in Heard /\ entries[j].kind \in Heard
    => entries[i].offset <= entries[j].offset

(* The transcript and the start of the open line are no later than `at'.    *)
RecordBy(at) == AllBy(transcript, at) /\ (committed # <<>> => uttStart <= at)

(* The inductive form of SpeechAndMusicInOrder: the record is in order, and *)
(* what waits to be painted, at its place after the record.                 *)
TimelineInv ==
  /\ Ascending(transcript)
  /\ committed # <<>> => AllBy(transcript, uttStart)
  /\ clock \in Nat /\ RecordBy(clock)
  /\ Lined(Waiting, clock)
  /\ \A t \in Waiting : RecordBy(t.start)

LEMMA EntryTypes ==
  ASSUME NEW e \in TranscriptEntry
  PROVE  e.offset \in Nat
BY DEF TranscriptEntry

LEMMA LaterBy ==
  ASSUME NEW entries \in Seq(TranscriptEntry), NEW a \in Nat, NEW b \in Nat, a <= b,
         AllBy(entries, a)
  PROVE  AllBy(entries, b)
<1> SUFFICES ASSUME NEW i \in 1..Len(entries), entries[i].kind \in Heard
             PROVE  entries[i].offset <= b
  BY DEF AllBy
<1>1. entries[i] \in TranscriptEntry
  BY ElementOfSeq
<1>2. entries[i].offset \in Nat
  BY <1>1, EntryTypes
<1> QED
  BY <1>2 DEF AllBy

LEMMA EntryAppended ==
  ASSUME NEW entries \in Seq(TranscriptEntry), NEW e \in TranscriptEntry
  PROVE  /\ Append(entries, e) \in Seq(TranscriptEntry)
         /\ Ascending(entries) /\ (e.kind \in Heard => AllBy(entries, e.offset))
            => Ascending(Append(entries, e))
         /\ \A at : AllBy(entries, at) /\ (e.kind \in Heard => e.offset <= at)
                    => AllBy(Append(entries, e), at)
<1> DEFINE n == Len(entries)
           all == Append(entries, e)
<1>1. n \in Nat /\ Len(all) = n + 1 /\ all[n + 1] = e /\ \A i \in 1..n : all[i] = entries[i]
      /\ all \in Seq(TranscriptEntry)
  BY AppendProperties, LenProperties
<1> HIDE DEF all, n
<1>2. \A i \in 1..(n + 1) : i \in 1..n \/ i = n + 1
  BY <1>1
<1>3. ASSUME Ascending(entries), e.kind \in Heard => AllBy(entries, e.offset)
      PROVE  Ascending(all)
  <2> SUFFICES ASSUME NEW i \in 1..(n + 1), NEW j \in 1..(n + 1), i < j,
                      all[i].kind \in Heard, all[j].kind \in Heard
               PROVE  all[i].offset <= all[j].offset
    BY <1>1 DEF Ascending
  <2>1. i \in 1..n
    BY <1>1
  <2>2. CASE j \in 1..n
    BY <1>1, <1>3, <2>1, <2>2 DEF Ascending, n
  <2>3. CASE j = n + 1
    BY <1>1, <1>3, <2>1, <2>3 DEF AllBy, n
  <2> QED
    BY <1>2, <2>2, <2>3
<1>4. ASSUME NEW at, AllBy(entries, at), e.kind \in Heard => e.offset <= at
      PROVE  AllBy(all, at)
  BY <1>1, <1>2, <1>4 DEF AllBy, n
<1> QED
  BY <1>1, <1>3, <1>4 DEF all

LEMMA StartsLater ==
  ASSUME NEW t \in Segment, NEW a \in Nat, NEW b \in Nat, a <= b, StartsBy(t, a)
  PROVE  StartsBy(t, b)
<1>1. t.start \in Nat /\ \A w \in t.words : w.start \in Nat
  BY DEF Segment, Word
<1> QED
  BY <1>1 DEF StartsBy

(* What a cut leaves of a segment keeps its place.                          *)
LEMMA CutInPlace ==
  ASSUME NEW t \in Segment, NEW at \in Int, Ordered(t), Survives(t, at)
  PROVE  /\ Ordered(AfterMusic(t, at))
         /\ t.start <= AfterMusic(t, at).start
         /\ \A x : StartsBy(t, x) => StartsBy(AfterMusic(t, at), x)
<1>1. CASE Untimed(t)
  <2>1. AfterMusic(t, at) = t
    BY <1>1 DEF AfterMusic
  <2> QED
    BY <2>1 DEF Segment
<1>2. CASE ~Untimed(t)
  <2> DEFINE kept == WordsFrom(t, at)
             f    == FirstWord(kept)
             cut  == AfterMusic(t, at)
  <2>1. kept \in SUBSET Word /\ kept # {} /\ kept \subseteq t.words
    BY <1>2 DEF Survives, WordsFrom, Segment
  <2>2. f \in kept /\ \A v \in kept : f.pos <= v.pos
    BY <2>1, FirstWordIn
  <2>3. cut.words = kept /\ cut.start = f.start
    BY <1>2 DEF AfterMusic, Segment
  <2> HIDE DEF kept, f, cut
  <2>4. t.start <= f.start
    BY <1>2, <2>1, <2>2 DEF Ordered
  <2>5. \A w \in kept : /\ f.start <= w.start
                        /\ \A v \in kept : v.pos <= w.pos => v.start <= w.start
    BY <1>2, <2>1, <2>2 DEF Ordered
  <2>6. Ordered(cut)
    BY <2>3, <2>5 DEF Ordered
  <2>7. \A x : StartsBy(t, x) => StartsBy(cut, x)
    BY <1>2, <2>1, <2>2, <2>3 DEF StartsBy
  <2> QED
    BY <2>3, <2>4, <2>6, <2>7 DEF cut
<1> QED
  BY <1>1, <1>2

LEMMA CutLined ==
  ASSUME NEW S \in SUBSET Segment, NEW at \in Int, NEW x \in Nat, Lined(S, x)
  PROVE  /\ Lined(Surviving(S, at), x)
         /\ \A t \in Surviving(S, at) : \E u \in S : u.start <= t.start
<1>1. ASSUME NEW t \in Surviving(S, at)
      PROVE  \E u \in S : /\ u.n = t.n /\ u.start <= t.start
                          /\ t \in Segment /\ Ordered(t)
                          /\ \A y : StartsBy(u, y) => StartsBy(t, y)
  <2>1. PICK u \in S : Survives(u, at) /\ t = AfterMusic(u, at) /\ t.n = u.n
    BY SurvivingType
  <2>2. t \in Segment /\ Ordered(u) /\ u \in Segment
    BY SurvivingType DEF Lined
  <2> QED
    BY <2>1, <2>2, CutInPlace
<1>2. ASSUME NEW t \in Surviving(S, at), NEW u \in Surviving(S, at), t.n < u.n
      PROVE  StartsBy(t, u.start)
  <2>1. PICK v \in S : v.n = t.n /\ t \in Segment /\ \A y : StartsBy(v, y) => StartsBy(t, y)
    BY <1>1
  <2>2. PICK w \in S : w.n = u.n /\ w.start <= u.start /\ u \in Segment
    BY <1>1
  <2>3. StartsBy(v, w.start)
    BY <1>2, <2>1, <2>2 DEF Lined
  <2>4. StartsBy(t, w.start) /\ w.start \in Nat /\ u.start \in Nat
    BY <2>1, <2>2, <2>3 DEF Segment
  <2> QED
    BY <2>1, <2>2, <2>4, StartsLater
<1>3. \A t \in Surviving(S, at) : Ordered(t) /\ StartsBy(t, x)
  BY <1>1 DEF Lined
<1> QED
  BY <1>1, <1>2, <1>3 DEF Lined

LEMMA TrimmedLined ==
  ASSUME NEW S \in SUBSET Segment, NEW newest \in Nat, NEW x \in Nat, Lined(S, x)
  PROVE  /\ Lined(Trimmed(S, newest), x)
         /\ \A t \in Trimmed(S, newest) : \E u \in S : u.start <= t.start
<1>1. newest - MusicReplayWindow \in Int
  BY SizesAssumption DEF SizesAssumption
<1>2. CASE newest - MusicReplayWindow <= 0
  BY <1>2 DEF Trimmed, Segment
<1>3. CASE ~(newest - MusicReplayWindow <= 0)
  BY <1>1, <1>3, CutLined DEF Trimmed
<1> QED
  BY <1>2, <1>3

(* Nothing is written; what waits may be cut, given up or joined by what    *)
(* has just been heard.                                                     *)
LEMMA QuietTimeline ==
  ASSUME TypeOK, TimelineInv, UNCHANGED <<transcript, committed, uttStart>>,
         clock' \in Nat, clock <= clock', Lined(held' \cup replay', clock'),
         \A t \in held' \cup replay' : RecordBy(t.start)
  PROVE  TimelineInv'
<1>1. transcript \in Seq(TranscriptEntry) /\ uttStart \in Nat
  BY DEF TypeOK
<1>2. \A x : RecordBy(x) => RecordBy(x)'
  BY DEF RecordBy
<1>3. AllBy(transcript, clock')
  BY <1>1, LaterBy DEF TimelineInv, RecordBy
<1>4. AllBy(transcript', clock') /\ (committed' # <<>> => uttStart' <= clock')
  BY <1>1, <1>3 DEF TimelineInv, RecordBy
<1>5. Ascending(transcript)' /\ (committed' # <<>> => AllBy(transcript, uttStart)')
  BY DEF TimelineInv
<1>6. Lined(Waiting, clock)' /\ \A t \in Waiting' : RecordBy(t.start)'
  BY <1>2 DEF Waiting
<1> QED
  BY <1>4, <1>5, <1>6 DEF TimelineInv, RecordBy

(* The open line is closed.                                                 *)
LEMMA LineClosed ==
  ASSUME TypeOK, TimelineInv, committed # <<>>
  PROVE  /\ Append(transcript, OpenLine) \in Seq(TranscriptEntry)
         /\ Ascending(Append(transcript, OpenLine))
         /\ \A x : RecordBy(x) => AllBy(Append(transcript, OpenLine), x)
<1>1. transcript \in Seq(TranscriptEntry) /\ OpenLine \in TranscriptEntry
  BY LineInEntries DEF TypeOK, OpenLine
<1>2. OpenLine.offset = uttStart
  BY DEF OpenLine, Line
<1> QED
  BY <1>1, <1>2, EntryAppended DEF TimelineInv, RecordBy

(* A marker after the open line: music now, or silence.                     *)
LEMMA CloseTimeline ==
  ASSUME TypeOK, TimelineInv, NEW markers, ForceClose(markers),
         clock' \in Nat, clock <= clock', Lined(held' \cup replay', clock'),
         \A t \in held' \cup replay' : \E u \in Waiting : u.start <= t.start,
         held' \cup replay' \subseteq Segment,
         \/ markers = <<>>
         \/ \E at \in Nat : markers = <<Marker("silence", at)>>
         \/ \E at \in Nat : /\ markers = <<Marker("music", at)>>
                            /\ clock <= at /\ at <= clock' /\ held' \cup replay' = {}
  PROVE  TimelineInv'
<1> DEFINE closed == IF committed = <<>> THEN transcript ELSE Append(transcript, OpenLine)
<1>1. transcript \in Seq(TranscriptEntry) /\ uttStart \in Nat /\ clock \in Nat
  BY DEF TypeOK, TimelineInv
<1>2. OpenLine \in TranscriptEntry
  BY LineInEntries DEF TypeOK, OpenLine
<1>3. transcript' = closed \o markers /\ committed' = <<>>
  BY <1>1, <1>2, AppendIsConcat, ConcatEmptySeq DEF ForceClose
<1>4. /\ closed \in Seq(TranscriptEntry) /\ Ascending(closed)
      /\ \A x : RecordBy(x) => AllBy(closed, x)
  BY <1>1, LineClosed DEF TimelineInv, RecordBy
<1> HIDE DEF closed
<1>5. AllBy(closed, clock) /\ AllBy(closed, clock')
  BY <1>1, <1>4, LaterBy DEF TimelineInv
<1>6. \A t \in held' \cup replay' : AllBy(closed, t.start)
  <2> TAKE t \in held' \cup replay'
  <2>1. PICK u \in Waiting : u.start <= t.start
    OBVIOUS
  <2>2. u.start \in Nat /\ t.start \in Nat
    BY <2>1 DEF TypeOK, Waiting, Segment
  <2> QED
    BY <1>4, <2>1, <2>2, LaterBy DEF TimelineInv
<1> DEFINE Kept == /\ Ascending(transcript')
                   /\ AllBy(transcript', clock')
                   /\ \A t \in held' \cup replay' : AllBy(transcript', t.start)
<1>7. Kept
  <2>1. CASE markers = <<>>
    <3>1. transcript' = closed
      BY <1>3, <1>4, <2>1, ConcatEmptySeq
    <3> QED
      BY <1>4, <1>5, <1>6, <3>1
  <2>2. ASSUME NEW at \in Nat, markers = <<Marker("silence", at)>> PROVE Kept
    <3>1. Marker("silence", at) \in TranscriptEntry /\ Marker("silence", at).kind \notin Heard
      BY DEF Marker, TranscriptEntry, Heard
    <3>2. transcript' = Append(closed, Marker("silence", at))
      BY <1>3, <1>4, <2>2, <3>1, AppendIsConcat
    <3> QED
      BY <1>4, <1>5, <1>6, <3>1, <3>2, EntryAppended
  <2>3. ASSUME NEW at \in Nat, markers = <<Marker("music", at)>>,
               clock <= at, at <= clock', held' \cup replay' = {}
        PROVE  Kept
    <3>1. Marker("music", at) \in TranscriptEntry /\ Marker("music", at).offset = at
      BY DEF Marker, TranscriptEntry
    <3>2. transcript' = Append(closed, Marker("music", at))
      BY <1>3, <1>4, <2>3, <3>1, AppendIsConcat
    <3>3. AllBy(closed, at)
      BY <1>1, <1>4, <1>5, <2>3, LaterBy
    <3> QED
      BY <1>4, <1>5, <2>3, <3>1, <3>2, <3>3, EntryAppended
  <2> QED
    BY <2>1, <2>2, <2>3
<1>8. \A t \in held' \cup replay' : RecordBy(t.start)'
  BY <1>3, <1>7 DEF RecordBy
<1> QED
  BY <1>3, <1>7, <1>8 DEF TimelineInv, Waiting, RecordBy

(* A segment is painted that starts no earlier than the record and no later *)
(* than what still waits.                                                   *)
LEMMA PaintTimeline ==
  ASSUME TypeOK, TimelineInv, NEW p \in Segment, Paint(p), RecordBy(p.start),
         clock' \in Nat, clock <= clock', p.start <= clock',
         Lined(held' \cup replay', clock'), held' \cup replay' \subseteq Segment,
         \A t \in held' \cup replay' : p.start <= t.start
  PROVE  TimelineInv'
<1> DEFINE before == MustClose(committed, IsBreak(p) \/ SpeakerChanged(p))
           base   == IF before THEN <<>> ELSE committed
           text   == Append(base, p)
           start  == IF base = <<>> THEN p.start ELSE uttStart
           who    == IF base = <<>> THEN p.speaker ELSE uttSpeaker
           after  == MustClose(text, FALSE)
           line   == Line(text, start, who, End(p), p.dur > 0)
           closed == IF before THEN Append(transcript, OpenLine) ELSE transcript
<1>1. /\ transcript \in Seq(TranscriptEntry) /\ committed \in Seq(Segment)
      /\ uttStart \in Nat /\ uttSpeaker \in Nat /\ clock \in Nat
  BY DEF TypeOK, TimelineInv
<1>2. p.start \in Nat /\ p.speaker \in Nat /\ p.dur \in Nat /\ End(p) \in Nat
  BY DEF Segment, End
<1>3. before => committed # <<>>
  BY DEF MustClose
<1>4. OpenLine \in TranscriptEntry
  BY LineInEntries DEF TypeOK, OpenLine
<1>5. base \in Seq(Segment) /\ text \in Seq(Segment) /\ start \in Nat /\ who \in Nat
  <2>1. base \in Seq(Segment) /\ start \in Nat /\ who \in Nat
    BY <1>1, <1>2, EmptySeq
  <2> QED
    BY <2>1, AppendProperties
<1>6. line \in TranscriptEntry /\ line.offset = start
  <2>1. (p.dur > 0) \in BOOLEAN
    OBVIOUS
  <2> HIDE DEF text, start, who
  <2>2. line \in TranscriptEntry
    BY <1>2, <1>5, <2>1, LineInEntries
  <2> QED
    BY <2>2 DEF Line
<1>7. closed \in Seq(TranscriptEntry) /\ Ascending(closed) /\ AllBy(closed, start) /\ start <= p.start
  <2>1. CASE before
    <3>1. start = p.start
      BY <2>1
    <3> QED
      BY <1>2, <1>3, <2>1, <3>1, LineClosed
  <2>2. CASE ~before /\ committed = <<>>
    <3>1. start = p.start
      BY <2>2
    <3> QED
      BY <1>1, <1>2, <2>2, <3>1 DEF TimelineInv, RecordBy
  <2>3. CASE ~before /\ committed # <<>>
    <3>1. start = uttStart
      BY <2>3
    <3> QED
      BY <1>1, <2>3, <3>1 DEF TimelineInv, RecordBy
  <2> QED
    BY <2>1, <2>2, <2>3
<1>8. /\ uttStart' = start
      /\ committed' = IF after THEN <<>> ELSE text
      /\ transcript' = IF after THEN Append(closed, line) ELSE closed
  <2>1. uttStart' = start /\ committed' = IF after THEN <<>> ELSE text
    BY DEF Paint
  <2>2. transcript' = (transcript \o (IF before THEN <<OpenLine>> ELSE <<>>))
                      \o (IF after THEN <<line>> ELSE <<>>)
    BY DEF Paint
  <2> HIDE DEF before, after, line
  <2>3. transcript \o (IF before THEN <<OpenLine>> ELSE <<>>) = closed
    BY <1>1, <1>4, AppendIsConcat, ConcatEmptySeq
  <2>4. transcript' = closed \o (IF after THEN <<line>> ELSE <<>>)
    BY <2>2, <2>3
  <2> HIDE DEF closed
  <2>5. transcript' = IF after THEN Append(closed, line) ELSE closed
    BY <1>6, <1>7, <2>4, AppendIsConcat, ConcatEmptySeq
  <2> QED
    BY <2>1, <2>5
<1> HIDE DEF before, base, text, start, who, after, line, closed
<1>9. Ascending(transcript') /\ transcript' \in Seq(TranscriptEntry)
  BY <1>6, <1>7, <1>8, EntryAppended
<1>10. ASSUME NEW x \in Nat, p.start <= x
       PROVE  AllBy(transcript', x) /\ (committed' # <<>> => uttStart' <= x)
  <2>1. start <= x /\ AllBy(closed, x)
    BY <1>2, <1>5, <1>7, <1>10, LaterBy
  <2>2. AllBy(transcript', x)
    BY <1>6, <1>7, <1>8, <2>1, EntryAppended
  <2> QED
    BY <1>8, <2>1, <2>2
<1>11. committed' # <<>> => AllBy(transcript', uttStart')
  BY <1>7, <1>8
<1>12. \A t \in held' \cup replay' : RecordBy(t.start)'
  BY <1>10 DEF Segment, RecordBy
<1>13. AllBy(transcript', clock') /\ (committed' # <<>> => uttStart' <= clock')
  BY <1>10
<1> QED
  BY <1>9, <1>11, <1>12, <1>13 DEF TimelineInv, Waiting, RecordBy

(* What publish paints of a segment starts no earlier than the segment.     *)
LEMMA PublishLiveInPlace ==
  ASSUME TypeOK, NEW t \in Segment, Ordered(t), PublishLive(t)
  PROVE  \/ UNCHANGED <<transcript, committed, uttStart>>
         \/ \E p \in Segment : /\ Paint(p) /\ t.start <= p.start
                               /\ \A x : StartsBy(t, x) => StartsBy(p, x)
<1>1. CASE cutoffSet /\ ~Survives(t, confirmedCutoff)
  BY <1>1 DEF PublishLive, recordVars, lineVars
<1>2. CASE cutoffSet /\ Survives(t, confirmedCutoff)
  <2> DEFINE p == AfterMusic(t, confirmedCutoff)
  <2>1. confirmedCutoff \in Int
    BY NumbersType
  <2>2. p \in Segment /\ t.start <= p.start /\ \A x : StartsBy(t, x) => StartsBy(p, x)
    BY <1>2, <2>1, AfterMusicType, CutInPlace
  <2>3. Paint(p)
    BY <1>2 DEF PublishLive
  <2> HIDE DEF p
  <2> QED
    BY <2>2, <2>3
<1>3. CASE ~cutoffSet
  <2>1. Paint(t) /\ t.start <= t.start
    BY <1>3 DEF PublishLive, Segment
  <2> QED
    BY <2>1
<1> QED
  BY <1>1, <1>2, <1>3

(* A segment is heard at the end of the recording so far.                   *)
LEMMA HeardInPlace ==
  ASSUME TypeOK, FrozenWhileMusic, ArrivalInv, TimelineInv, NEW s \in Segments, Hear(s)
  PROVE  TimelineInv'
<1> DEFINE t == [s EXCEPT !.n = arrived + 1]
<1>1. /\ arrived \in Nat /\ held \in SUBSET Segment /\ clock \in Nat
      /\ s \in Segment
  BY TypeOKParts, NumbersType, SegmentsAssumption
     DEF MusicType, TimelineInv, SegmentsAssumption
<1>2. /\ t \in Segment /\ t.n = arrived + 1 /\ t.start = s.start
      /\ t.words = s.words /\ End(t) = End(s)
  BY <1>1 DEF Segment, End
<1>3. /\ replay = {} /\ replay' = {} /\ clock <= s.start /\ clock' = End(s)
  BY DEF Hear, Publish, Call
<1>4. Ordered(t) /\ StartsBy(t, End(s))
  <2>1. s.start <= End(s)
    BY <1>1 DEF Segment, End
  <2>2. Untimed(t) <=> Untimed(s)
    BY <1>2 DEF Untimed
  <2> QED
    BY <1>2, <2>1, <2>2, FeedSegmentsAssumption
       DEF Ordered, StartsBy, FeedSegmentsAssumption
<1>5. clock' \in Nat /\ clock <= clock' /\ t.start \in Nat /\ t.start <= clock' /\ clock <= t.start
  BY <1>1, <1>2, <1>3 DEF Segment, End
<1>6. Publish(s)
  BY DEF Hear
<1>7. transcript \in Seq(TranscriptEntry) /\ uttStart \in Nat
  BY DEF TypeOK
<1>8. \A x \in Nat : clock <= x => RecordBy(x)
  BY <1>1, <1>7, LaterBy DEF TimelineInv, RecordBy
<1> HIDE DEF t
<1>9. CASE music
  <2>1. Hold(t) /\ UNCHANGED <<transcript, committed, uttStart>>
    BY <1>6, <1>9 DEF Publish, lineVars, recordVars, t
  <2>2. newestMedia' \in Nat /\ held' = Trimmed(held \cup {t}, newestMedia')
    <3>1. End(t) \in Nat
      BY <1>2 DEF End, Segment
    <3> QED
      BY <2>1, <3>1, NumbersType DEF Hold, MaxOf
  <2>3. \A u \in held : /\ u \in Segment /\ u.n \in Nat /\ u.n < t.n
                        /\ Ordered(u) /\ StartsBy(u, clock) /\ RecordBy(u.start)
    BY <1>1, <1>2 DEF ArrivalInv, PaintedInArrivalOrder, TimelineInv, Lined, Waiting, Segment
  <2>4. \A u \in held : StartsBy(u, t.start) /\ StartsBy(u, clock')
    BY <1>1, <1>5, <2>3, StartsLater
  <2>5. Lined(held \cup {t}, clock')
    <3>1. \A u \in held \cup {t} : Ordered(u) /\ StartsBy(u, clock')
      BY <1>3, <1>4, <2>3, <2>4
    <3>2. ASSUME NEW u \in held \cup {t}, NEW v \in held \cup {t}, u.n < v.n
          PROVE  StartsBy(u, v.start)
      <4>1. u # t
        BY <1>1, <1>2, <2>3, <3>2
      <4>2. CASE v = t
        BY <2>4, <4>1, <4>2
      <4>3. CASE v # t
        BY <3>2, <4>1, <4>3 DEF TimelineInv, Lined, Waiting
      <4> QED
        BY <4>2, <4>3
    <3> QED
      BY <3>1, <3>2 DEF Lined
  <2>6. held \cup {t} \in SUBSET Segment
    BY <1>1, <1>2
  <2>7. /\ Lined(held', clock') /\ held' \subseteq Segment
        /\ \A v \in held' : \E u \in held \cup {t} : u.start <= v.start
    BY <1>5, <2>2, <2>5, <2>6, TrimmedLined, TrimmedType
  <2>8. \A u \in held \cup {t} : RecordBy(u.start)
    BY <1>5, <1>8, <2>3
  <2>9. \A v \in held' : RecordBy(v.start)
    <3> TAKE v \in held'
    <3>1. PICK u \in held \cup {t} : u.start <= v.start
      BY <2>7
    <3>2. u.start \in Nat /\ v.start \in Nat /\ RecordBy(u.start)
      BY <2>6, <2>7, <2>8 DEF Segment
    <3> QED
      BY <1>7, <3>1, <3>2, LaterBy DEF RecordBy
  <2> QED
    BY <1>3, <1>5, <2>1, <2>7, <2>9, QuietTimeline
<1>10. CASE ~music
  <2>1. held' \cup replay' = {} /\ PublishLive(t)
    BY <1>3, <1>6, <1>10 DEF Publish, musicVars, FrozenWhileMusic, t
  <2>2. Lined(held' \cup replay', clock')
    BY <2>1 DEF Lined
  <2>3. CASE UNCHANGED <<transcript, committed, uttStart>>
    BY <1>5, <2>1, <2>2, <2>3, QuietTimeline
  <2>4. ASSUME NEW p \in Segment, Paint(p), t.start <= p.start, StartsBy(p, clock')
        PROVE  TimelineInv'
    <3>1. p.start \in Nat /\ clock <= p.start /\ p.start <= clock'
      BY <1>1, <1>5, <2>4 DEF Segment, StartsBy
    <3> QED
      BY <1>5, <1>8, <2>1, <2>2, <2>4, <3>1, PaintTimeline
  <2> QED
    BY <1>2, <1>3, <1>4, <2>1, <2>3, <2>4, PublishLiveInPlace
<1> QED
  BY <1>9, <1>10

LEMMA FeedStepsHub == FeedSpec => Spec
<1>1. FeedInit => Init
  BY DEF FeedInit
<1>2. [FeedNext]_allVars => [Next]_vars
  <2> SUFFICES ASSUME FeedNext PROVE Next
    BY DEF allVars
  <2>1. ASSUME Dial \/ DialSucceeds \/ Retry \/ Pause PROVE Next
    BY <2>1, FeedStatesAssumption
       DEF Dial, DialSucceeds, Retry, Pause, Next, FeedStatesAssumption
  <2> QED
    BY <2>1 DEF FeedNext, Next, ConnectionEnds, SessionEnds, Hear, MusicStarts,
                MusicStops, OperatorClears, HoldElapses
<1> QED
  BY <1>1, <1>2, PTL DEF FeedSpec, Spec

(* What waits is cut, or given up, and nothing is written.                  *)
LEMMA CutTimeline ==
  ASSUME TypeOK, TimelineInv, UNCHANGED <<transcript, committed, uttStart>>,
         clock' \in Nat, clock <= clock', Lined(held' \cup replay', clock),
         held' \cup replay' \subseteq Segment,
         \A t \in held' \cup replay' : \E u \in Waiting : u.start <= t.start
  PROVE  TimelineInv'
<1>1. transcript \in Seq(TranscriptEntry) /\ uttStart \in Nat /\ clock \in Nat
  BY DEF TypeOK, TimelineInv
<1>2. ASSUME NEW t \in held' \cup replay' PROVE StartsBy(t, clock') /\ RecordBy(t.start)
  <2>1. PICK u \in Waiting : u.start <= t.start
    BY <1>2
  <2>2. u.start \in Nat /\ t.start \in Nat
    BY <1>2, <2>1 DEF TypeOK, Waiting, Segment
  <2>3. RecordBy(u.start) /\ StartsBy(t, clock)
    BY <1>2, <2>1 DEF TimelineInv, Lined
  <2> QED
    BY <1>1, <1>2, <2>1, <2>2, <2>3, LaterBy, StartsLater DEF RecordBy
<1>3. Lined(held' \cup replay', clock')
  BY <1>2 DEF Lined
<1> QED
  BY <1>2, <1>3, QuietTimeline

LEMMA TrimmedTimeline ==
  ASSUME TypeOK, TimelineInv, UNCHANGED <<transcript, committed, uttStart>>,
         clock' \in Nat, clock <= clock', replay = {}, replay' = {},
         \/ held' = {}
         \/ newestMedia' \in Nat /\ held' = Trimmed(held, newestMedia')
  PROVE  TimelineInv'
<1>1. held \in SUBSET Segment /\ clock \in Nat
  BY TypeOKParts DEF MusicType, TimelineInv
<1>2. Waiting = held /\ Lined(held, clock) /\ held' \cup replay' = held'
  BY DEF Waiting, TimelineInv
<1>3. /\ Lined(held', clock) /\ held' \subseteq Segment
      /\ \A t \in held' : \E u \in held : u.start <= t.start
  <2>1. CASE held' = {}
    BY <2>1 DEF Lined
  <2>2. CASE newestMedia' \in Nat /\ held' = Trimmed(held, newestMedia')
    BY <1>1, <1>2, <2>2, TrimmedLined, TrimmedType
  <2> QED
    BY <2>1, <2>2
<1> QED
  BY <1>2, <1>3, CutTimeline

(* The release: what is held is cut at the end of the song.                 *)
LEMMA ReleaseInPlace ==
  ASSUME TypeOK, TimelineInv, NEW k \in fired, ReleaseMusic(k), clock' = clock
  PROVE  TimelineInv'
<1>1. held \in SUBSET Segment /\ clock \in Nat /\ MusicCutoff \in Int
  BY TypeOKParts, NumbersType, SizesAssumption
     DEF MusicType, MusicCutoff, MaxOf, SizesAssumption, TimelineInv
<1>2. replay = {} /\ UNCHANGED <<transcript, committed, uttStart>>
  BY DEF ReleaseMusic, ReleaseAt, recordVars, lineVars
<1>3. Waiting = held /\ Lined(held, clock)
  BY <1>2 DEF Waiting, TimelineInv
<1>4. CASE Current(k)
  <2>1. replay' = Surviving(held, MusicCutoff) /\ held' = {}
    BY <1>4 DEF ReleaseMusic, ReleaseAt
  <2>2. held' \cup replay' = Surviving(held, MusicCutoff)
    BY <2>1
  <2>3. /\ Lined(held' \cup replay', clock) /\ held' \cup replay' \subseteq Segment
        /\ \A t \in held' \cup replay' : \E u \in held : u.start <= t.start
    BY <1>1, <1>3, <2>2, CutLined, SurvivingType
  <2> QED
    BY <1>1, <1>2, <1>3, <2>3, CutTimeline
<1>5. CASE ~Current(k)
  <2>1. held' = held /\ replay' = replay
    BY <1>5 DEF ReleaseMusic, ReleaseAt
  <2> QED
    BY <1>2, <2>1 DEF TimelineInv, RecordBy, Waiting
<1> QED
  BY <1>4, <1>5

(* One turn of the release.                                                 *)
LEMMA ReplayInPlace ==
  ASSUME TypeOK, FrozenWhileMusic, ArrivalInv, TimelineInv, ReplayNext, clock' = clock
  PROVE  TimelineInv'
<1>1. PICK t \in replay : /\ \A u \in replay : t.n <= u.n
                         /\ replay' = replay \ {t}
                         /\ PublishLive(t)
                         /\ UNCHANGED musicVars
  BY DEF ReplayNext
<1>2. held = {} /\ held' = {} /\ Waiting = replay /\ held' \cup replay' = replay \ {t}
  BY <1>1 DEF FrozenWhileMusic, musicVars, Waiting
<1>3. replay \subseteq Segment /\ t \in Segment /\ clock \in Nat
  BY <1>1, TypeOKParts DEF RestType, TimelineInv
<1>4. /\ Lined(replay, clock) /\ Ordered(t) /\ StartsBy(t, clock)
      /\ \A u \in replay : RecordBy(u.start)
  BY <1>1, <1>2 DEF TimelineInv, Lined
<1>5. Lined(replay \ {t}, clock)
  BY <1>4 DEF Lined
<1>6. ASSUME NEW u \in replay \ {t} PROVE StartsBy(t, u.start)
  <2>1. t.n # u.n /\ t.n <= u.n
    BY <1>1, <1>6 DEF ArrivalInv, Numbered
  <2>2. t.n < u.n
    BY <1>3, <1>6, <2>1 DEF Segment
  <2> QED
    BY <1>1, <1>4, <1>6, <2>2 DEF Lined
<1>7. CASE UNCHANGED <<transcript, committed, uttStart>>
  <2>1. \A u \in held' \cup replay' : RecordBy(u.start)
    BY <1>2, <1>4
  <2>2. Lined(held' \cup replay', clock') /\ clock' \in Nat /\ clock <= clock'
    BY <1>2, <1>3, <1>5
  <2> QED
    BY <1>7, <2>1, <2>2, QuietTimeline
<1>8. ASSUME NEW p \in Segment, Paint(p), t.start <= p.start,
             \A x : StartsBy(t, x) => StartsBy(p, x)
      PROVE  TimelineInv'
  <2>1. p.start <= clock /\ \A u \in replay \ {t} : p.start <= u.start
    BY <1>4, <1>6, <1>8 DEF StartsBy
  <2>2. RecordBy(p.start)
    <3>1. RecordBy(t.start) /\ t.start \in Nat /\ p.start \in Nat
      BY <1>1, <1>3, <1>4, <1>8 DEF Segment
    <3>2. transcript \in Seq(TranscriptEntry) /\ uttStart \in Nat
      BY DEF TypeOK
    <3> QED
      BY <1>8, <3>1, <3>2, LaterBy DEF RecordBy
  <2> QED
    BY <1>2, <1>3, <1>5, <1>8, <2>1, <2>2, PaintTimeline
<1> QED
  BY <1>1, <1>3, <1>4, <1>7, <1>8, PublishLiveInPlace

LEMMA StatusInPlace ==
  ASSUME TypeOK, TimelineInv, NEW state, PublishStatus(state), clock' = clock
  PROVE  TimelineInv'
<1>1. held' = held /\ replay' = replay
  BY DEF PublishStatus, musicVars, Call
<1>2. CASE UNCHANGED <<transcript, committed, uttStart>>
  BY <1>1, <1>2 DEF TimelineInv, RecordBy, Waiting
<1>3. CASE ForceClose(<<Marker("silence", MaxOf(prevEnd, newestMedia))>>)
  <2>1. MaxOf(prevEnd, newestMedia) \in Nat
    BY DEF MaxOf, TypeOK
  <2>2. /\ Lined(held' \cup replay', clock') /\ held' \cup replay' \subseteq Segment
        /\ \A t \in held' \cup replay' : \E u \in Waiting : u.start <= t.start
    <3>1. held' \cup replay' = Waiting /\ Waiting \subseteq Segment
      BY <1>1 DEF Waiting, TypeOK
    <3>2. \A t \in Waiting : t.start <= t.start
      BY <3>1 DEF Segment
    <3> QED
      BY <3>1, <3>2 DEF TimelineInv
  <2> QED
    BY <1>3, <2>1, <2>2, CloseTimeline DEF TimelineInv
<1> QED
  BY <1>2, <1>3 DEF PublishStatus, recordVars, lineVars

(* The start of a song: the open line, then the marker, at the end of the   *)
(* recording so far.                                                        *)
LEMMA MusicInPlace ==
  ASSUME TypeOK, FrozenWhileMusic, TimelineInv, NEW at \in MusicTimes, MusicStarts(at)
  PROVE  TimelineInv'
<1>1. at \in Nat /\ clock \in Nat /\ clock <= at /\ clock' = at /\ SetMusicOn(at)
  BY TimesAssumption DEF MusicStarts, TimesAssumption, TimelineInv
<1>2. replay = {} /\ replay' = {} /\ newestMedia' \in Nat
  BY <1>1, NumbersType DEF SetMusicOn, Call, MaxOf
<1>3. CASE ~music
  <2>1. held' = Trimmed(held, newestMedia') /\ held = {} /\ ForceClose(<<Marker("music", at)>>)
    BY <1>1, <1>3 DEF SetMusicOn, FrozenWhileMusic
  <2>2. held' \cup replay' = {}
    BY <1>2, <2>1, TrimmedEmpty
  <2>3. Lined(held' \cup replay', clock')
    BY <2>2 DEF Lined
  <2>4. clock' \in Nat /\ clock <= clock' /\ at <= clock'
    BY <1>1
  <2>5. /\ held' \cup replay' \subseteq Segment
        /\ \A t \in held' \cup replay' : \E u \in Waiting : u.start <= t.start
    BY <2>2
  <2> QED
    BY <1>1, <2>1, <2>2, <2>3, <2>4, <2>5, CloseTimeline
<1>4. CASE music
  <2>1. UNCHANGED <<transcript, committed, uttStart>>
    BY <1>1, <1>4 DEF SetMusicOn, lineVars, recordVars
  <2>2. held' = {} \/ held' = Trimmed(held, newestMedia')
    BY <1>1, <1>4 DEF SetMusicOn, DiscardHeld
  <2> QED
    BY <1>1, <1>2, <2>1, <2>2, TrimmedTimeline
<1> QED
  BY <1>3, <1>4 DEF TypeOK

LEMMA ClosedInPlace ==
  ASSUME TypeOK, TimelineInv, ForceClose(<<>>), held' = {}, replay' = {}, clock' = clock
  PROVE  TimelineInv'
<1>1. held' \cup replay' = {} /\ clock' \in Nat /\ clock <= clock'
  BY DEF TimelineInv
<1>2. Lined(held' \cup replay', clock')
  BY <1>1 DEF Lined
<1> QED
  BY <1>1, <1>2, CloseTimeline

(* Lines and music markers of a live session never go back in time, across  *)
(* pauses, reconnects, clears and releases of what was held (hub.go publish,*)
(* SetMusic, releaseMusic, called by session.go run).                       *)
THEOREM SpeechAndMusicStayInOrder == FeedSpec => []SpeechAndMusicInOrder
<1>1. FeedInit => TimelineInv
  <2> SUFFICES ASSUME FeedInit PROVE TimelineInv
    OBVIOUS
  <2>1. transcript = <<>> /\ committed = <<>> /\ Waiting = {} /\ clock = 0
    BY DEF FeedInit, Init, Waiting
  <2>2. Len(transcript) = 0
    BY <2>1, EmptySeq
  <2> QED
    BY <2>1, <2>2 DEF TimelineInv, Ascending, RecordBy, AllBy, Lined
<1>2. TypeOK /\ FrozenWhileMusic /\ ArrivalInv /\ TimelineInv /\ [FeedNext]_allVars
      => TimelineInv'
  <2> SUFFICES ASSUME TypeOK, FrozenWhileMusic, ArrivalInv, TimelineInv, [FeedNext]_allVars
               PROVE  TimelineInv'
    OBVIOUS
  <2>1. ASSUME Dial \/ DialSucceeds \/ Retry \/ Pause PROVE TimelineInv'
    BY <2>1, StatusInPlace DEF Dial, DialSucceeds, Retry, Pause
  <2>2. ASSUME ConnectionEnds PROVE TimelineInv'
    <3>1. held' = {} /\ replay = {} /\ replay' = {} /\ clock' = clock
          /\ UNCHANGED <<transcript, committed, uttStart>>
      BY <2>2 DEF ConnectionEnds, ResetConnection, DiscardHeld, Call, lineVars, recordVars
    <3> QED
      BY <3>1, TrimmedTimeline DEF TimelineInv
  <2>3. ASSUME SessionEnds \/ OperatorClears PROVE TimelineInv'
    <3>1. ForceClose(<<>>) /\ held' = {} /\ replay' = {} /\ clock' = clock
      BY <2>3 DEF SessionEnds, OperatorClears, Flush, Clear, DiscardHeld, Call, feedVars
    <3> QED
      BY <3>1, ClosedInPlace
  <2>4. ASSUME NEW at \in MusicTimes, MusicStops(at) PROVE TimelineInv'
    <3>1. SetMusicOff(at) /\ clock' = MaxOf(clock, at) /\ at \in Nat /\ clock \in Nat
      BY <2>4, TimesAssumption DEF MusicStops, TimesAssumption, TimelineInv
    <3>2. /\ replay = {} /\ replay' = {} /\ held' = Trimmed(held, newestMedia')
          /\ newestMedia' \in Nat /\ UNCHANGED <<transcript, committed, uttStart>>
      BY <3>1, NumbersType DEF SetMusicOff, Call, MaxOf, lineVars, recordVars
    <3> QED
      BY <3>1, <3>2, TrimmedTimeline DEF MaxOf
  <2>5. ASSUME HoldElapses PROVE TimelineInv'
    <3>1. ASSUME NEW k \in armed, TimerFires(k), clock' = clock PROVE TimelineInv'
      BY <3>1 DEF TimerFires, lineVars, recordVars, TimelineInv, RecordBy, Waiting
    <3> QED
      BY <2>5, <3>1, ReleaseInPlace, ReplayInPlace DEF HoldElapses, feedVars
  <2>6. CASE UNCHANGED allVars
    BY <2>6 DEF allVars, feedVars, vars, lineVars, musicVars, recordVars, TimelineInv,
                RecordBy, Waiting
  <2> QED
    BY <2>1, <2>2, <2>3, <2>4, <2>5, <2>6, HeardInPlace, MusicInPlace DEF FeedNext
<1>3. TimelineInv => SpeechAndMusicInOrder
  BY DEF TimelineInv, Ascending, SpeechAndMusicInOrder, InOrder, Heard
<1> QED
  BY <1>1, <1>2, <1>3, FeedStepsHub, TypeCorrect, ScreenFrozen, ArrivalInvariant,
     PTL DEF FeedSpec
=============================================================================
