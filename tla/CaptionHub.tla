----------------------------- MODULE CaptionHub -----------------------------
(***************************************************************************)
(* The caption hub (internal/caption/hub.go): settled recognizer segments   *)
(* in, caption events out to every subscriber, closed lines and markers to  *)
(* the transcript.                                                          *)
(*                                                                         *)
(* Every public operation of the hub holds the mutex `op' from beginning to *)
(* end, so an operation is one action.  The exception is releaseMusic,      *)
(* which publishes the held segments one by one while subscribers go on     *)
(* draining their channels: it is an action that starts the release and one *)
(* action per released segment, with `op' held as long as `replay' is not   *)
(* empty.                                                                   *)
(*                                                                         *)
(* Media time is counted in abstract units.  A word is its place in the     *)
(* segment, its two times and whether its text ends a sentence; the length  *)
(* of a line is counted in segments.                                        *)
(***************************************************************************)
EXTENDS Integers, Sequences, FiniteSets

CONSTANTS
  Segments,          (* the segments the recognizer can deliver              *)
  MusicTimes,        (* the source times a music edge can carry              *)
  States,            (* connection states the status hook publishes          *)
  Clients,           (* SSE connections that may come and go                 *)
  MaxWords,          (* most words in a segment                              *)
  BreakGap,          (* breakGap                                             *)
  MusicReplayWindow, (* musicReplayWindow                                    *)
  MaxUtterance,      (* maxUtteranceChars, in segments                       *)
  SubscriberBuffer,  (* subscriberBuffer                                     *)
  MaxCalls           (* bound of the model: public operations per behaviour  *)

Word == [pos : 1..MaxWords, start : Nat, end : Nat, stop : BOOLEAN]
Segment == [n : Nat, words : SUBSET Word, start : Nat, dur : Nat, speaker : Nat]

ASSUME SegmentsAssumption == Segments \subseteq {s \in Segment : s.n = 0}
ASSUME TimesAssumption == MusicTimes \subseteq Nat
ASSUME StatesAssumption == {"paused", "connected"} \subseteq States
ASSUME SizesAssumption ==
  /\ MaxWords \in Nat \ {0}
  /\ BreakGap \in Nat \ {0}
  /\ MusicReplayWindow \in Nat
  /\ MaxUtterance \in Nat \ {0}
  /\ SubscriberBuffer \in Nat \ {0, 1}   \* Subscribe sends two events unread
  /\ MaxCalls \in Nat

VARIABLES
  committed, uttStart, uttSpeaker, uttEnd, uttEndOK, prevEnd, lastSpeaker,
  lastState,
  music, held, musicTimer, musicToken, pendingEnd, newestMedia,
  confirmedCutoff, cutoffSet,
  armed,       (* tokens of the AfterFunc timers still running               *)
  fired,       (* tokens of the timers that expired, waiting for `op'        *)
  replay,      (* held segments releaseMusic has still to publish            *)
  seq, subs, inbox,
  lost,        (* subscribers some broadcast found full                      *)
  shown, seen, (* what a client read last: indicators, sequence number       *)
  calls,       (* public operations so far                                   *)
  arrived,     (* segments delivered so far; numbers them                    *)
  painted,     (* every segment broadcast as a caption, in order             *)
  transcript,  (* what OnFinal and OnMarker were given, in order             *)
  recorded,    (* the text of those lines, line boundaries forgotten         *)
  muted,       (* segments since the freeze (or the last discard), uncut     *)
  discarded    (* number of the last segment when the hub last said: no more *)
               (* of what is held                                            *)

lineVars == <<committed, uttStart, uttSpeaker, uttEnd, uttEndOK, prevEnd,
              lastSpeaker>>
musicVars == <<music, held, musicTimer, musicToken, pendingEnd, newestMedia,
               confirmedCutoff, cutoffSet, armed, fired, muted, discarded>>
clientVars == <<subs, shown, seen>>
wireVars == <<seq, inbox, lost>>
recordVars == <<painted, transcript, recorded>>
timerVars == <<musicTimer, musicToken, pendingEnd, armed, fired>>
vars == <<lineVars, lastState, musicVars, replay, clientVars, wireVars, calls,
          arrived, recordVars>>
-----------------------------------------------------------------------------
MaxOf(a, b) == IF a >= b THEN a ELSE b

End(t) == t.start + t.dur

FirstWord(W) == CHOOSE w \in W : \A v \in W : w.pos <= v.pos
LastWord(W) == CHOOSE w \in W : \A v \in W : v.pos <= w.pos

(* The segment of a provider with no word times: one word without an end.   *)
Untimed(t) == \E w \in t.words : t.words = {w} /\ w.end = 0

WordsFrom(t, at) == {w \in t.words : w.start >= at}

(* afterMusic: whether anything of t is left from `at' on, and what is.     *)
Survives(t, at) == IF Untimed(t) THEN t.start >= at ELSE WordsFrom(t, at) # {}

AfterMusic(t, at) ==
  LET kept == WordsFrom(t, at)
      from == FirstWord(kept).start
  IN  IF Untimed(t) THEN t
      ELSE [t EXCEPT !.words = kept, !.start = from,
                     !.dur = MaxOf(LastWord(kept).end - from, 0)]

Surviving(S, at) == {AfterMusic(t, at) : t \in {u \in S : Survives(u, at)}}

(* trimHeldLocked, given the newest media time seen.                        *)
Trimmed(S, newest) ==
  IF newest - MusicReplayWindow <= 0 THEN S
  ELSE Surviving(S, newest - MusicReplayWindow)

IsBreak(t) == t.start - prevEnd < 0 \/ t.start - prevEnd >= BreakGap

(* Slip: compares with the speaker the open line is stamped with.           *)
SpeakerChangedFromStamp(t) ==
  uttSpeaker # 0 /\ t.speaker # 0 /\ t.speaker # uttSpeaker

SpeakerChanged(t) ==
  lastSpeaker # 0 /\ t.speaker # 0 /\ t.speaker # lastSpeaker

EndsSentence(text) == LastWord(text[Len(text)].words).stop

(* closeLocked: when the line `text' is closed.                             *)
MustClose(text, broke) ==
  /\ text # <<>>
  /\ broke \/ EndsSentence(text) \/ Len(text) >= MaxUtterance

Line(text, start, speaker, end, endOK) ==
  [kind |-> "line", text |-> text, offset |-> start, speaker |-> speaker,
   end |-> end, endOK |-> endOK]

OpenLine == Line(committed, uttStart, uttSpeaker, uttEnd, uttEndOK)

Marker(kind, at) == [kind |-> kind, offset |-> at]
-----------------------------------------------------------------------------
(* broadcast: never blocks; a subscriber whose channel is full misses the   *)
(* event and stays subscribed.                                              *)
Full(c) == Len(inbox[c]) >= SubscriberBuffer

Broadcast(kind, detail) ==
  LET ev == [seq |-> seq + 1, kind |-> kind, detail |-> detail]
  IN  /\ seq' = seq + 1
      /\ inbox' = [c \in Clients |-> IF c \in subs /\ ~Full(c)
                                     THEN Append(inbox[c], ev) ELSE inbox[c]]
      /\ lost' = lost \cup {c \in subs : Full(c)}

(* Slip: calls OnMarker before OnFinal.                                     *)
ForceCloseMarkersFirst(markers) ==
  /\ transcript' = transcript \o markers
                   \o (IF committed = <<>> THEN <<>> ELSE <<OpenLine>>)
  /\ recorded' = recorded \o committed
  /\ committed' = <<>>
  /\ UNCHANGED <<uttStart, uttSpeaker, uttEnd, uttEndOK, prevEnd, lastSpeaker,
                 painted>>

(* Slip: empties the open line before handing it to OnFinal.                *)
ForceCloseUnsaved(markers) ==
  /\ transcript' = transcript \o markers
  /\ committed' = <<>>
  /\ UNCHANGED <<uttStart, uttSpeaker, uttEnd, uttEndOK, prevEnd, lastSpeaker,
                 painted, recorded>>

(* closeLocked(true) followed by the markers of the same operation.         *)
ForceClose(markers) ==
  /\ transcript' = transcript
                   \o (IF committed = <<>> THEN <<>> ELSE <<OpenLine>>)
                   \o markers
  /\ recorded' = recorded \o committed
  /\ committed' = <<>>
  /\ UNCHANGED <<uttStart, uttSpeaker, uttEnd, uttEndOK, prevEnd, lastSpeaker,
                 painted>>

(* The part of publish that paints t and decides which lines close.         *)
Paint(t) ==
  LET broke  == IsBreak(t)
      before == MustClose(committed, broke \/ SpeakerChanged(t))
      base   == IF before THEN <<>> ELSE committed
      text   == Append(base, t)
      start  == IF base = <<>> THEN t.start ELSE uttStart
      who    == IF base = <<>> THEN t.speaker ELSE uttSpeaker
      after  == MustClose(text, FALSE)
  IN  /\ uttStart' = start
      /\ uttSpeaker' = who
      /\ uttEnd' = End(t)
      /\ uttEndOK' = (t.dur > 0)
      /\ prevEnd' = End(t)
      /\ lastSpeaker' = IF t.speaker # 0 THEN t.speaker ELSE lastSpeaker
      /\ committed' = IF after THEN <<>> ELSE text
      /\ painted' = Append(painted, t)
      /\ transcript' = transcript
           \o (IF before THEN <<OpenLine>> ELSE <<>>)
           \o (IF after THEN <<Line(text, start, who, End(t), t.dur > 0)>>
                        ELSE <<>>)
      /\ recorded' = recorded \o (IF before THEN committed ELSE <<>>)
                              \o (IF after THEN text ELSE <<>>)
      /\ Broadcast("caption", IF broke THEN "break" ELSE "flow")

(* Slip: forgets that results for the song may still arrive after its end.  *)
PublishLiveUncut(t) == Paint(t)

(* publish with the music gate open: late song words are cut off first.     *)
PublishLive(t) ==
  IF cutoffSet /\ ~Survives(t, confirmedCutoff)
  THEN UNCHANGED <<lineVars, recordVars, wireVars>>
  ELSE Paint(IF cutoffSet THEN AfterMusic(t, confirmedCutoff) ELSE t)

(* publish while music plays: the segment is set aside.                     *)
Hold(t) ==
  /\ newestMedia' = MaxOf(newestMedia, End(t))
  /\ held' = Trimmed(held \cup {t}, newestMedia')
  /\ muted' = muted \cup {t}
  /\ UNCHANGED <<music, confirmedCutoff, cutoffSet, timerVars, discarded>>
-----------------------------------------------------------------------------
(* Slip: an operation takes `mu' alone, and so gets between two replays.     *)
CallWithoutOp ==
  /\ calls < MaxCalls
  /\ calls' = calls + 1
  /\ UNCHANGED replay

(* A public operation: takes `op', which a running release may still hold.  *)
Call ==
  /\ replay = {}
  /\ calls < MaxCalls
  /\ calls' = calls + 1
  /\ UNCHANGED replay

Publish(s) ==
  /\ Call
  /\ s.words # {}
  /\ arrived' = arrived + 1
  /\ LET t == [s EXCEPT !.n = arrived + 1]
     IN  \/ /\ music
            /\ Hold(t)
            /\ UNCHANGED <<lineVars, recordVars, wireVars>>
         \/ /\ ~music
            /\ PublishLive(t)
            /\ UNCHANGED musicVars
  /\ UNCHANGED <<lastState, clientVars>>

(* `held = nil': what the song covered is given up.                         *)
DiscardHeld ==
  /\ held' = {}
  /\ muted' = {}
  /\ discarded' = arrived

(* cancelMusicEndLocked: Stop is too late for a callback already waiting.   *)
CancelMusicEnd ==
  /\ armed' = IF musicTimer THEN armed \ {musicToken} ELSE armed
  /\ musicTimer' = FALSE
  /\ musicToken' = musicToken + 1
  /\ pendingEnd' = 0
  /\ UNCHANGED fired

(* Slip: freezes the screen without closing the line it interrupts.         *)
SetMusicOnOpenLine(at) ==
  /\ Call
  /\ newestMedia' = MaxOf(newestMedia, at)
  /\ ~music
  /\ music' = TRUE
  /\ confirmedCutoff' = 0
  /\ cutoffSet' = FALSE
  /\ held' = Trimmed(held, newestMedia')
  /\ muted' = {}
  /\ Broadcast("music", "on")
  /\ UNCHANGED <<timerVars, discarded, lineVars, recordVars, lastState,
                 clientVars, arrived>>

SetMusicOn(at) ==
  /\ Call
  /\ newestMedia' = MaxOf(newestMedia, at)
  /\ \/ /\ ~music
        /\ music' = TRUE
        /\ confirmedCutoff' = 0
        /\ cutoffSet' = FALSE
        /\ held' = Trimmed(held, newestMedia')
        /\ muted' = {}
        /\ ForceClose(<<Marker("music", at)>>)
        /\ Broadcast("music", "on")
        /\ UNCHANGED <<timerVars, discarded>>
     \/ /\ music
        /\ \/ /\ musicTimer
              /\ CancelMusicEnd
              /\ DiscardHeld
           \/ /\ ~musicTimer
              /\ held' = Trimmed(held, newestMedia')
              /\ UNCHANGED <<timerVars, muted, discarded>>
        /\ UNCHANGED <<music, confirmedCutoff, cutoffSet, lineVars, recordVars,
                       wireVars>>
  /\ UNCHANGED <<lastState, clientVars, arrived>>

SetMusicOff(at) ==
  /\ Call
  /\ newestMedia' = MaxOf(newestMedia, at)
  /\ held' = Trimmed(held, newestMedia')
  /\ \/ /\ music /\ ~musicTimer
        /\ pendingEnd' = at
        /\ musicToken' = musicToken + 1
        /\ musicTimer' = TRUE
        /\ armed' = armed \cup {musicToken'}
     \/ /\ ~music \/ musicTimer
        /\ UNCHANGED <<pendingEnd, musicToken, musicTimer, armed>>
  /\ UNCHANGED <<music, confirmedCutoff, cutoffSet, fired, muted, discarded,
                 lineVars, lastState, recordVars, wireVars, clientVars, arrived>>

ResetConnection ==
  /\ Call
  /\ CancelMusicEnd
  /\ DiscardHeld
  /\ newestMedia' = 0
  /\ confirmedCutoff' = 0
  /\ cutoffSet' = FALSE
  /\ music' = FALSE
  /\ IF music THEN Broadcast("music", "off") ELSE UNCHANGED wireVars
  /\ UNCHANGED <<lineVars, lastState, recordVars, clientVars, arrived>>

PublishStatus(state) ==
  /\ Call
  /\ lastState' = state
  /\ IF state = "paused" /\ lastState # "paused"
     THEN ForceClose(<<Marker("silence", MaxOf(prevEnd, newestMedia))>>)
     ELSE UNCHANGED <<lineVars, recordVars>>
  /\ Broadcast("status", state)
  /\ UNCHANGED <<musicVars, clientVars, arrived>>

(* Slip: wipes the screen but not what a song is holding back.              *)
ClearKeepsHeld ==
  /\ Call
  /\ discarded' = arrived
  /\ ForceClose(<<>>)
  /\ Broadcast("clear", "")
  /\ UNCHANGED <<lastState, music, held, muted, newestMedia, confirmedCutoff,
                 cutoffSet, timerVars, clientVars, arrived>>

Clear ==
  /\ Call
  /\ DiscardHeld
  /\ ForceClose(<<>>)
  /\ Broadcast("clear", "")
  /\ UNCHANGED <<lastState, music, newestMedia, confirmedCutoff, cutoffSet,
                 timerVars, clientVars, arrived>>

Flush ==
  /\ Call
  /\ CancelMusicEnd
  /\ DiscardHeld
  /\ ForceClose(<<>>)
  /\ UNCHANGED <<lastState, music, newestMedia, confirmedCutoff, cutoffSet,
                 wireVars, clientVars, arrived>>
-----------------------------------------------------------------------------
(* The hold of the music-end edge elapses: its callback now waits for `op'. *)
TimerFires(k) ==
  /\ k \in armed
  /\ armed' = armed \ {k}
  /\ fired' = fired \cup {k}
  /\ UNCHANGED <<lineVars, lastState, music, held, musicTimer, musicToken,
                 pendingEnd, newestMedia, confirmedCutoff, cutoffSet, muted,
                 discarded, replay, clientVars, wireVars, calls, arrived, recordVars>>

(* releaseMusic up to its loop: ends the song, if `guard', at `cutoff'.     *)
ReleaseAt(k, guard, cutoff) ==
  /\ k \in fired
  /\ replay = {}
  /\ fired' = fired \ {k}
  /\ IF guard
     THEN /\ musicTimer' = FALSE
          /\ music' = FALSE
          /\ confirmedCutoff' = cutoff
          /\ cutoffSet' = TRUE
          /\ replay' = Surviving(held, cutoff)
          /\ held' = {}
          /\ muted' = {}
          /\ Broadcast("music", "off")
     ELSE UNCHANGED <<musicTimer, music, confirmedCutoff, cutoffSet, replay,
                      held, muted, wireVars>>
  /\ UNCHANGED <<lineVars, lastState, musicToken, pendingEnd, newestMedia,
                 armed, discarded, clientVars, calls, arrived, recordVars>>

MusicCutoff == MaxOf(pendingEnd, newestMedia - MusicReplayWindow)
Current(k) == musicTimer /\ musicToken = k /\ music

(* Slips: any callback ends the song; the newest media time decides what is *)
(* released; nothing held, nothing to do.                                   *)
ReleaseMusicAnyToken(k) == ReleaseAt(k, musicTimer /\ music, MusicCutoff)
ReleaseMusicAtNewest(k) == ReleaseAt(k, Current(k), newestMedia)
ReleaseMusicIfHeld(k) == ReleaseAt(k, Current(k) /\ held # {}, MusicCutoff)

(* The callback that lost the race, or found the edge withdrawn, does nothing.*)
ReleaseMusic(k) == ReleaseAt(k, Current(k), MusicCutoff)

(* One turn of releaseMusic's loop: the oldest held segment is published.   *)
ReplayNext ==
  \E t \in replay :
    /\ \A u \in replay : t.n <= u.n
    /\ replay' = replay \ {t}
    /\ PublishLive(t)
    /\ UNCHANGED <<lastState, musicVars, clientVars, calls, arrived>>
-----------------------------------------------------------------------------
(* A fresh channel that starts with the given events.                       *)
SubscribeWith(c, snapshots, last) ==
  /\ Call
  /\ c \notin subs
  /\ subs' = subs \cup {c}
  /\ seq' = last
  /\ inbox' = [inbox EXCEPT ![c] = snapshots]
  /\ UNCHANGED <<lost, shown, seen, lineVars, lastState, musicVars, arrived,
                 recordVars>>

StatusSnapshot(n) == [seq |-> n, kind |-> "status", detail |-> lastState]
MusicSnapshot(n) ==
  [seq |-> n, kind |-> "music", detail |-> IF music THEN "on" ELSE "off"]

(* Slip: no music snapshot is sent when no music plays, as if every client  *)
(* started out fresh.                                                       *)
SubscribeOnlyMusicOn(c) ==
  IF music
  THEN SubscribeWith(c, <<StatusSnapshot(seq + 1), MusicSnapshot(seq + 2)>>,
                     seq + 2)
  ELSE SubscribeWith(c, <<StatusSnapshot(seq + 1)>>, seq + 1)

(* Subscribe: a fresh channel that starts with both indicators.             *)
Subscribe(c) ==
  SubscribeWith(c, <<StatusSnapshot(seq + 1), MusicSnapshot(seq + 2)>>, seq + 2)

Unsubscribe(c) ==
  /\ Call
  /\ c \in subs
  /\ subs' = subs \ {c}
  /\ inbox' = [inbox EXCEPT ![c] = <<>>]
  /\ lost' = lost \ {c}
  /\ UNCHANGED <<seq, shown, seen, lineVars, lastState, musicVars, arrived,
                 recordVars>>

(* The client's handler takes one event off its channel, without `op'.      *)
Receive(c) ==
  /\ inbox[c] # <<>>
  /\ LET ev == Head(inbox[c])
     IN  /\ seen' = [seen EXCEPT ![c] = ev.seq]
         /\ shown' = IF ev.kind \in {"status", "music"}
                     THEN [shown EXCEPT ![c][ev.kind] = ev.detail] ELSE shown
  /\ inbox' = [inbox EXCEPT ![c] = Tail(@)]
  /\ UNCHANGED <<lineVars, lastState, musicVars, replay, subs, seq, lost, calls,
                 arrived, recordVars>>
-----------------------------------------------------------------------------
Init ==
  /\ committed = <<>> /\ uttStart = 0 /\ uttSpeaker = 0 /\ uttEnd = 0
  /\ uttEndOK = FALSE /\ prevEnd = 0 /\ lastSpeaker = 0
  /\ lastState = ""
  /\ music = FALSE /\ held = {} /\ musicTimer = FALSE /\ musicToken = 0
  /\ pendingEnd = 0 /\ newestMedia = 0 /\ confirmedCutoff = 0
  /\ cutoffSet = FALSE /\ armed = {} /\ fired = {} /\ replay = {} /\ muted = {}
  /\ discarded = 0
  /\ seq = 0 /\ subs = {} /\ lost = {}
  /\ inbox = [c \in Clients |-> <<>>]
  /\ shown = [c \in Clients |-> [status |-> "", music |-> "off"]]
  /\ seen = [c \in Clients |-> 0]
  /\ calls = 0 /\ arrived = 0
  /\ painted = <<>> /\ transcript = <<>> /\ recorded = <<>>

Next ==
  \/ \E s \in Segments : Publish(s)
  \/ \E at \in MusicTimes : SetMusicOn(at)
  \/ \E at \in MusicTimes : SetMusicOff(at)
  \/ ResetConnection
  \/ \E state \in States : PublishStatus(state)
  \/ Clear
  \/ Flush
  \/ \E k \in armed : TimerFires(k)
  \/ \E k \in fired : ReleaseMusic(k)
  \/ ReplayNext
  \/ \E c \in Clients : Subscribe(c)
  \/ \E c \in Clients : Unsubscribe(c)
  \/ \E c \in Clients : Receive(c)

Spec == Init /\ [][Next]_vars

(* The runtime runs an expired AfterFunc, a goroutine that waits for `op'   *)
(* gets it, and the release loop runs to its end.  No call has to come.     *)
Fairness ==
  /\ WF_vars(\E k \in armed : TimerFires(k))
  /\ WF_vars(\E k \in fired : ReleaseMusic(k))
  /\ WF_vars(ReplayNext)

FairSpec == Spec /\ Fairness
-----------------------------------------------------------------------------
Kinds == {"caption", "status", "music", "clear"}

Details(kind) ==
  CASE kind = "caption" -> {"break", "flow"}
    [] kind = "status"  -> States \cup {""}
    [] kind = "music"   -> {"on", "off"}
    [] kind = "clear"   -> {""}

Event ==
  {e \in [seq : Nat, kind : Kinds, detail : UNION {Details(k) : k \in Kinds}] :
     e.detail \in Details(e.kind)}

TranscriptEntry ==
  [kind : {"line"}, text : Seq(Segment), offset : Nat, speaker : Nat,
   end : Nat, endOK : BOOLEAN]
  \cup [kind : {"music", "silence"}, offset : Nat]

Indicators == [status : States \cup {""}, music : {"on", "off"}]

(* Every variable stays in the set of values the Go types allow.            *)
TypeOK ==
  /\ committed \in Seq(Segment)
  /\ uttStart \in Nat /\ uttSpeaker \in Nat /\ uttEnd \in Nat
  /\ prevEnd \in Nat /\ lastSpeaker \in Nat
  /\ uttEndOK \in BOOLEAN
  /\ lastState \in States \cup {""}
  /\ music \in BOOLEAN /\ musicTimer \in BOOLEAN /\ cutoffSet \in BOOLEAN
  /\ held \subseteq Segment /\ muted \subseteq Segment
  /\ replay \subseteq Segment
  /\ musicToken \in Nat /\ pendingEnd \in Nat
  /\ newestMedia \in Nat /\ confirmedCutoff \in Nat
  /\ armed \subseteq Nat /\ fired \subseteq Nat
  /\ subs \subseteq Clients /\ lost \subseteq subs
  /\ seq \in Nat
  /\ inbox \in [Clients -> Seq(Event)]
  /\ shown \in [Clients -> Indicators]
  /\ seen \in [Clients -> Nat]
  /\ calls \in Nat /\ arrived \in Nat /\ discarded \in Nat
  /\ painted \in Seq(Segment) /\ recorded \in Seq(Segment)
  /\ transcript \in Seq(TranscriptEntry)

(* The transcript, with the open line, says exactly what viewers were sent: *)
(* every painted segment is in one line, once, in the order it was painted  *)
(* (publish and the four operations that force a line closed).              *)
TranscriptIsWhatWasPainted == painted = recorded \o committed

(* Captions go out in the order the recognizer delivered the segments, and  *)
(* none twice, although music holds some back (publish, releaseMusic).      *)
PaintedInArrivalOrder ==
  /\ \A i, j \in 1..Len(painted) : i < j => painted[i].n < painted[j].n
  /\ \A i \in 1..Len(painted), t \in held \cup replay : painted[i].n < t.n
  /\ \A t \in held \cup replay : t.n <= arrived
  /\ \A i \in 1..Len(painted) : painted[i].n <= arrived

OneVoice(text, stamp) ==
  /\ \A i, j \in 1..Len(text) :
       text[i].speaker # 0 /\ text[j].speaker # 0
         => text[i].speaker = text[j].speaker
  /\ stamp # 0 => \A i \in 1..Len(text) : text[i].speaker \in {0, stamp}

(* No transcript line mixes two known speakers, and a line stamped with a   *)
(* speaker holds nobody else's words (the comment on uttSpeaker).           *)
OneVoicePerLine ==
  /\ committed # <<>> => OneVoice(committed, uttSpeaker)
  /\ \A i \in 1..Len(transcript) :
       transcript[i].kind = "line"
         => OneVoice(transcript[i].text, transcript[i].speaker)

(* While music plays the screen is frozen: no line is open, no release is   *)
(* under way, and once music is over nothing is left behind in `held'.      *)
FrozenWhileMusic ==
  /\ music => committed = <<>> /\ replay = {}
  /\ ~music => held = {} /\ ~musicTimer

(* What the operator cleared, a closed connection left frozen or a song cut  *)
(* short never reaches the screen later (DiscardHeld's four callers).       *)
NothingDiscardedReturns ==
  [][\A i \in Len(painted) + 1 .. Len(painted') :
       painted'[i].n > discarded]_vars

(* Trimming the held segments as media time advances loses nothing that     *)
(* trimming them once, at the newest media time, would have kept.           *)
TrimmingIsHarmless == held = Trimmed(muted, newestMedia)

(* What c will show once it has read its channel.                           *)
WillShow(c, kind) ==
  LET hits == {i \in 1..Len(inbox[c]) : inbox[c][i].kind = kind}
  IN  IF hits = {} THEN shown[c][kind]
      ELSE inbox[c][CHOOSE i \in hits : \A j \in hits : j <= i].detail

(* A subscriber that missed no event ends up with the hub's own indicators, *)
(* whenever it joined: Subscribe's two first events leave no gap before the *)
(* broadcasts that follow.                                                  *)
ViewersAgree ==
  \A c \in subs \ lost :
    /\ WillShow(c, "status") = lastState
    /\ WillShow(c, "music") = IF music THEN "on" ELSE "off"

Released == music /\ ~music' /\ musicToken' = musicToken

(* A release paints exactly the words heard since the song froze the screen *)
(* that start at or after the confirmed end and inside the replay window.   *)
ReleaseIsExact ==
  [][Released => replay' = Surviving(muted, MusicCutoff)]_vars

(* Music ends only when the hold of the latest end edge, not an abandoned   *)
(* one, has elapsed (the token check of releaseMusic).                      *)
OwnHoldElapsed == [][Released => musicToken \in fired]_vars

(* After music, no word from before its confirmed end is ever painted, be   *)
(* it held or delivered late (afterMusic in publish).                       *)
NoSongWordPainted ==
  [][\A i \in Len(painted) + 1 .. Len(painted') :
       /\ ~music
       /\ cutoffSet => \/ \A w \in painted'[i].words :
                             w.start >= confirmedCutoff
                       \/ /\ Untimed(painted'[i])
                          /\ painted'[i].start >= confirmedCutoff]_vars

(* A music-end edge either gets its release or is withdrawn by a new onset, *)
(* a connection end or shutdown: the screen is not left frozen by a timer.  *)
EndEdgeIsSettled == musicTimer ~> ~musicTimer

(* The hub implements the append-only stream of captions and its record.    *)
Readers == INSTANCE CaptionStream
             WITH screen <- painted, saved <- recorded, frozen <- music

ImplementsCaptionStream == Readers!StreamSpec

(* hub.go:94 and hub.go:706 say that a subscriber that cannot keep up is    *)
(* dropped and reconnects: whoever loses an event is no longer subscribed.  *)
SlowSubscriberIsDropped == lost = {}
=============================================================================
