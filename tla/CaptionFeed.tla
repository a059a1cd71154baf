---------------------------- MODULE CaptionFeed -----------------------------
(***************************************************************************)
(* The hub as one live session drives it: the calls arrive in the order in  *)
(* which the shared driver (internal/stt/session.go, run) makes them, and   *)
(* with source times that only advance, as a well behaved recognizer        *)
(* reports them after the driver's normalization.  The callbacks are those  *)
(* of internal/cli/run.go: OnTranscript = Publish, OnMusic = SetMusic,      *)
(* OnConnectionEnd = ResetConnection, and every change of the STT state     *)
(* reaches PublishStatus through the metrics hook.                          *)
(***************************************************************************)
EXTENDS CaptionHub

VARIABLES
  link,     (* "idle", "dialing", "up", "ended" (reset done, fate pending),  *)
            (* "closed": where run is in its loop                            *)
  clock,    (* latest source time any result has carried                     *)
  singing,  (* the provider reported a music start without its end           *)
  onset     (* source time of that start                                     *)

feedVars == <<link, clock, singing, onset>>
allVars == <<vars, feedVars>>

ASSUME FeedStatesAssumption ==
  {"connecting", "connected", "reconnecting", "paused"} \subseteq States

(* The words of a timed segment lie inside it, in the order of their times. *)
ASSUME FeedSegmentsAssumption ==
  \A s \in Segments :
    \/ Untimed(s)
    \/ \A w \in s.words :
         /\ s.start <= w.start /\ w.start <= End(s)
         /\ \A v \in s.words : v.pos <= w.pos => v.start <= w.start

(* dial: SetSTTState(StateConnecting) before the handshake.                 *)
Dial ==
  /\ link = "idle"
  /\ PublishStatus("connecting")
  /\ link' = "dialing"
  /\ UNCHANGED <<clock, singing, onset>>

DialSucceeds ==
  /\ link = "dialing"
  /\ PublishStatus("connected")
  /\ link' = "up"
  /\ UNCHANGED <<clock, singing, onset>>

(* retryAfter: the state is published, the backoff slept, the loop restarts.*)
Retry ==
  /\ link \in {"dialing", "ended"}
  /\ PublishStatus("reconnecting")
  /\ link' = "idle"
  /\ UNCHANGED <<clock, singing, onset>>

(* waitResume: the gate was silent, the connection was hung up.             *)
Pause ==
  /\ link = "ended"
  /\ PublishStatus("paused")
  /\ link' = "idle"
  /\ UNCHANGED <<clock, singing, onset>>

(* The end of any connection that does not end the session: the hook first, *)
(* the next state afterwards.                                               *)
ConnectionEnds ==
  /\ link = "up"
  /\ ResetConnection
  /\ link' = "ended"
  /\ singing' = FALSE
  /\ UNCHANGED <<clock, onset>>

(* The session ends: no connection hook, the open line is flushed.          *)
SessionEnds ==
  /\ link # "closed"
  /\ Flush
  /\ link' = "closed"
  /\ UNCHANGED <<clock, singing, onset>>

Hear(s) ==
  /\ link = "up"
  /\ s.start >= clock
  /\ Publish(s)
  /\ clock' = End(s)
  /\ UNCHANGED <<link, singing, onset>>

MusicStarts(at) ==
  /\ link = "up"
  /\ ~singing
  /\ at >= clock
  /\ SetMusicOn(at)
  /\ singing' = TRUE
  /\ onset' = at
  /\ clock' = at
  /\ UNCHANGED link

(* The detector needs trailing context: its end edge may carry a time that  *)
(* segments delivered before it have already passed.                        *)
MusicStops(at) ==
  /\ link = "up"
  /\ singing
  /\ at > onset
  /\ SetMusicOff(at)
  /\ singing' = FALSE
  /\ clock' = MaxOf(clock, at)
  /\ UNCHANGED <<link, onset>>

OperatorClears == Clear /\ UNCHANGED feedVars

HoldElapses ==
  /\ \/ \E k \in armed : TimerFires(k)
     \/ \E k \in fired : ReleaseMusic(k)
     \/ ReplayNext
  /\ UNCHANGED feedVars

FeedInit == Init /\ link = "idle" /\ clock = 0 /\ singing = FALSE /\ onset = 0

FeedNext ==
  \/ Dial \/ DialSucceeds \/ Retry \/ Pause \/ ConnectionEnds \/ SessionEnds
  \/ \E s \in Segments : Hear(s)
  \/ \E at \in MusicTimes : MusicStarts(at)
  \/ \E at \in MusicTimes : MusicStops(at)
  \/ OperatorClears
  \/ HoldElapses

FeedSpec == FeedInit /\ [][FeedNext]_allVars

(* An armed timer expires, a callback that waits for `op' gets it, and a    *)
(* release runs to its end; nothing else has to happen.                     *)
FairFeedSpec ==
  /\ FeedSpec
  /\ WF_allVars(\E k \in armed : TimerFires(k) /\ UNCHANGED feedVars)
  /\ WF_allVars(\E k \in fired : ReleaseMusic(k) /\ UNCHANGED feedVars)
  /\ WF_allVars(ReplayNext /\ UNCHANGED feedVars)
-----------------------------------------------------------------------------
FeedTypeOK ==
  /\ TypeOK
  /\ link \in {"idle", "dialing", "up", "ended", "closed"}
  /\ clock \in Nat /\ onset \in Nat /\ singing \in BOOLEAN

InOrder(kinds) ==
  \A i, j \in 1..Len(transcript) :
    /\ i < j
    /\ transcript[i].kind \in kinds
    /\ transcript[j].kind \in kinds
    => transcript[i].offset <= transcript[j].offset

(* Speech lines and music markers never go back in time, across pauses,     *)
(* reconnects and releases of held segments: SetMusic closes the open line  *)
(* before its marker, and released words start no earlier than the song.    *)
SpeechAndMusicInOrder == InOrder({"line", "music"})

(* openspec/specs/transcript-timestamps/spec.md:10: "Timestamps within one  *)
(* transcript SHALL be nondecreasing".                                      *)
TimelineNondecreasing == InOrder({"line", "music", "silence"})
=============================================================================
