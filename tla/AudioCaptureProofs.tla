------------------------- MODULE AudioCaptureProofs -------------------------
(***************************************************************************)
(* Theorems about the audio capture, for any sources, listeners, pipes and  *)
(* processes: channels are closed once, and media time has no gap.          *)
(***************************************************************************)
EXTENDS AudioCapture, TLAPS

(* The map holds exactly the listeners with an open channel; a closed       *)
(* Broadcaster has none, and who has not come yet has no channel.           *)
ChannelInv ==
  /\ subs \subseteq Listeners
  /\ chan \in [Listeners -> {"none", "open", "closed"}]
  /\ listener \in [Listeners -> {"none", "wait", "write", "gone"}]
  /\ closed => subs = {}
  /\ \A l \in subs : listener[l] # "none"
  /\ ChannelsCloseOnce

LEMMA LeavesOnce ==
  ASSUME ChannelInv, NEW l \in Listeners, Leaves(l)
  PROVE  ChannelInv'
<1>1. CASE l \in subs
  <2>1. subs' = subs \ {l} /\ chan' = [chan EXCEPT ![l] = "closed"]
        /\ listener' = [listener EXCEPT ![l] = "gone"] /\ closed' = closed
    BY <1>1 DEF Leaves, Unsubscribe, CloseChannel
  <2>2. panicked' = (panicked \/ chan[l] = "closed")
    BY <1>1 DEF Leaves, Unsubscribe, CloseChannel
  <2>3. chan[l] = "open" /\ ~panicked
    BY <1>1 DEF ChannelInv, ChannelsCloseOnce
  <2> QED
    BY <2>1, <2>2, <2>3 DEF ChannelInv, ChannelsCloseOnce
<1>2. CASE l \notin subs
  <2>1. /\ UNCHANGED <<subs, chan, panicked, closed>>
        /\ listener' = [listener EXCEPT ![l] = "gone"]
    BY <1>2 DEF Leaves, Unsubscribe
  <2> QED
    BY <2>1 DEF ChannelInv, ChannelsCloseOnce
<1> QED
  BY <1>1, <1>2

LEMMA ChannelStep == ChannelInv /\ [Next]_vars => ChannelInv'
<1> SUFFICES ASSUME ChannelInv, [Next]_vars
             PROVE  ChannelInv'
  OBVIOUS
<1> USE DEF ChannelInv, ChannelsCloseOnce
<1>1. CASE UNCHANGED castVars
  BY <1>1 DEF castVars
<1>2. ASSUME NEW i \in 1..MaxProcs, RunReads(i) PROVE ChannelInv'
  BY <1>2 DEF RunReads, Publish
<1>3. ASSUME NEW i \in 1..MaxProcs, RunEnds(i) PROVE ChannelInv'
  BY <1>3 DEF RunEnds
<1>4. ASSUME NEW l \in Listeners, Subscribe(l) PROVE ChannelInv'
  BY <1>4 DEF Subscribe
<1>5. ASSUME NEW l \in Listeners, Receive(l) \/ Written(l) PROVE ChannelInv'
  BY <1>5 DEF Receive, Written
<1>6. ASSUME NEW l \in Listeners, ClientLeaves(l) \/ SeesClosed(l) PROVE ChannelInv'
  BY <1>6, LeavesOnce DEF ClientLeaves, SeesClosed
<1>7. CASE CloseAudio
  BY <1>7 DEF CloseAudio, CloseSubs
<1>8. CASE LaunchAt(offset)
  BY <1>8 DEF LaunchAt
<1>9. CASE Loop
  BY <1>8, <1>1, <1>9 DEF Loop, Launch, LaunchFails, Read, Deliver, LoopCloses, LoopWaited,
                          WaitReturns, Announce, Sleep, LoopEnds
<1>10. CASE FFmpeg \/ DeviceGoes \/ CancelSignals \/ WaitDelayKills \/ Drains
  BY <1>1, <1>10 DEF FFmpeg, Writes, ExitsWhenAsked, FileEnds, DeviceGoes, CancelSignals,
                     WaitDelayKills, Drains, Exit
<1>11. CASE Cancel \/ EngineEnds \/ CloseSource \/ SourceClosed \/ EndSession \/ CloseWriter
  BY <1>1, <1>11 DEF Cancel, EngineEnds, CloseSource, SourceClosed, WaitReturns,
                     EndSession, EndSessionWhen, CloseWriter
<1>12. CASE UNCHANGED vars
  BY <1>1, <1>12 DEF vars
<1> QED
  BY <1>2, <1>3, <1>4, <1>5, <1>6, <1>7, <1>9, <1>10, <1>11, <1>12 DEF Next, Shutdown

(* A listener's channel is closed once and nothing is sent to it after      *)
(* that, whoever of its handler, the readers of successive processes and    *)
(* the shutdown comes first (publish, Subscribe, Close of broadcast.go).    *)
THEOREM EachChannelClosedOnce == Spec => []ChannelsCloseOnce
<1>1. Init => ChannelInv
  BY DEF Init, ChannelInv, ChannelsCloseOnce
<1>2. ChannelInv => ChannelsCloseOnce
  BY DEF ChannelInv
<1> QED
  BY <1>1, <1>2, ChannelStep, PTL DEF Spec
-----------------------------------------------------------------------------
(* The source has counted what it sent, the frame in hand, and nothing else, *)
(* except for a frame it dropped because the session was cancelled.         *)
MediaInv ==
  /\ offset \in Nat /\ pipe \in Nat
  /\ hand \in [n : Nat, ended : BOOLEAN]
  /\ sent \in [n : Nat, offset : Nat]
  /\ loop = "deliver" => offset = sent.offset + hand.n
  /\ loop # "deliver" => \/ offset = sent.offset
                         \/ cancelled /\ loop \in {"close", "wait", "over"}

LEMMA ReadCounts ==
  ASSUME MediaInv, Read
  PROVE  MediaInv'
<1> DEFINE n == IF pipe >= 2 THEN 2 ELSE pipe
<1>1. /\ hand' = [n |-> n, ended |-> n < 2]
      /\ pipe' = pipe - n
      /\ offset' = offset + n
      /\ loop = "read"
      /\ loop' = IF n > 0 THEN "deliver" ELSE "close"
      /\ UNCHANGED <<sent, cancelled>>
  BY DEF Read
<1>2. n \in Nat /\ pipe - n \in Nat
  BY DEF MediaInv
<1>3. offset = sent.offset /\ offset \in Nat /\ sent.offset \in Nat
  BY <1>1 DEF MediaInv
<1>4. hand' \in [n : Nat, ended : BOOLEAN] /\ hand'.n = n
  BY <1>1, <1>2
<1>5. (loop' = "deliver" => offset' = sent'.offset + hand'.n)
      /\ (loop' # "deliver" => offset' = sent'.offset)
  BY <1>1, <1>2, <1>3, <1>4
<1> HIDE DEF n
<1> QED
  BY <1>1, <1>2, <1>3, <1>4, <1>5 DEF MediaInv

LEMMA DeliverCounts ==
  ASSUME MediaInv, Deliver
  PROVE  /\ MediaInv'
         /\ sent' # sent => sent'.offset = sent.offset + sent'.n
<1>1. loop = "deliver" /\ hand' = [n |-> 0, ended |-> FALSE] /\ UNCHANGED <<offset, pipe, cancelled>>
  BY DEF Deliver, procVars, Empty
<1>2. offset = sent.offset + hand.n /\ hand.n \in Nat
  BY <1>1 DEF MediaInv
<1>3. CASE sent' = [n |-> hand.n, offset |-> offset] /\ loop' \in {"close", "read"}
  BY <1>1, <1>2, <1>3 DEF MediaInv
<1>4. CASE cancelled /\ loop' = "close" /\ sent' = sent
  BY <1>1, <1>2, <1>4 DEF MediaInv
<1> QED
  BY <1>3, <1>4 DEF Deliver

LEMMA MediaStep ==
  ASSUME MediaInv, [Next]_vars
  PROVE  /\ MediaInv'
         /\ sent' # sent => sent'.offset = sent.offset + sent'.n
<1>1. CASE Read
  BY <1>1, ReadCounts DEF Read
<1>2. CASE Deliver
  BY <1>2, DeliverCounts
<1>3. CASE Launch
  BY <1>3 DEF MediaInv, Launch, LaunchAt
<1>4. CASE LaunchFails \/ LoopCloses \/ LoopWaited \/ Announce \/ Sleep \/ LoopEnds
  BY <1>4 DEF MediaInv, LaunchFails, LoopCloses, LoopWaited, Announce, Sleep, LoopEnds,
              AfterProcess, CloseProc, procVars
<1>5. CASE FFmpeg \/ DeviceGoes \/ CancelSignals \/ WaitDelayKills \/ Drains
  BY <1>5 DEF MediaInv, FFmpeg, Writes, ExitsWhenAsked, FileEnds, DeviceGoes, CancelSignals,
              WaitDelayKills, Drains, Exit, loopVars
<1>6. ASSUME NEW i \in 1..MaxProcs, RunReads(i) \/ RunEnds(i)
      PROVE  MediaInv' /\ sent' = sent
  BY <1>6 DEF MediaInv, RunReads, RunEnds, loopVars, procVars
<1>7. ASSUME NEW l \in Listeners,
             Subscribe(l) \/ Receive(l) \/ Written(l) \/ ClientLeaves(l) \/ SeesClosed(l)
      PROVE  MediaInv' /\ sent' = sent
  BY <1>7 DEF MediaInv, Subscribe, Receive, Written, ClientLeaves, SeesClosed, Leaves,
              loopVars, procVars
<1>8. CASE Cancel \/ EngineEnds \/ CloseAudio \/ CloseSource
  BY <1>8 DEF MediaInv, Cancel, EngineEnds, CloseAudio, CloseSubs, CloseSource, CloseProc,
              loopVars, procVars
<1>9. CASE SourceClosed \/ EndSession \/ CloseWriter
  BY <1>9 DEF MediaInv, SourceClosed, EndSession, EndSessionWhen, CloseWriter,
              loopVars, procVars
<1>10. CASE UNCHANGED vars
  BY <1>10 DEF MediaInv, vars, loopVars, procVars
<1> QED
  BY <1>1, <1>2, <1>3, <1>4, <1>5, <1>6, <1>7, <1>8, <1>9, <1>10 DEF Next, Loop, Shutdown

(* Every frame starts where the one before it ended, however many processes *)
(* died in between (captureOnce, which leaves s.offset to its successor).   *)
THEOREM MediaTimeHasNoGap == Spec => MediaTimeIsContinuous
<1>1. Init => MediaInv
  <2> SUFFICES ASSUME Init PROVE MediaInv
    OBVIOUS
  <2>1. hand = [n |-> 0, ended |-> FALSE] /\ sent = [n |-> 0, offset |-> 0]
        /\ offset = 0 /\ pipe = 0 /\ loop \in {"blocked", "launch"}
    BY DEF Init, Empty
  <2> QED
    BY <2>1 DEF MediaInv
<1>2. MediaInv /\ [Next]_vars => MediaInv'
  BY MediaStep
<1>3. MediaInv /\ [Next]_vars
      => [sent' # sent => sent'.offset = sent.offset + sent'.n]_vars
  BY MediaStep
<1> QED
  BY <1>1, <1>2, <1>3, PTL DEF Spec, MediaTimeIsContinuous
=============================================================================
