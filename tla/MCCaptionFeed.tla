--------------------------- MODULE MCCaptionFeed ----------------------------
(***************************************************************************)
(* A live session for TLC: one word a second over a few seconds, two        *)
(* speakers, sentence ends, music edges at any of those seconds.            *)
(***************************************************************************)
EXTENDS CaptionFeed

Seg(from, words, stop, speaker) ==
  [n |-> 0, start |-> from, dur |-> words, speaker |-> speaker,
   words |-> {[pos |-> i, start |-> from + i - 1, end |-> from + i,
               stop |-> stop] : i \in 1..words}]

MCSegments ==
  {Seg(0, 1, FALSE, 1), Seg(1, 2, FALSE, 1), Seg(3, 1, TRUE, 2),
   Seg(4, 2, FALSE, 1), Seg(6, 1, FALSE, 1)}

MCMusicTimes == {2, 3, 5}
MCStates == {"connecting", "connected", "reconnecting", "paused"}
=============================================================================
