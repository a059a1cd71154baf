---------------------------- MODULE MCCaptionHub ----------------------------
(***************************************************************************)
(* The caption hub for TLC: four segments that between them have one or two *)
(* words, no word times, three speakers, a sentence end and an overlap with *)
(* a music edge, and no text at all.                                        *)
(***************************************************************************)
EXTENDS CaptionHub

W(pos, start, end, stop) ==
  [pos |-> pos, start |-> start, end |-> end, stop |-> stop]

Seg(words, start, dur, speaker) ==
  [n |-> 0, words |-> words, start |-> start, dur |-> dur, speaker |-> speaker]

MCSegments ==
  {Seg({W(1, 1, 2, FALSE), W(2, 4, 5, FALSE)}, 1, 4, 1),
   Seg({W(1, 3, 4, FALSE)}, 3, 1, 2),
   Seg({W(1, 5, 6, TRUE)}, 5, 1, 2),
   Seg({W(1, 0, 0, FALSE)}, 0, 0, 0),
   Seg({}, 2, 0, 1)}

MCMusicTimes == {1, 4}
MCStates == {"connected", "paused"}
=============================================================================
