--------------------------- MODULE CaptionStream ----------------------------
(***************************************************************************)
(* What the caption hub promises its readers, with nothing of how: a screen *)
(* to which settled segments are only ever appended, a record that always   *)
(* says a prefix of what the screen said, and music that freezes both.      *)
(***************************************************************************)
EXTENDS Naturals, Sequences

VARIABLES
  screen,  (* every segment shown, in order                                  *)
  saved,   (* the segments whose line is closed                              *)
  frozen   (* music plays                                                    *)

Stream == <<screen, saved, frozen>>

StreamInit == screen = <<>> /\ saved = <<>> /\ frozen = FALSE

(* One more segment is shown.  The line before it may be closed, and so may *)
(* its own.                                                                 *)
Show ==
  /\ ~frozen
  /\ Len(screen') = Len(screen) + 1
  /\ \A i \in 1..Len(screen) : screen'[i] = screen[i]
  /\ saved' \in {saved, screen, screen'}
  /\ UNCHANGED frozen

(* Whatever interrupts the speech closes the line in progress.              *)
Save ==
  /\ saved' = screen
  /\ UNCHANGED <<screen, frozen>>

Freeze ==
  /\ ~frozen
  /\ frozen' = TRUE
  /\ saved' = screen
  /\ UNCHANGED screen

Thaw ==
  /\ frozen
  /\ frozen' = FALSE
  /\ UNCHANGED <<screen, saved>>

StreamNext == Show \/ Save \/ Freeze \/ Thaw

StreamSpec == StreamInit /\ [][StreamNext]_Stream
=============================================================================
