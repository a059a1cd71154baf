---------------------------- MODULE AnchorIndex -----------------------------
(***************************************************************************)
(* The anchor index (internal/stt/anchor.go): where each chunk of audio     *)
(* written to ONE connection lies on the recognizer's clock, when it was    *)
(* captured and sent, and where it ends on the clock of the audio source.   *)
(*                                                                         *)
(* Positions on the connection are counted in samples (PCM bytes over the   *)
(* size of one), times in ticks, SampleTicks of them to a sample.  An index *)
(* is a record: operators take the old one and return the new one.          *)
(***************************************************************************)
EXTENDS Integers, SequencesExt

CONSTANTS
  Window,      (* anchorWindow, in samples                                   *)
  MaxAnchors,  (* maxAnchors                                                 *)
  SampleTicks  (* how many ticks a sample lasts                              *)

ASSUME AnchorSizes ==
  /\ Window \in Nat
  /\ MaxAnchors \in Nat \ {0}
  /\ SampleTicks \in Nat \ {0}

Unknown == 0   (* time.Time{} and a source offset no frame carried           *)

(* audio.Format: samples in a media time, rounded down, and the way back.   *)
BytesFor(media) == media \div SampleTicks
Duration(samples) == samples * SampleTicks

Anchor(start, n, capturedAt, sentAt, sourceEnd) ==
  [start |-> start, end |-> start + n, capturedAt |-> capturedAt,
   sentAt |-> sentAt, sourceEnd |-> sourceEnd]

FreshIndex == [entries |-> <<>>, written |-> 0]
-----------------------------------------------------------------------------
(* Slip: measures the age of an entry at its first sample.                  *)
OutdatedByStart(entries, written, i) ==
  /\ i < Len(entries)
  /\ \/ written - entries[i].start > Window
     \/ Len(entries) - i >= MaxAnchors

(* Whether the loop of Add discards entry i, those before it being gone.    *)
Outdated(entries, written, i) ==
  /\ i < Len(entries)
  /\ \/ written - entries[i].end > Window
     \/ Len(entries) - i >= MaxAnchors

(* The entries Add keeps: all from the first that is not outdated.          *)
Retained(entries, written) ==
  LET first == CHOOSE i \in 1..Len(entries) :
                 /\ ~Outdated(entries, written, i)
                 /\ \A j \in 1..(i-1) : Outdated(entries, written, j)
  IN  SubSeq(entries, first, Len(entries))

Add(idx, n, capturedAt, sentAt, sourceEnd) ==
  IF n <= 0 THEN idx
  ELSE LET a == Anchor(idx.written, n, capturedAt, sentAt, sourceEnd)
       IN  [entries |-> Retained(Append(idx.entries, a), a.end),
            written |-> a.end]

(* The entry that answers for position want; at or past everything written  *)
(* it is the newest, and a boundary belongs to the chunk that starts there. *)
Covered(idx, want) ==
  Len(idx.entries) > 0 /\ (want >= idx.written \/ want >= idx.entries[1].start)

(* Slip: gives a boundary to the chunk that ends there.                     *)
CoveringEnding(idx, want) ==
  IF want >= idx.written THEN Last(idx.entries)
  ELSE idx.entries[CHOOSE i \in 1..Len(idx.entries) :
                     /\ idx.entries[i].end >= want
                     /\ \A j \in 1..(i-1) : idx.entries[j].end < want]

Covering(idx, want) ==
  IF want >= idx.written THEN Last(idx.entries)
  ELSE idx.entries[CHOOSE i \in 1..Len(idx.entries) :
                     /\ idx.entries[i].end > want
                     /\ \A j \in 1..(i-1) : idx.entries[j].end <= want]

(* How long before the end of its entry position want lies.                 *)
Back(e, want) == IF want >= e.end THEN 0 ELSE Duration(e.end - want)

(* At: when the sample at a media time was captured, walked back from the   *)
(* end of its chunk, and when the chunk was sent, which is one instant.     *)
At(idx, media) ==
  LET want == BytesFor(media)
      e == Covering(idx, want)
  IN  IF Covered(idx, want) /\ e.capturedAt # Unknown
      THEN [ok |-> TRUE, capturedAt |-> e.capturedAt - Back(e, want), sentAt |-> e.sentAt]
      ELSE [ok |-> FALSE, capturedAt |-> Unknown, sentAt |-> Unknown]

(* SourceAt: where the sample at a media time lies on the source's clock.   *)
SourceAt(idx, media) ==
  LET want == BytesFor(media)
      e == Covering(idx, want)
      source == e.sourceEnd - Back(e, want)
  IN  IF Covered(idx, want) /\ e.sourceEnd # Unknown
      THEN [ok |-> TRUE, at |-> IF source < 0 THEN 0 ELSE source]
      ELSE [ok |-> FALSE, at |-> 0]
=============================================================================
