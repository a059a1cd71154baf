-------------------------- MODULE ProviderProtocol --------------------------
(***************************************************************************)
(* The protocols of the two recognizers (internal/stt/speechmatics and      *)
(* internal/stt/deepgram): how a message becomes transcripts, one for every *)
(* run of words of one speaker, while a connection lasts.                   *)
(*                                                                         *)
(* A message is the sequence of its results; the n-th lies between the      *)
(* instants 2n-1 and 2n of the connection's clock.  A speaker's label is    *)
(* its number, Unlabelled for one without; a text is what is behind it, the *)
(* marks of punctuation.  JSON, URLs, the request's settings, the count of  *)
(* audio messages and the instant of a music edge are left out.             *)
(***************************************************************************)
EXTENDS Integers, FiniteSets, SequencesExt

CONSTANTS
  Speakers,    (* speakers the recognizers tell apart                        *)
  Marks,       (* what a punctuation result may hold                         *)
  MaxResults,  (* bound of the model: results of a message                   *)
  MaxMessages  (* bound of the model: messages decoded on a connection       *)

Unlabelled == -1
Labels == {Unlabelled} \cup 1..Speakers

ASSUME ProtocolSizes ==
  /\ {Speakers, MaxResults, MaxMessages} \subseteq Nat

VARIABLES
  provider,   (* "speechmatics" or "deepgram"                                *)
  stage,      (* "opening", "live", or how it broke: "failed", to be tried  *)
              (* again, or "refused" for good                               *)
  message,    (* "none", "settled" or "revisable": what is being decoded     *)
  fed,        (* its results so far                                          *)
  ts, run,    (* the locals of the loop over them                            *)
  decoded,    (* messages decoded                                            *)
  returned    (* what the last Decode returned                               *)

sessionVars == <<provider, stage>>
loopVars == <<message, fed, ts, run>>
vars == <<sessionVars, loopVars, decoded, returned>>

NoRun == [words |-> <<>>, speaker |-> 0, start |-> 0, end |-> 0, suffix |-> <<>>,
          removed |-> FALSE, open |-> FALSE]
-----------------------------------------------------------------------------
(* One connection.                                                          *)

(* Whether the driver may try again: a rejected key (401, 403), or an error *)
(* that serverMessage.asError calls permanent, is final.                    *)
AsError(permanent) == IF permanent THEN "refused" ELSE "failed"

(* dial, and for Speechmatics the handshake, which reads over everything    *)
(* but its two answers.                                                     *)
Dialed ==
  /\ stage = "opening"
  /\ stage' = "live"
  /\ UNCHANGED <<provider, loopVars, decoded, returned>>

DialFails(permanent) ==
  /\ stage = "opening"
  /\ stage' = AsError(permanent)
  /\ UNCHANGED <<provider, loopVars, decoded, returned>>
-----------------------------------------------------------------------------
(* Decode.                                                                  *)
Reading == stage = "live" /\ message = "none" /\ decoded < MaxMessages

(* A message with a transcript, which Deepgram may mark as an interim.      *)
Begin(kind) ==
  /\ Reading
  /\ message' = kind
  /\ fed' = <<>> /\ ts' = <<>> /\ run' = NoRun
  /\ decoded' = decoded + 1
  /\ returned' = <<>>
  /\ UNCHANGED sessionVars

BeginTranscript ==
  \/ Begin("settled")
  \/ provider = "deepgram" /\ Begin("revisable")

(* AddPartialTranscript, acknowledgements, warnings, events (whose edge is  *)
(* no transcript), what cannot be decoded.                                  *)
DecodeNothing ==
  /\ Reading
  /\ decoded' = decoded + 1
  /\ returned' = <<>>
  /\ fed' = <<>> /\ ts' = <<>>
  /\ UNCHANGED <<sessionVars, message, run>>

(* An Error and EndOfTranscript end the reader; Deepgram has no such        *)
(* message.  What the driver makes of that is in RecognizerSession.         *)
DecodeFails(permanent) ==
  /\ Reading
  /\ provider = "speechmatics"
  /\ stage' = AsError(permanent)
  /\ UNCHANGED <<provider, loopVars, decoded, returned>>
-----------------------------------------------------------------------------
(* serverMessage.transcripts and decodeTranscript, one result at a time.    *)

ParseSpeaker(label) == IF label = Unlabelled THEN 0 ELSE label

Terminal(mark) == mark \in {".", "?", "!"}
Collides(mark) == mark = "," \/ Terminal(mark)

IsPunctuationCollision(suffix, incoming) ==
  /\ \E mark \in Marks : suffix = <<mark>> /\ Collides(mark)
  /\ Collides(incoming)

(* Slip: of two marks the first stays.                                      *)
AppendPunctuationFirst(marks, suffix, removed, incoming) ==
  IF removed /\ IsPunctuationCollision(suffix, incoming)
  THEN [marks |-> marks, suffix |-> suffix]
  ELSE [marks |-> Append(marks, incoming), suffix |-> Append(suffix, incoming)]

(* What the marks behind a word become, and what counts as its suffix.      *)
AppendPunctuation(marks, suffix, removed, incoming) ==
  IF ~(removed /\ IsPunctuationCollision(suffix, incoming))
  THEN [marks |-> Append(marks, incoming), suffix |-> Append(suffix, incoming)]
  ELSE IF suffix = <<",">> /\ Terminal(incoming)
  THEN [marks |-> Append(Front(marks), incoming), suffix |-> <<incoming>>]
  ELSE [marks |-> marks, suffix |-> suffix]

Flush ==
  IF ~run.open THEN ts
  ELSE Append(ts, [words |-> run.words, speaker |-> run.speaker,
                   start |-> run.start, duration |-> run.end - run.start])

Result(type, label, mark, tagged) ==
  [type |-> type, label |-> label, mark |-> mark, tagged |-> tagged]

Start(n) == 2 * n - 1
End(n) == 2 * n
Number == Len(fed) + 1

Feed(r) ==
  /\ message # "none"
  /\ Len(fed) < MaxResults
  /\ fed' = Append(fed, r)
  /\ UNCHANGED <<sessionVars, message, decoded, returned>>

(* A mark joins the word before it and extends its run; it opens none.      *)
Punctuation(mark) ==
  /\ provider = "speechmatics"
  /\ Feed(Result("punctuation", Unlabelled, mark, FALSE))
  /\ UNCHANGED ts
  /\ IF ~run.open THEN UNCHANGED run
     ELSE LET at == Len(run.words)
              a == AppendPunctuation(run.words[at].marks, run.suffix, run.removed, mark)
          IN  run' = [words |-> [run.words EXCEPT ![at].marks = a.marks],
                      speaker |-> run.speaker, start |-> run.start, end |-> End(Number),
                      suffix |-> a.suffix, removed |-> FALSE, open |-> TRUE]

(* An entity repeats words, and a result may have no alternative.           *)
Skipped ==
  /\ provider = "speechmatics"
  /\ Feed(Result("entity", Unlabelled, "", FALSE))
  /\ UNCHANGED <<ts, run>>

(* Slip: a removed word of another speaker ends the run.                    *)
RemovedInRun(label) ==
  /\ provider = "speechmatics"
  /\ Feed(Result("word", label, "", TRUE))
  /\ IF run.open /\ ParseSpeaker(label) # run.speaker
     THEN ts' = Flush /\ run' = NoRun
     ELSE ts' = ts /\ run' = [run EXCEPT !.removed = run.open]

(* Profanity and disfluencies leave before any run is opened or closed.     *)
Removed(label) ==
  /\ provider = "speechmatics"
  /\ Feed(Result("word", label, "", TRUE))
  /\ run' = [run EXCEPT !.removed = run.open]
  /\ UNCHANGED ts

Opens(speaker) == ~run.open \/ speaker # run.speaker

(* The run after one more word, which is the first of its run if it opens   *)
(* one.                                                                     *)
Extended(opens, speaker) ==
  [words |-> Append(IF opens THEN <<>> ELSE run.words,
                    [start |-> Start(Number), end |-> End(Number), marks |-> <<>>]),
   speaker |-> speaker, start |-> IF opens THEN Start(Number) ELSE run.start,
   end |-> End(Number), suffix |-> <<>>, removed |-> FALSE, open |-> TRUE]

SpeakerOf(from, label) ==
  IF from = "deepgram" THEN label + 1 ELSE ParseSpeaker(label)

Kept(label) ==
  /\ provider = "deepgram" => label # Unlabelled
  /\ Feed(Result("word", label, "", FALSE))
  /\ LET speaker == SpeakerOf(provider, label)
     IN  /\ ts' = IF Opens(speaker) THEN Flush ELSE ts
         /\ run' = Extended(Opens(speaker), speaker)

(* A message without results falls back on its flat text, which may be      *)
(* empty, and has no speaker.                                               *)
FlatText(text) ==
  IF text THEN <<[words |-> <<[start |-> 0, end |-> 0, marks |-> <<>>]>>,
                  speaker |-> 0, start |-> 1, duration |-> 1]>>
  ELSE <<>>

Return(text) ==
  /\ message # "none"
  /\ returned' = IF message = "revisable" THEN <<>>
                 ELSE IF fed = <<>> THEN FlatText(text) ELSE Flush
  /\ message' = "none"
  /\ run' = NoRun
  /\ UNCHANGED <<sessionVars, fed, ts, decoded>>
-----------------------------------------------------------------------------
Init ==
  /\ provider \in {"speechmatics", "deepgram"}
  /\ stage = "opening"
  /\ message = "none" /\ fed = <<>> /\ ts = <<>> /\ run = NoRun
  /\ decoded = 0 /\ returned = <<>>

Next ==
  \/ Dialed
  \/ \E permanent \in BOOLEAN : DialFails(permanent) \/ DecodeFails(permanent)
  \/ BeginTranscript
  \/ DecodeNothing
  \/ \E mark \in Marks : Punctuation(mark)
  \/ Skipped
  \/ \E label \in Labels : Removed(label) \/ Kept(label)
  \/ \E text \in BOOLEAN : Return(text)

Spec == Init /\ [][Next]_vars
-----------------------------------------------------------------------------
TypeOK ==
  /\ stage \in {"opening", "live", "failed", "refused"}
  /\ message \in {"none", "settled", "revisable"}
  /\ Len(fed) <= MaxResults /\ Len(ts) <= MaxResults /\ decoded \in 0..MaxMessages
  /\ run.open => run.words # <<>>
  /\ {run.start, run.end, run.speaker} \subseteq Nat

(* What the results f of a message say.  n is kept: a word nobody removed.  *)
IsKept(f, n) == f[n].type = "word" /\ ~f[n].tagged

(* w is the word of result n.                                               *)
IsWordOf(f, w, n) ==
  /\ n \in 1..Len(f) /\ IsKept(f, n)
  /\ w.start = Start(n) /\ w.end = End(n)

(* The results that are marks behind word n, before the next kept one.      *)
MarksAfter(f, n) ==
  {m \in (n + 1)..Len(f) :
     f[m].type = "punctuation" /\ \A k \in (n + 1)..m : ~IsKept(f, k)}

RemovedAfter(f, n) ==
  \E m \in (n + 1)..Len(f) : f[m].tagged /\ \A k \in (n + 1)..m : ~IsKept(f, k)

AllMeetAcrossRemovals(f, n) ==
  \A m \in MarksAfter(f, n) :
    /\ Collides(f[m].mark)
    /\ m < Len(f) => f[m + 1].type = "word"

(* The marks are those of the results, in their order.                      *)
Spells(f, marks, results) ==
  /\ Len(marks) = Cardinality(results)
  /\ \A m \in results : marks[Cardinality({k \in results : k <= m})] = f[m].mark

(* One mark is left of those results: the first sentence end, or a comma.   *)
Reconciles(f, marks, results) ==
  LET ends == {m \in results : Terminal(f[m].mark)}
  IN  \/ ends = {} /\ marks = <<",">>
      \/ \E m \in ends : (\A k \in ends : m <= k) /\ marks = <<f[m].mark>>

(* What is left of the marks behind word n.                                 *)
Punctuated(f, left, n) ==
  /\ (left = <<>>) <=> (MarksAfter(f, n) = {})
  /\ ~RemovedAfter(f, n) => Spells(f, left, MarksAfter(f, n))
  /\ MarksAfter(f, n) # {} /\ AllMeetAcrossRemovals(f, n)
     => Reconciles(f, left, MarksAfter(f, n))

(* A whole message was decoded, and not as an interim, which returns nothing*)
Settled == message = "none" /\ fed # <<>> /\ (provider = "deepgram" => returned # <<>>)

(* What Decode returns are the words that were not removed, each once, in   *)
(* order and with its own times, cut exactly where the speaker changes: a   *)
(* removed word opens, closes and empties no run, and a run starts with its *)
(* first word and is over before the next one starts.  (speechmatics.go      *)
(* transcripts, deepgram.go decodeTranscript.)                              *)
RunsAreTheKeptWords ==
  Settled =>
    /\ \A n \in 1..Len(fed) : IsKept(fed, n) =>
         \E i \in 1..Len(returned) : \E j \in 1..Len(returned[i].words) :
            returned[i].words[j].start = Start(n)
    /\ \A i \in 1..Len(returned) :
         LET r == returned[i]
             n == Len(r.words)
         IN  /\ n > 0
             /\ \A j \in 1..n : \E k \in 1..Len(fed) :
                  IsWordOf(fed, r.words[j], k) /\ r.speaker = SpeakerOf(provider, fed[k].label)
             /\ \A j \in 1..(n - 1) : r.words[j].end < r.words[j + 1].start
             /\ r.start = r.words[1].start
             /\ r.start + r.duration >= r.words[n].end
             /\ i < Len(returned) => /\ returned[i + 1].speaker # r.speaker
                                 /\ r.start + r.duration < returned[i + 1].start

(* No word loses its punctuation: without a removal it keeps every mark;    *)
(* with one, where single commas and sentence ends meet across removed      *)
(* words, exactly one is left, the first sentence end if there is any, so    *)
(* that the hub still closes the line.  (speechmatics.go                    *)
(* appendPunctuation.)                                                      *)
PunctuationIsReconciled ==
  Settled =>
    \A i \in 1..Len(returned) : \A j \in 1..Len(returned[i].words) : \A n \in 1..Len(fed) :
      LET w == returned[i].words[j]
      IN  IsWordOf(fed, w, n) => IF provider = "deepgram" THEN w.marks = <<>>
                                 ELSE Punctuated(fed, w.marks, n)
=============================================================================
