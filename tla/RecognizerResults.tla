------------------------- MODULE RecognizerResults --------------------------
(***************************************************************************)
(* How a recognizer's results get their times (internal/stt/session.go,     *)
(* writeLoop and readLoop): the writer notes every chunk in the anchor index *)
(* before it sends it, the recognizer answers on the clock of its           *)
(* connection, and the reader puts every word and every music edge on the   *)
(* clock of the audio source while the writer goes on.                      *)
(*                                                                         *)
(* One message is under way at a time, and it is one transcript: the runs of *)
(* speakers a message may hold are read one after the other, as messages    *)
(* are.  A word is its two ends.  What a drain that timed out may still     *)
(* deliver is in RecognizerSession.                                         *)
(***************************************************************************)
EXTENDS AnchorIndex

CONSTANTS
  ChunkSizes,  (* sizes of chunks, in samples                                *)
  Gaps,        (* ticks of audio the ring may have discarded before a chunk  *)
  Rounding,    (* ticks a reported end may lie past the audio it is about    *)
  Edges,       (* the music edges a recognizer reports: {"music"} or none    *)
  MaxSource,   (* bound of the model: ticks of audio the source delivers     *)
  MaxConns     (* bound of the model: connections                            *)

ASSUME ResultSizes ==
  /\ ChunkSizes \subseteq Nat \ {0}
  /\ Gaps \subseteq Nat
  /\ Rounding \in Nat
  /\ Edges \subseteq {"music"}
  /\ MaxSource \in Nat
  /\ MaxConns \in Nat \ {0}

VARIABLES
  clock,       (* time.Now: it moves on whenever a chunk is noted            *)
  (* the ring, as far as the writer sees it *)
  source,      (* where the last chunk popped ends on the source's clock     *)
  (* the connection *)
  conn,        (* its number                                                 *)
  index,       (* its anchorIndex                                            *)
  writer,      (* "pop" or "send"                                            *)
  delivered,   (* samples the recognizer was sent                            *)
  (* the recognizer *)
  reported,    (* media time its words have reached                          *)
  socket,      (* its message that is not read yet                           *)
  (* the reader *)
  reader,      (* "read" or "resolve"                                        *)
  message,     (* the message in hand                                        *)
  answers,     (* the lookups made for it so far                             *)
  published,   (* what it has just given to OnTranscript or OnMusic          *)
  (* history *)
  chunks,      (* every anchor of this connection                            *)
  heard        (* source position the words published before that reached    *)

connVars == <<conn, index, writer, delivered, chunks>>
recognizerVars == <<reported, socket>>
readerVars == <<reader, message, answers, published, heard>>
vars == <<clock, source, connVars, recognizerVars, readerVars>>

Nothing == [kind |-> "none", words |-> <<>>, start |-> 0, end |-> 0, covers |-> 0]
Unpublished == [of |-> Nothing, words |-> <<>>, start |-> 0, duration |-> 0,
                capturedAt |-> Unknown, sentAt |-> Unknown, after |-> 0]
-----------------------------------------------------------------------------
(* writeLoop: a chunk leaves the ring, whatever it discarded before it, and *)
(* is noted in the index.                                                   *)
Record(n, gap) ==
  /\ writer = "pop"
  /\ source + gap + Duration(n) <= MaxSource
  /\ source' = source + gap + Duration(n)
  /\ clock' = clock + 1
  /\ index' = Add(index, n, clock, clock', source')
  /\ chunks' = Append(chunks, Anchor(index.written, n, clock, clock', source'))
  /\ writer' = "send"
  /\ UNCHANGED <<conn, delivered, recognizerVars, readerVars>>

(* writeLoop: Session.SendAudio.                                            *)
Send ==
  /\ writer = "send"
  /\ delivered' = index.written
  /\ writer' = "pop"
  /\ UNCHANGED <<clock, source, conn, index, chunks, recognizerVars, readerVars>>

(* The recognizer reports one word or two, each once and in order, an       *)
(* untimed text, or a music edge.  The end of the last word, and an edge,    *)
(* may be rounded past the audio; no word ends within the first sample, for *)
(* a recognizer's times are multiples of many samples.                      *)
Limit == Duration(delivered) + Rounding

Report(kind, words, start, end) ==
  /\ socket = Nothing /\ reader = "read"
  /\ socket' = [kind |-> kind, words |-> words, start |-> start, end |-> end,
                covers |-> delivered]
  /\ reported' = IF kind = "music" THEN reported ELSE end
  /\ UNCHANGED <<clock, source, connVars, readerVars>>

Word(s, e) == [start |-> s, end |-> e]
WordFrom(t) == {Word(s, e) : s \in t..(Duration(delivered) - 1), e \in (t + 1)..Limit}
Timed(t) == {w \in WordFrom(t) : w.start < w.end /\ BytesFor(w.end) # 0}

ReportWords ==
  \E w \in Timed(reported) :
    \/ Report("words", <<w>>, w.start, w.end)
    \/ \E v \in Timed(w.end) : Report("words", <<w, v>>, w.start, v.end)

ReportText == \E w \in Timed(reported) : Report("text", <<>>, w.start, w.end)

ReportMusic ==
  /\ delivered # 0
  /\ \E kind \in Edges, at \in 0..Limit : Report(kind, <<>>, at, at)
-----------------------------------------------------------------------------
(* readLoop: conn.Read and Session.Decode return.                           *)
Read ==
  /\ reader = "read"
  /\ socket # Nothing
  /\ message' = socket
  /\ socket' = Nothing
  /\ answers' = <<>>
  /\ reader' = "resolve"
  /\ published' = Unpublished
  /\ UNCHANGED <<clock, source, connVars, reported, heard>>

(* The media times the reader looks up, in order: the end of the transcript *)
(* for its latency, then both ends of every word; those of the transcript   *)
(* for a text without timing, and the edge alone for music.                 *)
Lookups(msg) ==
  CASE msg.kind = "music" -> <<msg.start>>
    [] msg.kind = "text"  -> <<msg.end, msg.start, msg.end>>
    [] msg.kind = "words" -> <<msg.end>> \o
         [i \in 1..(2 * Len(msg.words)) |->
            LET w == msg.words[(i + 1) \div 2]
            IN  IF i % 2 = 1 THEN w.start ELSE w.end]

(* One lookup, under the index's lock: the writer may come between two.     *)
Resolve ==
  /\ reader = "resolve"
  /\ Len(answers) < Len(Lookups(message))
  /\ LET media == Lookups(message)[Len(answers) + 1]
     IN  answers' = Append(answers,
           IF answers = <<>> /\ message.kind # "music" THEN At(index, media)
           ELSE SourceAt(index, media))
  /\ UNCHANGED <<clock, source, connVars, recognizerVars, reader, message, published,
                 heard>>

(* The loop of readLoop starts over.                                        *)
NextMessage ==
  /\ reader' = "read"
  /\ message' = Nothing
  /\ answers' = <<>>

Placeable(s, e) == s.ok /\ e.ok /\ e.at >= s.at

Interval(s, e) ==
  IF Placeable(s, e) THEN [start |-> s.at, end |-> e.at] ELSE [start |-> 0, end |-> 0]

(* sourceTime: every word on its own; the transcript's bounds from the      *)
(* first and the last word that could be placed.                            *)
SourceTime(msg) ==
  LET all == 1..(Len(answers) \div 2)
      words == [i \in all |-> Interval(answers[2 * i], answers[2 * i + 1])]
      placed == {i \in all : Placeable(answers[2 * i], answers[2 * i + 1])}
      start == IF placed = {} THEN 0 ELSE words[Min(placed)].start
      end == IF placed = {} THEN 0 ELSE words[Max(placed)].end
  IN  [words |-> IF msg.kind = "text" THEN <<>> ELSE words, start |-> start,
       duration |-> IF end > start THEN end - start ELSE 0]

(* OnTranscript, stamped and on the source's clock.                         *)
PublishTranscript ==
  /\ reader = "resolve"
  /\ message.kind # "music"
  /\ Len(answers) = Len(Lookups(message))
  /\ LET t == SourceTime(message)
     IN  /\ published' = [of |-> message, words |-> t.words, start |-> t.start,
              duration |-> t.duration, capturedAt |-> answers[1].capturedAt,
              sentAt |-> answers[1].sentAt, after |-> heard]
         /\ heard' = Max({heard, t.start + t.duration})
  /\ NextMessage
  /\ UNCHANGED <<clock, source, connVars, recognizerVars>>

(* OnMusic, unless the edge could not be placed.                            *)
PublishMusic ==
  /\ reader = "resolve"
  /\ message.kind = "music"
  /\ Len(answers) = 1
  /\ published' = IF answers[1].ok
                  THEN [Unpublished EXCEPT !.of = message, !.start = answers[1].at]
                  ELSE Unpublished
  /\ NextMessage
  /\ UNCHANGED <<clock, source, connVars, recognizerVars, heard>>

(* The connection breaks or ends and the next one starts from nothing, with *)
(* an index of its own.                                                     *)
ReconnectWith(idx) ==
  /\ conn < MaxConns
  /\ conn' = conn + 1
  /\ index' = idx
  /\ chunks' = <<>>
  /\ delivered' = 0
  /\ writer' = "pop"
  /\ reported' = 0
  /\ socket' = Nothing
  /\ NextMessage
  /\ published' = Unpublished
  /\ UNCHANGED <<clock, source, heard>>

(* Slip: one index for the session.                                         *)
ReconnectKeepingIndex == ReconnectWith(index)

Reconnect == ReconnectWith(FreshIndex)

Init ==
  /\ clock = 1 /\ source = 0
  /\ conn = 1 /\ index = FreshIndex /\ chunks = <<>>
  /\ writer = "pop" /\ delivered = 0
  /\ reported = 0 /\ socket = Nothing
  /\ reader = "read" /\ message = Nothing /\ answers = <<>>
  /\ published = Unpublished /\ heard = 0

Next ==
  \/ \E n \in ChunkSizes, gap \in Gaps : Record(n, gap)
  \/ Send
  \/ ReportWords
  \/ ReportText
  \/ ReportMusic
  \/ Read
  \/ Resolve
  \/ PublishTranscript
  \/ PublishMusic
  \/ Reconnect

Spec == Init /\ [][Next]_vars
-----------------------------------------------------------------------------
(* What the properties compare with: where a sample of this connection      *)
(* really lies, from every chunk that was ever noted.                       *)
Position(k) ==
  LET c == chunks[CHOOSE i \in 1..Len(chunks) : chunks[i].start <= k /\ k < chunks[i].end]
  IN  c.sourceEnd - Duration(c.end - k)

After(k) == Position(k - 1) + SampleTicks

TypeOK ==
  /\ {clock, source} \subseteq Nat
  /\ conn \in 1..MaxConns /\ writer \in {"pop", "send"} /\ reader \in {"read", "resolve"}
  /\ index.written \in Nat /\ delivered \in 0..index.written
  /\ reported \in 0..Limit /\ heard \in Nat
  /\ \A msg \in {socket, message, published.of} :
       /\ msg.kind \in {"none", "words", "text", "music"}
       /\ msg.covers \in 0..delivered /\ {msg.start, msg.end} \subseteq Nat
       /\ \A i \in 1..Len(msg.words) : {msg.words[i].start, msg.words[i].end} \subseteq Nat
  /\ {published.start, published.duration, published.after} \subseteq Nat

(* The end of what sample e comes after lies past the sample before it and  *)
(* no later than e, or than all that was sent if e is past that.            *)
EndsRightly(e, at) ==
  /\ at >= (IF e = 0 THEN 0 ELSE After(Min({e, published.of.covers})))
  /\ at <= (IF e < index.written THEN Position(e) ELSE After(index.written))

PlacedRightly(media, placed) ==
  placed.end # 0 =>
    /\ placed.start = Position(BytesFor(media.start))
    /\ EndsRightly(BytesFor(media.end), placed.end)

(* Every published word starts where its first sample lies on the source's  *)
(* clock and ends between its last sample and the sample that follows,      *)
(* whatever the ring discarded before, inside or after it, and however far  *)
(* the writer has got when the reader looks it up; so does a text without   *)
(* timing, and a music edge lies where its sample does, or no further than  *)
(* what was sent if it is past the end.  (anchor.go SourceAt, session.go    *)
(* sourceTime.)                                                             *)
WordsKeepTheirPlace ==
  LET of == published.of
      whole == [start |-> published.start, end |-> published.start + published.duration]
      edge == BytesFor(of.start)
  IN  /\ \A i \in 1..Len(published.words) : PlacedRightly(of.words[i], published.words[i])
      /\ of.kind = "text" => PlacedRightly(of, whole)
      /\ of.kind = "music" =>
           /\ edge < of.covers => published.start = Position(edge)
           /\ EndsRightly(edge, published.start)

(* The words that have a time: the others are text only.                    *)
Measured(words) == {i \in 1..Len(words) : words[i].end # 0}

(* Published words never go back in source time, inside a transcript, from  *)
(* one to the next, or over a reconnect, and a transcript's bounds are those *)
(* of its words: the hub's breaks and cutoffs compare them.  (session.go    *)
(* sourceTime.)                                                             *)
PublishedInSourceOrder ==
  LET ws == published.words
      placed == Measured(ws)
  IN  /\ \A i \in placed : published.after <= ws[i].start /\ ws[i].start <= ws[i].end
      /\ \A i, j \in placed : i < j => ws[i].end <= ws[j].start
      /\ placed # {} => /\ published.start = ws[Min(placed)].start
                        /\ published.start + published.duration = ws[Max(placed)].end

(* A sample resolves as long as it is at most Window behind what was sent   *)
(* and not MaxAnchors chunks back, and whatever resolves gets the position,  *)
(* the capture instant and the send instant of the very chunk that carried  *)
(* it: eviction takes no anchor that is still needed, and no lookup is       *)
(* answered from a neighbour.  (anchor.go Add, At.)                         *)
RecentAudioIsAnchored ==
  \A i \in 1..Len(chunks) : \A k \in chunks[i].start..(chunks[i].end - 1) :
    LET found == SourceAt(index, Duration(k))
        stamps == At(index, Duration(k))
    IN  /\ (k >= index.written - Window /\ Len(chunks) - i < MaxAnchors) => found.ok
        /\ found.ok => found.at = Position(k)
        /\ stamps.ok = found.ok
        /\ stamps.ok =>
             /\ stamps.capturedAt = chunks[i].capturedAt - Duration(chunks[i].end - k)
             /\ stamps.sentAt = chunks[i].sentAt
=============================================================================
