------------------------- MODULE RecognizerSession --------------------------
(***************************************************************************)
(* The provider-neutral recognizer session (internal/stt/session.go, with   *)
(* gate.go and ring.go): a goroutine drains audio frames into a bounded     *)
(* ring, a run loop dials, pauses and redials, and every connection has a   *)
(* writer and a reader goroutine of its own.                                *)
(*                                                                         *)
(* A frame is its number and whether it is louder than the threshold; the   *)
(* frame's number is also its end offset and frames have one size, so the   *)
(* ring and the hold are counted in frames.  A result is the number of the  *)
(* frame it covers: the recognizer has something to say about loud frames.  *)
(* The network and the recognizer are external.                             *)
(***************************************************************************)
EXTENDS Integers, SequencesExt

CONSTANTS
  RingCap,      (* bufferAudio, in frames                                    *)
  Hold,         (* PauseConfig.Hold, in frames                               *)
  PauseEnabled, (* PauseConfig.Enabled                                       *)
  MaxLevel,     (* doublings from minBackoff to maxBackoff                   *)
  MaxFrames,    (* bound of the model: frames the source delivers            *)
  MaxFailures,  (* bound of the model: links that break                      *)
  MaxConns      (* bound of the model: connections; any number of dials fail *)

Conns == 1..MaxConns

ASSUME SessionSizes ==
  /\ RingCap \in Nat \ {0}
  /\ Hold \in Nat \ {0}
  /\ PauseEnabled \in BOOLEAN
  /\ MaxLevel \in Nat
  /\ MaxFrames \in Nat
  /\ MaxFailures \in Nat
  /\ MaxConns \in Nat \ {0}

VARIABLES
  (* the outside *)
  cancelled,    (* ctx is done                                               *)
  failures,     (* links that broke so far                                   *)
  (* startDrain's goroutine, the gate and the ring *)
  drain,        (* "recv", "push" or "ended": framesClosed         *)
  frame,        (* the frame in hand                                         *)
  active, silentFrom, (* Gate.active; Gate.silStart, 0 outside silence       *)
  edges,        (* transitions so far: the identity of Gate.changed          *)
  ring, notify,
  counted,      (* frames reported to STTBufferDrop                          *)
  (* run *)
  run, conn, first, backoff, outcome,
  armed,        (* the `changed' waitResume holds                            *)
  hooked,       (* connections OnConnectionEnd was called for                *)
  timedOut,     (* connections whose drain timed out (history)               *)
  (* writeLoop of the current connection *)
  writer, chunk,
  watched,      (* its gateChanged                                           *)
  (* per connection: readLoop, and the link as the two ends see it *)
  reader, message, closed, link,
  (* history *)
  sent,         (* per connection, the frames SendAudio wrote                *)
  answered,     (* per connection, how many of them were answered, if need be *)
  evicted,      (* frames the ring discarded                                 *)
  failed,       (* frames a failing write took along                         *)
  published     (* results given to OnTranscript, in order                   *)

drainVars == <<drain, frame, active, silentFrom, edges, counted, evicted>>
runVars == <<run, conn, first, backoff, outcome, armed, hooked,
             timedOut>>
writerVars == <<writer, chunk, watched, failed>>
readerVars == <<reader, message, published>>
linkVars == <<closed, link, sent, answered>>
outside == <<cancelled, failures>>
vars == <<outside, drainVars, ring, notify, runVars, writerVars, readerVars,
          linkVars>>

NoFrame == [n |-> 0, loud |-> FALSE]
-----------------------------------------------------------------------------
(* Gate.ObserveLevel, for the frame just received.                          *)
ObserveLevel(f) ==
  IF ~PauseEnabled THEN UNCHANGED <<active, silentFrom, edges>>
  ELSE /\ silentFrom' = IF f.loud THEN 0
                        ELSE IF silentFrom = 0 THEN f.n ELSE silentFrom
       /\ active' = IF f.loud THEN TRUE
                    ELSE active /\ f.n - silentFrom' < Hold
       /\ edges' = IF active' # active THEN edges + 1 ELSE edges

ReceiveFrame(loud) ==
  /\ drain = "recv"
  /\ frame.n < MaxFrames
  /\ frame' = [n |-> frame.n + 1, loud |-> loud]
  /\ ObserveLevel(frame')
  /\ drain' = "push"
  /\ UNCHANGED <<counted, evicted, ring, notify, outside, runVars, writerVars,
                 readerVars, linkVars>>

(* ring.push, once it is decided whether the ring is full, whether the      *)
(* discarded chunk counts as lost audio, and whether the writer is woken.   *)
PushWith(full, counts, wakes) ==
  /\ drain = "push"
  /\ LET chunks == Append(ring, [n |-> frame.n, loud |-> frame.loud,
                                 active |-> active])
     IN  ring' = IF full THEN Tail(chunks) ELSE chunks
  /\ evicted' = IF full THEN evicted \cup {Head(ring).n} ELSE evicted
  /\ counted' = IF full /\ counts THEN counted \cup {Head(ring).n} ELSE counted
  /\ notify' = (wakes \/ notify)
  /\ drain' = "recv"
  /\ UNCHANGED <<frame, active, silentFrom, edges, outside, runVars,
                 writerVars, readerVars, linkVars>>

WasActive == Head(ring).active

(* Slips: classifies an eviction by the gate's present state; wakes the     *)
(* writer for speech only.                                                  *)
PushFrameByNow == PushWith(Len(ring) + 1 > RingCap, active, TRUE)
PushFrameQuietly == PushWith(Len(ring) + 1 > RingCap, WasActive, frame.loud)

(* The oldest chunk makes room, and is counted as lost audio if it was      *)
(* admitted while the gate was active; the writer is always woken.          *)
PushFrame == PushWith(Len(ring) + 1 > RingCap, WasActive, TRUE)

(* The source closed its channel, or ctx is done: framesClosed is closed.   *)
DrainEnds ==
  /\ drain = "recv"
  /\ drain' = "ended"
  /\ UNCHANGED <<frame, active, silentFrom, edges, counted, evicted, ring,
                 notify, outside, runVars, writerVars, readerVars, linkVars>>

Cancel ==
  /\ ~cancelled
  /\ cancelled' = TRUE
  /\ UNCHANGED <<failures, drainVars, ring, notify, runVars, writerVars,
                 readerVars, linkVars>>
-----------------------------------------------------------------------------
framesClosed == drain = "ended"

audioExhausted == framesClosed /\ ring = <<>>

Stopped == run \in {"done", "gaveUp"}

Goto(where) ==
  /\ run' = where
  /\ UNCHANGED <<drainVars, ring, notify, cancelled>>

(* run: the head of the loop.                                               *)
LoopTop ==
  /\ run = "top"
  /\ Goto(IF audioExhausted \/ cancelled THEN "done" ELSE "dialing")
  /\ UNCHANGED <<conn, first, backoff, outcome, armed, hooked, timedOut, failures,
                 writerVars, readerVars, linkVars>>

Dialed ==
  /\ run = "dialing"
  /\ conn < MaxConns
  /\ run' = "linked"
  /\ conn' = conn + 1
  /\ first' = FALSE
  /\ backoff' = 0
  /\ writer' = "arm"
  /\ reader' = [reader EXCEPT ![conn'] = "read"]
  /\ link' = [link EXCEPT ![conn'] = "up"]
  /\ UNCHANGED <<outside, drainVars, notify, outcome, armed, hooked, timedOut,
                 chunk, watched, failed, message, published, closed, sent,
                 answered>>

(* Slip: a new connection starts from an empty ring.                        *)
DialSucceedsAfresh == Dialed /\ ring' = <<>>

DialSucceeds == Dialed /\ UNCHANGED ring

(* A dial fails: ctx ended it, the provider refused, or nobody answers, as  *)
(* often as the environment likes.  Only the first is allowed to be final.  *)
DialFails(permanent) ==
  /\ run = "dialing"
  /\ Goto(IF cancelled THEN "done"
          ELSE IF first /\ permanent THEN "gaveUp" ELSE "backoff")
  /\ first' = FALSE
  /\ UNCHANGED <<conn, backoff, outcome, armed, hooked, timedOut, failures,
                 writerVars, readerVars, linkVars>>

(* retryAfter's sleep, and nextBackoff.                                     *)
Sleep ==
  /\ run = "backoff"
  /\ \/ /\ Goto("top")
        /\ backoff' = IF backoff < MaxLevel THEN backoff + 1 ELSE backoff
     \/ /\ cancelled
        /\ Goto("done")
        /\ UNCHANGED backoff
  /\ UNCHANGED <<conn, first, outcome, armed, hooked, timedOut, failures,
                 writerVars, readerVars, linkVars>>
-----------------------------------------------------------------------------
(* runConnection: the writer's result arrives.  A pause or a clean end asks *)
(* for the end of the stream and drains; a failed write cancels the reader. *)
WriterReturned ==
  /\ run = "linked"
  /\ writer \in {"paused", "ended", "failed"}
  /\ outcome' = CASE writer = "paused" -> "pause"
                  [] writer = "ended"  -> "done"
                  [] writer = "failed" -> "reconnect"
  /\ IF writer = "failed"
     THEN /\ Goto("joinReader")
          /\ closed' = closed \cup {conn}
          /\ UNCHANGED link
     ELSE /\ Goto("draining")
          /\ link' = IF link[conn] = "up" THEN [link EXCEPT ![conn] = "ending"]
                                          ELSE link
          /\ UNCHANGED closed
  /\ UNCHANGED <<conn, first, backoff, armed, hooked, timedOut, failures,
                 writerVars, readerVars, sent, answered>>

(* runConnection: the reader's result arrives: the writer is cancelled.     *)
ReaderReturned ==
  /\ run = "linked"
  /\ reader[conn] = "returned"
  /\ outcome' = "reconnect"
  /\ Goto("joinWriter")
  /\ closed' = closed \cup {conn}
  /\ UNCHANGED <<conn, first, backoff, armed, hooked, timedOut, failures,
                 writerVars, readerVars, link, sent, answered>>

(* Slip: does not wait for the reader it cancelled.                         *)
JoinedEarly ==
  /\ \/ run = "joinReader"
     \/ run = "joinWriter" /\ writer \in {"paused", "ended", "failed"}
  /\ Goto("hook")
  /\ UNCHANGED <<conn, first, backoff, outcome, armed, hooked, timedOut,
                 failures, writerVars, readerVars, linkVars>>

Joined ==
  /\ \/ run = "joinReader" /\ reader[conn] = "returned"
     \/ run = "joinWriter" /\ writer \in {"paused", "ended", "failed"}
  /\ Goto("hook")
  /\ UNCHANGED <<conn, first, backoff, outcome, armed, hooked, timedOut,
                 failures, writerVars, readerVars, linkVars>>

DrainedWhen(enough, timeout) ==
  /\ run = "draining"
  /\ enough
  /\ timedOut' = IF timeout THEN timedOut \cup {conn} ELSE timedOut
  /\ closed' = closed \cup {conn}
  /\ Goto(IF outcome = "done" THEN "done" ELSE "hook")
  /\ UNCHANGED <<conn, first, backoff, outcome, armed, hooked, failures,
                 writerVars, readerVars, link, sent, answered>>

(* Slips: the drain has no timeout; does not wait for the reader at all.    *)
DrainedOnly(timeout) == DrainedWhen(reader[conn] = "returned", timeout)
DrainedAtOnce(timeout) == DrainedWhen(TRUE, timeout)

(* finish: the reader returned, or drainTimeout passed; either way the      *)
(* connection is closed.                                                    *)
Drained(timeout) == DrainedWhen(timeout \/ reader[conn] = "returned", timeout)

(* OnConnectionEnd, then the entry of waitResume or of retryAfter.          *)
Hook ==
  /\ run = "hook"
  /\ hooked' = hooked \cup {conn}
  /\ Goto(CASE cancelled           -> "done"
            [] outcome = "pause"   -> "arm"
            [] OTHER               -> "backoff")
  /\ UNCHANGED <<conn, first, backoff, outcome, armed, timedOut, failures,
                 writerVars, readerVars, linkVars>>

(* waitResume's select.                                                     *)
Parked ==
  /\ run = "parked"
  /\ \/ edges # armed /\ Goto("arm")
     \/ (framesClosed \/ cancelled) /\ Goto("done")
  /\ UNCHANGED <<armed, backoff>>

Arm(next) == armed' = edges /\ Goto(next) /\ UNCHANGED backoff

TestActive(next) ==
  /\ Goto(IF active THEN "top" ELSE next)
  /\ backoff' = IF active THEN 0 ELSE backoff
  /\ UNCHANGED armed

(* Slip: Active before Changed.                                             *)
WaitResumeLate ==
  /\ \/ run = "arm" /\ TestActive("test")
     \/ run = "test" /\ Arm("parked")
     \/ Parked
  /\ UNCHANGED <<conn, first, outcome, hooked, timedOut, failures, writerVars,
                 readerVars, linkVars>>

(* waitResume's loop: Changed before Active, then the select.               *)
WaitResume ==
  /\ \/ run = "arm" /\ Arm("test")
     \/ run = "test" /\ TestActive("parked")
     \/ Parked
  /\ UNCHANGED <<conn, first, outcome, hooked, timedOut, failures, writerVars,
                 readerVars, linkVars>>
-----------------------------------------------------------------------------
(* writeLoop of the current connection.                                     *)
WriterGoes(where) ==
  /\ writer' = where
  /\ UNCHANGED <<outside, drainVars, runVars, readerVars, closed, link,
                 answered>>

(* gateChanged is fetched, then the gate is tested.                         *)
TestGate ==
  /\ \/ /\ writer = "arm"
        /\ watched' = edges
        /\ WriterGoes("test")
     \/ /\ writer = "test"
        /\ WriterGoes(IF active THEN "pop" ELSE "paused")
        /\ UNCHANGED watched
  /\ UNCHANGED <<ring, notify, chunk, failed, sent>>

PopLeaving(rest) ==
  /\ writer = "pop"
  /\ IF ring = <<>>
     THEN /\ WriterGoes("wait")
          /\ UNCHANGED <<ring, chunk>>
     ELSE /\ WriterGoes("send")
          /\ chunk' = [n |-> Head(ring).n, loud |-> Head(ring).loud]
          /\ ring' = rest
  /\ UNCHANGED <<notify, watched, failed, sent>>

(* Slip: reads the oldest chunk but leaves it in the ring.                  *)
Peek == PopLeaving(ring)

Pop == PopLeaving(Tail(ring))

(* SendAudio: a write into a link that died may still seem to succeed.      *)
SendAudio ==
  /\ writer = "send"
  /\ chunk' = NoFrame
  /\ \/ /\ conn \notin closed
        /\ sent' = [sent EXCEPT ![conn] = Append(@, chunk)]
        /\ WriterGoes("arm")
        /\ UNCHANGED failed
     \/ /\ link[conn] = "broken" \/ conn \in closed
        /\ failed' = failed \cup {chunk.n}
        /\ WriterGoes("failed")
        /\ UNCHANGED sent
  /\ UNCHANGED <<ring, notify, watched>>

(* The select of an idle writer; `last' is where closed frames lead, and a  *)
(* keepalive matters when it fails.                                         *)
WakeTo(last) ==
  /\ writer = "wait"
  /\ \/ /\ framesClosed
        /\ WriterGoes(last)
        /\ UNCHANGED notify
     \/ /\ notify
        /\ notify' = FALSE
        /\ WriterGoes("arm")
     \/ /\ edges # watched
        /\ WriterGoes("arm")
        /\ UNCHANGED notify
     \/ /\ cancelled
        /\ WriterGoes("ended")
        /\ UNCHANGED notify
     \/ /\ conn \in closed \/ link[conn] = "broken"
        /\ WriterGoes("failed")
        /\ UNCHANGED notify
  /\ UNCHANGED <<ring, chunk, watched, failed, sent>>

(* Slip: takes closed frames for an empty ring.                             *)
WriterWakesAndEnds == WakeTo("ended")

WriterWakes == WakeTo(IF ring = <<>> THEN "ended" ELSE "arm")
-----------------------------------------------------------------------------
(* The frames of connection c that the recognizer still has an answer to.   *)
Unanswered(c) == {i \in answered[c] + 1 .. Len(sent[c]) : sent[c][i].loud}

(* readLoop of connection c, which may outlive the connection.  The next    *)
(* answer arrives, or the read fails: the connection was closed or broke,   *)
(* or the recognizer, asked to end, has said all it had to say.             *)
Read(c) ==
  /\ reader[c] = "read"
  /\ \/ /\ c \notin closed
        /\ \E i \in Unanswered(c) :
             /\ \A j \in Unanswered(c) : i <= j
             /\ message' = [message EXCEPT ![c] = sent[c][i].n]
             /\ answered' = [answered EXCEPT ![c] = i]
        /\ reader' = [reader EXCEPT ![c] = "publish"]
        /\ UNCHANGED link
     \/ /\ \/ c \in closed \/ link[c] = "broken"
           \/ link[c] = "ending" /\ Unanswered(c) = {}
        /\ reader' = [reader EXCEPT ![c] = "returned"]
        /\ link' = IF link[c] = "ending" /\ Unanswered(c) = {}
                   THEN [link EXCEPT ![c] = "ended"] ELSE link
        /\ UNCHANGED <<message, answered>>
  /\ UNCHANGED <<outside, drainVars, ring, notify, runVars, writerVars,
                 published, closed, sent>>

(* OnTranscript, then `out', whose consumer always takes the transcript.    *)
(* Once Run has returned `out' is closed: a reader still here finds its     *)
(* context done, or panics.                                                 *)
Deliver(c) ==
  /\ reader[c] = "publish"
  /\ published' = Append(published, [conn |-> c, n |-> message[c]])
  /\ message' = [message EXCEPT ![c] = 0]
  /\ \/ reader' = [reader EXCEPT ![c] = IF Stopped THEN "panicked" ELSE "read"]
     \/ c \in closed /\ reader' = [reader EXCEPT ![c] = "returned"]
  /\ UNCHANGED <<outside, drainVars, ring, notify, runVars, writerVars,
                 linkVars>>
-----------------------------------------------------------------------------
(* External: the network breaks, or the provider reports a fatal error.     *)
Break(c) ==
  /\ link[c] \in {"up", "ending"}
  /\ failures < MaxFailures
  /\ failures' = failures + 1
  /\ link' = [link EXCEPT ![c] = "broken"]
  /\ UNCHANGED <<cancelled, drainVars, ring, notify, runVars, writerVars,
                 readerVars, closed, sent, answered>>
-----------------------------------------------------------------------------
Init ==
  /\ cancelled = FALSE /\ failures = 0
  /\ drain = "recv" /\ frame = NoFrame
  /\ active = TRUE /\ silentFrom = 0 /\ edges = 0
  /\ ring = <<>> /\ notify = FALSE /\ counted = {}
  /\ run = "top" /\ conn = 0 /\ first = TRUE /\ backoff = 0
  /\ outcome = "done" /\ armed = 0 /\ hooked = {} /\ timedOut = {}
  /\ writer = "ended" /\ chunk = NoFrame /\ watched = 0
  /\ reader = [c \in Conns |-> "returned"]
  /\ message = [c \in Conns |-> 0]
  /\ closed = {} /\ link = [c \in Conns |-> "none"]
  /\ sent = [c \in Conns |-> <<>>] /\ answered = [c \in Conns |-> 0]
  /\ evicted = {} /\ failed = {} /\ published = <<>>

DrainStep == PushFrame \/ (cancelled /\ DrainEnds)

RunStep ==
  \/ LoopTop \/ DialSucceeds \/ (\E permanent \in BOOLEAN : DialFails(permanent))
  \/ Sleep \/ WriterReturned \/ ReaderReturned \/ Joined
  \/ (\E timeout \in BOOLEAN : Drained(timeout))
  \/ Hook \/ WaitResume

WriterStep == TestGate \/ Pop \/ WriterWakes

(* A read has to return only when the connection is closed or broken: the   *)
(* recognizer may stay silent for as long as it likes.                      *)
ReaderStep(c) ==
  Deliver(c) \/ ((c \in closed \/ link[c] = "broken") /\ Read(c))

Next ==
  \/ \E loud \in BOOLEAN : ReceiveFrame(loud)
  \/ PushFrame \/ DrainEnds \/ Cancel
  \/ LoopTop \/ DialSucceeds \/ (\E permanent \in BOOLEAN : DialFails(permanent))
  \/ Sleep \/ WriterReturned \/ ReaderReturned \/ Joined
  \/ (\E timeout \in BOOLEAN : Drained(timeout))
  \/ Hook \/ WaitResume
  \/ TestGate \/ Pop \/ SendAudio \/ WriterWakes
  \/ \E c \in Conns : Read(c) \/ Deliver(c) \/ Break(c)

Spec == Init /\ [][Next]_vars

(* Every goroutine of the session runs when it can; a dial returns, a sleep *)
(* and a drain end, whatever the network does.                              *)
StalledSpec ==
  /\ Spec
  /\ WF_vars(DrainStep)
  /\ WF_vars(RunStep)
  /\ WF_vars(WriterStep)
  /\ \A c \in Conns : WF_vars(ReaderStep(c))

(* Nor does a write block forever: the peer reads, or the link breaks.      *)
FairSpec == StalledSpec /\ WF_vars(SendAudio)
-----------------------------------------------------------------------------
Frame == [n : Nat, loud : BOOLEAN]

(* Every variable stays in the set of values the Go types allow, and a      *)
(* goroutine where its function can be.                                     *)
TypeOK ==
  /\ cancelled \in BOOLEAN /\ failures \in 0..MaxFailures
  /\ drain \in {"recv", "push", "ended"}
  /\ frame \in Frame
  /\ active \in BOOLEAN /\ silentFrom \in Nat /\ edges \in Nat
  /\ ring \in Seq([n : Nat, loud : BOOLEAN, active : BOOLEAN])
  /\ Len(ring) <= RingCap
  /\ notify \in BOOLEAN
  /\ counted \subseteq evicted /\ evicted \subseteq Nat /\ failed \subseteq Nat
  /\ run \in {"top", "dialing", "linked", "joinReader", "joinWriter",
              "draining", "hook", "arm", "test", "parked", "backoff", "done",
              "gaveUp"}
  /\ conn \in 0..MaxConns /\ first \in BOOLEAN /\ backoff \in 0..MaxLevel
  /\ outcome \in {"done", "pause", "reconnect"} /\ armed \in Nat
  /\ hooked \subseteq 1..conn /\ timedOut \subseteq 1..conn
  /\ closed \subseteq 1..conn
  /\ writer \in {"arm", "test", "pop", "send", "wait", "paused", "ended",
                 "failed"}
  /\ chunk \in Frame /\ watched \in Nat
  /\ reader \in [Conns -> {"read", "publish", "returned", "panicked"}]
  /\ message \in [Conns -> Nat]
  /\ link \in [Conns -> {"none", "up", "ending", "ended", "broken"}]
  /\ sent \in [Conns -> Seq(Frame)]
  /\ answered \in [Conns -> Nat]
  /\ published \in Seq([conn : Conns, n : Nat])

(* Frames taken from the ring are written in the order they were heard,     *)
(* none twice, across all connections, and before any still in the ring.    *)
SentInOrder ==
  /\ \A c \in Conns : \A i, j \in 1..Len(sent[c]) :
       i < j => sent[c][i].n < sent[c][j].n
  /\ \A c, d \in Conns : c < d =>
       \A f \in ToSet(sent[c]), g \in ToSet(sent[d]) : f.n < g.n
  /\ \A c \in Conns : \A f \in ToSet(sent[c]) :
       \A k \in ({chunk.n} \ {0}) \cup {q.n : q \in ToSet(ring)} : f.n < k

(* A frame that was pushed is in exactly one place: still queued, in the    *)
(* writer's hand, written, lost with a broken link, or evicted.             *)
NoFrameVanishes ==
  LET written == UNION {{f.n : f \in ToSet(sent[c])} : c \in Conns}
      queued  == {f.n : f \in ToSet(ring)} \cup ({chunk.n} \ {0})
      pushed  == 1 .. (IF drain = "push" THEN frame.n - 1 ELSE frame.n)
  IN  /\ pushed = written \cup queued \cup failed \cup evicted
      /\ queued \cap (written \cup failed \cup evicted) = {}
      /\ written \cap (failed \cup evicted) = {} /\ failed \cap evicted = {}

(* What the ring discards is reported as degradation if it was admitted     *)
(* while the gate was active, whatever the gate does by then: speech always *)
(* is, the onset that reopens the gate included, and the rotation of silence *)
(* after the hold never (push; openspec/specs/stt-buffer-health/spec.md).   *)
LostSpeechIsCounted ==
  [][\A f \in ToSet(ring) :
       f.n \in evicted' \ evicted =>
         /\ f.loud => f.n \in counted'
         /\ f.n \in counted' <=> f.active]_vars

(* After a drain that did not time out, or a failed connection, nothing of  *)
(* it is published once OnConnectionEnd was called.                         *)
QuietAfterHook ==
  \A c \in hooked \ timedOut : reader[c] = "returned"

(* A connection that was asked to end its stream, for a pause or at the end *)
(* of the audio, and that neither broke nor ran into the drain's timeout,   *)
(* loses no result: when it is closed, all it had to say is published.      *)
PoliteEndLosesNothing ==
  \A c \in closed \ timedOut :
    link[c] \in {"ending", "ended"} =>
      \A f \in ToSet(sent[c]) :
        f.loud => \E i \in 1..Len(published) : published[i].n = f.n

(* A run that ends without being cancelled and without a pause has sent     *)
(* everything the source delivered that was not lost on the way.            *)
CleanEndIsComplete ==
  run = "done" /\ ~cancelled /\ outcome = "done" => ring = <<>> /\ framesClosed

(* A parked session notices speech: it cannot sleep through the transition  *)
(* that was meant to wake it (Changed before Active in waitResume).         *)
ResumeIsNoticed == (run = "parked" /\ active) ~> (run # "parked" \/ ~active)

(* Audio in the ring wakes the writer of a connection.                      *)
WriterHearsAudio == (writer = "wait" /\ ring # <<>>) ~> (writer # "wait")

(* A cancelled session comes to its end, whatever breaks on the way.  One    *)
(* whose source has ended does, or has to connect once more: only a server  *)
(* that fails one connection after another can keep it, and that one does   *)
(* for as long as it likes (run redials while there is audio in the ring).  *)
SessionEnds ==
  /\ cancelled ~> Stopped
  /\ framesClosed ~> (Stopped \/ run = "backoff")

(* session.go:31: drainTimeout is there "so ending a session can't hang on  *)
(* a stalled server".                                                       *)
CancelEndsSession == cancelled ~> Stopped

(* session.go:178: the hook comes after the drain, "so nothing keyed to the *)
(* old connection's media clock survives into the replacement".             *)
OldConnectionIsSilent == \A c \in hooked : reader[c] # "publish"

(* session.go:260: when frames run out while paused, "Ring is full of       *)
(* silence; nothing worth redialing for".                                   *)
PausedEndIsSilent ==
  run = "done" /\ ~cancelled /\ outcome = "pause" =>
    \A f \in ToSet(ring) : ~f.loud
=============================================================================
