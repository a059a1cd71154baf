---------------------- MODULE RecognizerSessionProofs -----------------------
(***************************************************************************)
(* Theorems about the recognizer session, for every ring, hold and backoff, *)
(* and any number of frames, failures and connections.                      *)
(***************************************************************************)
EXTENDS RecognizerSession, SequenceTheorems, TLAPS

WriterDone == {"paused", "ended", "failed"}

(* Where run can be before the first connection.                            *)
Unconnected == {"top", "dialing", "backoff", "done", "gaveUp"}

(* What the place of each goroutine says of the others: run goes on without *)
(* the writer only when that has returned, and the writer has a chunk in    *)
(* hand exactly while it sends.                                             *)
ControlInv ==
  /\ run \notin Unconnected => conn >= 1
  /\ writer \notin WriterDone => conn >= 1
  /\ run \notin {"linked", "joinWriter"} => writer \in WriterDone
  /\ chunk.n # 0 <=> writer = "send"
  /\ drain = "push" => frame.n >= 1

(* The last frame that was given to the ring.                               *)
Pushed == IF drain = "push" THEN frame.n - 1 ELSE frame.n

(* Audio moves from the ring through the writer's hand to the connections,  *)
(* newest behind, and nobody has a frame that was not pushed.               *)
RingInOrder ==
  \A i \in 1..Len(ring) :
    /\ 1 <= ring[i].n /\ ring[i].n <= Pushed
    /\ \A j \in 1..Len(ring) : i < j => ring[i].n < ring[j].n

ChunkInOrder ==
  /\ chunk.n <= Pushed
  /\ \A i \in 1..Len(ring) : chunk.n < ring[i].n

SentBehind ==
  \A c \in Conns : \A i \in 1..Len(sent[c]) :
    /\ 1 <= sent[c][i].n /\ sent[c][i].n <= Pushed
    /\ chunk.n # 0 => sent[c][i].n < chunk.n
    /\ \A j \in 1..Len(ring) : sent[c][i].n < ring[j].n

SentAscends ==
  /\ \A c \in Conns : c > conn => sent[c] = <<>>
  /\ \A c \in Conns : \A i, j \in 1..Len(sent[c]) : i < j => sent[c][i].n < sent[c][j].n
  /\ \A c, d \in Conns : c < d =>
       \A i \in 1..Len(sent[c]), j \in 1..Len(sent[d]) : sent[c][i].n < sent[d][j].n

OrderInv == RingInOrder /\ ChunkInOrder /\ SentBehind /\ SentAscends

(* A loud frame is admitted while the gate is active.                       *)
GateInv ==
  /\ ~PauseEnabled => active
  /\ drain = "push" /\ frame.loud => active
  /\ \A i \in 1..Len(ring) : ring[i].loud => ring[i].active

(* Past the joins the reader of a connection has returned, unless its drain *)
(* timed out.                                                               *)
HookInv ==
  /\ QuietAfterHook
  /\ run = "joinWriter" => reader[conn] = "returned"
  /\ run = "hook" /\ conn \notin timedOut => reader[conn] = "returned"

(* A writer that ended, and a run that took its word for it, found nothing  *)
(* left to send.                                                            *)
EndInv ==
  /\ writer = "ended" /\ run = "linked" => audioExhausted \/ cancelled
  /\ run = "draining" /\ outcome = "done" => audioExhausted \/ cancelled
  /\ run \in {"arm", "test", "parked"} => outcome = "pause"
  /\ CleanEndIsComplete

(* The results of a connection: what was answered is published or in the    *)
(* reader's hand; once asked to end a connection is sent nothing more; and  *)
(* one that ended has nothing left.                                         *)
IsPublished(f) == \E k \in 1..Len(published) : published[k].n = f.n

InHand(c, f) == reader[c] = "publish" /\ message[c] = f.n

AnswerInv ==
  \A c \in Conns :
    /\ answered[c] <= Len(sent[c])
    /\ \A i \in 1..answered[c] :
         sent[c][i].loud => IsPublished(sent[c][i]) \/ InHand(c, sent[c][i])
    /\ link[c] \in {"ending", "ended"} /\ c = conn => writer \in WriterDone
    /\ link[c] = "ended" =>
         \A i \in 1..Len(sent[c]) : sent[c][i].loud => IsPublished(sent[c][i])

(* The end of a connection: one in use is open and was not yet asked to end; *)
(* an open one whose reader returned had ended or broken; so one that was   *)
(* asked to end and closed had ended, unless its drain timed out.           *)
PoliteInv ==
  /\ run \in {"linked", "draining"} => conn \notin closed
  /\ run = "linked" => link[conn] \in {"up", "broken"}
  /\ \A c \in Conns \ closed :
       reader[c] = "returned" => link[c] \in {"none", "ended", "broken"}
  /\ \A c \in closed \ timedOut : link[c] # "ending"
-----------------------------------------------------------------------------
(* Type correctness, in the parts that different goroutines change.         *)
OutsideType == cancelled \in BOOLEAN /\ failures \in 0..MaxFailures

DrainType ==
  /\ drain \in {"recv", "push", "ended"}
  /\ frame \in Frame
  /\ active \in BOOLEAN /\ silentFrom \in Nat /\ edges \in Nat

(* Frames are numbered from 1, and 0 is no frame.                           *)
Admitted == [n : Nat \ {0}, loud : BOOLEAN, active : BOOLEAN]

RingType ==
  /\ ring \in Seq(Admitted)
  /\ Len(ring) <= RingCap
  /\ notify \in BOOLEAN
  /\ counted \subseteq evicted /\ evicted \subseteq Nat

RunType ==
  /\ run \in {"top", "dialing", "linked", "joinReader", "joinWriter",
              "draining", "hook", "arm", "test", "parked", "backoff", "done",
              "gaveUp"}
  /\ conn \in 0..MaxConns /\ first \in BOOLEAN /\ backoff \in 0..MaxLevel
  /\ outcome \in {"done", "pause", "reconnect"} /\ armed \in Nat
  /\ hooked \subseteq 1..conn /\ timedOut \subseteq 1..conn
  /\ closed \subseteq 1..conn

WriterType ==
  /\ writer \in {"arm", "test", "pop", "send", "wait", "paused", "ended",
                 "failed"}
  /\ chunk \in Frame /\ watched \in Nat /\ failed \subseteq Nat

LinkType ==
  /\ reader \in [Conns -> {"read", "publish", "returned", "panicked"}]
  /\ message \in [Conns -> Nat]
  /\ link \in [Conns -> {"none", "up", "ending", "ended", "broken"}]
  /\ sent \in [Conns -> Seq(Frame)]
  /\ answered \in [Conns -> Nat]
  /\ published \in Seq([conn : Conns, n : Nat])

LEMMA TypeOKParts ==
  OutsideType /\ DrainType /\ RingType /\ RunType /\ WriterType /\ LinkType => TypeOK
<1>1. Admitted \subseteq [n : Nat, loud : BOOLEAN, active : BOOLEAN]
  BY DEF Admitted
<1>2. RingType => ring \in Seq([n : Nat, loud : BOOLEAN, active : BOOLEAN])
  BY <1>1, SeqMonotonic DEF RingType
<1> QED
  BY <1>2 DEF TypeOK, OutsideType, DrainType, RingType, RunType, WriterType, LinkType

TypeInv ==
  /\ OutsideType /\ DrainType /\ RingType /\ RunType /\ WriterType /\ LinkType
  /\ ControlInv

LEMMA TypeInit == Init => TypeInv
<1> SUFFICES ASSUME Init PROVE TypeInv
  OBVIOUS
<1> USE SessionSizes DEF SessionSizes, Init, NoFrame, Frame, Conns
<1>0. NoFrame \in Frame
  OBVIOUS
<1>1. OutsideType /\ DrainType /\ WriterType
  <2>1. OutsideType
    <3>1. cancelled = FALSE /\ failures = 0
      OBVIOUS
    <3>2. 0 \in 0..MaxFailures
      OBVIOUS
    <3> QED
      BY <3>1, <3>2, Zenon DEF OutsideType
  <2>2. DrainType
    BY <1>0 DEF DrainType
  <2>3. WriterType
    BY <1>0 DEF WriterType
  <2> QED
    BY <2>1, <2>2, <2>3
<1>2. RunType
  BY DEF RunType
<1>3. RingType
  <2>1. ring \in Seq(Admitted) /\ Len(ring) = 0
    BY EmptySeq
  <2>2. notify = FALSE /\ counted = {} /\ evicted = {}
    OBVIOUS
  <2>3. 0 <= RingCap
    OBVIOUS
  <2> QED
    BY <2>1, <2>2, <2>3 DEF RingType
<1>4. LinkType
  <2>1. sent \in [Conns -> Seq(Frame)]
    BY EmptySeq
  <2>2. published \in Seq([conn : Conns, n : Nat])
    BY EmptySeq
  <2>3. reader \in [Conns -> {"read", "publish", "returned", "panicked"}]
        /\ message \in [Conns -> Nat] /\ answered \in [Conns -> Nat]
        /\ link \in [Conns -> {"none", "up", "ending", "ended", "broken"}]
    OBVIOUS
  <2> QED
    BY <2>1, <2>2, <2>3 DEF LinkType
<1>5. ControlInv
  BY DEF ControlInv, WriterDone, Unconnected
<1> QED
  BY <1>1, <1>2, <1>3, <1>4, <1>5 DEF TypeInv

LEMMA DrainTypeStep ==
  ASSUME TypeInv, [Next]_vars
  PROVE  OutsideType' /\ DrainType' /\ RingType'
<1> USE SessionSizes DEF SessionSizes, TypeInv, OutsideType, DrainType, RingType, Frame, Admitted
<1>1. ASSUME NEW loud \in BOOLEAN, ReceiveFrame(loud)
      PROVE  OutsideType' /\ DrainType' /\ RingType'
  <2>1. frame' = [n |-> frame.n + 1, loud |-> loud] /\ frame.n \in Nat
    BY <1>1 DEF ReceiveFrame
  <2>2. frame' \in Frame /\ frame'.n \in Nat /\ frame'.loud = loud
    BY <2>1
  <2>3. ObserveLevel(frame')
    BY <1>1 DEF ReceiveFrame
  <2>4. silentFrom' \in {0, frame'.n, silentFrom} /\ edges' \in {edges, edges + 1}
    BY <2>3 DEF ObserveLevel
  <2>5. active' \in BOOLEAN
    BY <2>3, Zenon DEF ObserveLevel
  <2> QED
    BY <1>1, <2>2, <2>4, <2>5 DEF ReceiveFrame, outside
<1>2. CASE PushFrame
  <2> DEFINE new == [n |-> frame.n, loud |-> frame.loud, active |-> active]
             full == Len(ring) + 1 > RingCap
  <2>1. new \in Admitted
    BY <1>2 DEF PushFrame, PushWith, ControlInv
  <2>2. ring' = IF full THEN Tail(Append(ring, new)) ELSE Append(ring, new)
    BY <1>2 DEF PushFrame, PushWith
  <2>3. Append(ring, new) \in Seq(Admitted) /\ Len(Append(ring, new)) = Len(ring) + 1
        /\ Append(ring, new) # <<>>
    BY <2>1, AppendProperties
  <2>4. Tail(Append(ring, new)) \in Seq(Admitted) /\ Len(Tail(Append(ring, new))) = Len(ring)
    BY <2>3, HeadTailProperties
  <2>5. ring' \in Seq(Admitted) /\ Len(ring') <= RingCap
    <3>1. CASE full
      BY <2>2, <2>4, <3>1
    <3>2. CASE ~full
      BY <2>2, <2>3, <3>2
    <3> QED
      BY <3>1, <3>2
  <2>6. full => Head(ring) \in Admitted
    <3>1. full => ring # <<>>
      <4>1. ring = <<>> => Len(ring) = 0
        OBVIOUS
      <4> QED
        BY <4>1
    <3> QED
      BY <3>1, HeadTailProperties
  <2>7. counted' \subseteq evicted' /\ evicted' \subseteq Nat
    BY <1>2, <2>6 DEF PushFrame, PushWith
  <2>8. notify' \in BOOLEAN
    BY <1>2 DEF PushFrame, PushWith
  <2> QED
    BY <1>2, <2>5, <2>7, <2>8 DEF PushFrame, PushWith, outside
<1>3. CASE DrainEnds \/ Cancel
  BY <1>3 DEF DrainEnds, Cancel, outside, drainVars
<1>4. CASE LoopTop \/ Sleep \/ Hook \/ WaitResume
  BY <1>4 DEF LoopTop, Sleep, Hook, WaitResume, Arm, TestActive, Parked, Goto, outside, drainVars
<1>5. ASSUME NEW permanent \in BOOLEAN, DialFails(permanent)
      PROVE  OutsideType' /\ DrainType' /\ RingType'
  BY <1>5 DEF DialFails, Goto, drainVars
<1>6. CASE WriterReturned \/ ReaderReturned \/ Joined \/ DialSucceeds
  BY <1>6 DEF WriterReturned, ReaderReturned, Joined, DialSucceeds, Dialed, Goto, outside, drainVars
<1>7. ASSUME NEW timeout \in BOOLEAN, Drained(timeout)
      PROVE  OutsideType' /\ DrainType' /\ RingType'
  BY <1>7 DEF Drained, DrainedWhen, Goto, outside, drainVars
<1>8. CASE TestGate \/ SendAudio \/ WriterWakes
  BY <1>8 DEF TestGate, SendAudio, WriterWakes, WakeTo, WriterGoes, outside, drainVars
<1>9. CASE Pop
  <2>1. ring # <<>> => Tail(ring) \in Seq(Admitted) /\ Len(Tail(ring)) <= RingCap
    BY HeadTailProperties
  <2>2. ring' = ring \/ (ring # <<>> /\ ring' = Tail(ring))
    BY <1>9 DEF Pop, PopLeaving
  <2> QED
    BY <1>9, <2>1, <2>2 DEF Pop, PopLeaving, WriterGoes, outside, drainVars
<1>10. ASSUME NEW c \in Conns, Read(c) \/ Deliver(c) \/ Break(c)
       PROVE  OutsideType' /\ DrainType' /\ RingType'
  <2>1. CASE Read(c) \/ Deliver(c)
    BY <2>1 DEF Read, Deliver, outside, drainVars
  <2>2. CASE Break(c)
    BY <2>2 DEF Break, drainVars
  <2> QED
    BY <1>10, <2>1, <2>2
<1>11. CASE UNCHANGED vars
  BY <1>11 DEF vars, outside, drainVars
<1> QED
  BY <1>1, <1>2, <1>3, <1>4, <1>5, <1>6, <1>7, <1>8, <1>9, <1>10, <1>11 DEF Next

LEMMA RunTypeStep ==
  ASSUME TypeInv, [Next]_vars
  PROVE  RunType'
<1> USE SessionSizes DEF SessionSizes, TypeInv, DrainType, RunType, ControlInv, Unconnected
<1>1. ASSUME NEW loud \in BOOLEAN, ReceiveFrame(loud)
      PROVE  RunType'
  BY <1>1 DEF ReceiveFrame, runVars, linkVars
<1>2. CASE PushFrame \/ DrainEnds \/ Cancel
  BY <1>2 DEF PushFrame, PushWith, DrainEnds, Cancel, runVars, linkVars
<1>3. CASE LoopTop \/ Sleep \/ Joined
  <2>1. CASE LoopTop
    BY <2>1 DEF LoopTop, Goto, linkVars
  <2>2. CASE Sleep
    BY <2>2 DEF Sleep, Goto, linkVars
  <2>3. CASE Joined
    BY <2>3 DEF Joined, Goto, linkVars
  <2> QED
    BY <1>3, <2>1, <2>2, <2>3
<1>4. CASE DialSucceeds
  <2>1. conn' = conn + 1 /\ conn' \in 0..MaxConns /\ 1..conn \subseteq 1..conn'
    BY <1>4 DEF DialSucceeds, Dialed
  <2>2. run' = "linked" /\ first' = FALSE /\ backoff' = 0
        /\ UNCHANGED <<outcome, armed, hooked, timedOut, closed>>
    BY <1>4 DEF DialSucceeds, Dialed
  <2>3. hooked' \subseteq 1..conn' /\ timedOut' \subseteq 1..conn' /\ closed' \subseteq 1..conn'
    BY <2>1, <2>2
  <2>4. backoff' \in 0..MaxLevel
    BY <2>2
  <2> QED
    BY <2>1, <2>2, <2>3, <2>4
<1>5. ASSUME NEW permanent \in BOOLEAN, DialFails(permanent)
      PROVE  RunType'
  BY <1>5 DEF DialFails, Goto, linkVars
<1>6. CASE WriterReturned
  BY <1>6 DEF WriterReturned, Goto
<1>7. CASE ReaderReturned
  BY <1>7 DEF ReaderReturned, Goto
<1>8. ASSUME NEW timeout \in BOOLEAN, Drained(timeout)
      PROVE  RunType'
  BY <1>8 DEF Drained, DrainedWhen, Goto
<1>9. CASE Hook
  BY <1>9 DEF Hook, Goto, linkVars
<1>10. CASE WaitResume
  BY <1>10 DEF WaitResume, Arm, TestActive, Parked, Goto, linkVars
<1>11. CASE TestGate \/ Pop \/ SendAudio \/ WriterWakes
  BY <1>11 DEF TestGate, Pop, PopLeaving, SendAudio, WriterWakes, WakeTo, WriterGoes, runVars
<1>12. ASSUME NEW c \in Conns, Read(c) \/ Deliver(c) \/ Break(c)
       PROVE  RunType'
  BY <1>12 DEF Read, Deliver, Break, runVars, linkVars
<1>13. CASE UNCHANGED vars
  BY <1>13 DEF vars, runVars, linkVars
<1> QED
  BY <1>1, <1>2, <1>3, <1>4, <1>5, <1>6, <1>7, <1>8, <1>9, <1>10, <1>11, <1>12, <1>13 DEF Next

LEMMA WriterTypeStep ==
  ASSUME TypeInv, [Next]_vars
  PROVE  WriterType'
<1> USE DEF TypeInv, WriterType, Frame
<1>1. ASSUME NEW loud \in BOOLEAN, ReceiveFrame(loud)
      PROVE  WriterType'
  BY <1>1 DEF ReceiveFrame, writerVars
<1>2. CASE PushFrame \/ DrainEnds \/ Cancel
  BY <1>2 DEF PushFrame, PushWith, DrainEnds, Cancel, writerVars
<1>3. CASE LoopTop \/ Sleep \/ Joined \/ WriterReturned \/ ReaderReturned \/ Hook \/ WaitResume
  BY <1>3 DEF LoopTop, Sleep, Joined, WriterReturned, ReaderReturned, Hook, WaitResume, writerVars
<1>4. CASE DialSucceeds
  BY <1>4 DEF DialSucceeds, Dialed
<1>5. ASSUME NEW permanent \in BOOLEAN, DialFails(permanent)
      PROVE  WriterType'
  BY <1>5 DEF DialFails, writerVars
<1>6. ASSUME NEW timeout \in BOOLEAN, Drained(timeout)
      PROVE  WriterType'
  BY <1>6 DEF Drained, DrainedWhen, writerVars
<1>7. CASE TestGate \/ WriterWakes
  BY <1>7 DEF TestGate, WriterWakes, WakeTo, WriterGoes, DrainType
<1>8. CASE Pop
  <2>1. ring # <<>> => Head(ring) \in Admitted
    BY HeadTailProperties DEF RingType
  <2>2. ring # <<>> => [n |-> Head(ring).n, loud |-> Head(ring).loud] \in Frame
    BY <2>1 DEF Admitted
  <2> QED
    BY <1>8, <2>2 DEF Pop, PopLeaving, WriterGoes
<1>9. CASE SendAudio
  BY <1>9 DEF SendAudio, WriterGoes, NoFrame
<1>10. ASSUME NEW c \in Conns, Read(c) \/ Deliver(c) \/ Break(c)
       PROVE  WriterType'
  BY <1>10 DEF Read, Deliver, Break, writerVars
<1>11. CASE UNCHANGED vars
  BY <1>11 DEF vars, writerVars
<1> QED
  BY <1>1, <1>2, <1>3, <1>4, <1>5, <1>6, <1>7, <1>8, <1>9, <1>10, <1>11 DEF Next

LEMMA LinkTypeStep ==
  ASSUME TypeInv, [Next]_vars
  PROVE  LinkType'
<1> USE DEF TypeInv, LinkType
<1>1. ASSUME NEW loud \in BOOLEAN, ReceiveFrame(loud)
      PROVE  LinkType'
  BY <1>1 DEF ReceiveFrame, readerVars, linkVars
<1>2. CASE PushFrame \/ DrainEnds \/ Cancel
  BY <1>2 DEF PushFrame, PushWith, DrainEnds, Cancel, readerVars, linkVars
<1>3. CASE LoopTop \/ Sleep \/ Joined \/ ReaderReturned \/ Hook \/ WaitResume
  BY <1>3 DEF LoopTop, Sleep, Joined, ReaderReturned, Hook, WaitResume, readerVars, linkVars
<1>4. CASE DialSucceeds
  BY <1>4 DEF DialSucceeds, Dialed
<1>5. ASSUME NEW permanent \in BOOLEAN, DialFails(permanent)
      PROVE  LinkType'
  BY <1>5 DEF DialFails, readerVars, linkVars
<1>6. ASSUME NEW timeout \in BOOLEAN, Drained(timeout)
      PROVE  LinkType'
  BY <1>6 DEF Drained, DrainedWhen, readerVars
<1>7. CASE WriterReturned
  BY <1>7 DEF WriterReturned, readerVars
<1>8. CASE TestGate \/ WriterWakes \/ Pop
  BY <1>8 DEF TestGate, WriterWakes, WakeTo, Pop, PopLeaving, WriterGoes, readerVars
<1>9. CASE SendAudio
  <2>1. sent' = sent \/ sent' = [sent EXCEPT ![conn] = Append(@, chunk)]
    BY <1>9 DEF SendAudio
  <2>2. \A c \in Conns : Append(sent[c], chunk) \in Seq(Frame)
    BY AppendProperties DEF WriterType
  <2>3. sent' \in [Conns -> Seq(Frame)]
    <3>1. CASE sent' = sent
      BY <3>1
    <3>2. CASE sent' = [sent EXCEPT ![conn] = Append(@, chunk)]
      BY <2>2, <3>2
    <3> QED
      BY <2>1, <3>1, <3>2
  <2> QED
    BY <1>9, <2>3 DEF SendAudio, WriterGoes, readerVars
<1>10. ASSUME NEW c \in Conns, Read(c)
       PROVE  LinkType'
  <2>1. \A i \in Unanswered(c) : i \in Nat /\ i \in 1..Len(sent[c]) /\ sent[c][i].n \in Nat
    <3>1. \A i \in Unanswered(c) : i \in answered[c] + 1..Len(sent[c])
      BY DEF Unanswered
    <3>2. answered[c] \in Nat /\ Len(sent[c]) \in Nat /\ sent[c] \in Seq(Frame)
      BY LenProperties
    <3>3. \A i \in Unanswered(c) : i \in Nat /\ i \in 1..Len(sent[c])
      BY <3>1, <3>2
    <3>4. \A i \in Unanswered(c) : sent[c][i] \in Frame
      BY <3>2, <3>3, ElementOfSeq
    <3> QED
      BY <3>3, <3>4 DEF Frame
  <2>2. message' \in [Conns -> Nat] /\ answered' \in [Conns -> Nat]
    BY <1>10, <2>1 DEF Read
  <2>3. reader' \in [Conns -> {"read", "publish", "returned", "panicked"}]
        /\ link' \in [Conns -> {"none", "up", "ending", "ended", "broken"}]
    BY <1>10 DEF Read
  <2> QED
    BY <1>10, <2>2, <2>3 DEF Read
<1>11. ASSUME NEW c \in Conns, Deliver(c)
       PROVE  LinkType'
  <2>1. [conn |-> c, n |-> message[c]] \in [conn : Conns, n : Nat]
    OBVIOUS
  <2>2. published' \in Seq([conn : Conns, n : Nat])
    BY <1>11, <2>1, AppendProperties DEF Deliver
  <2> QED
    BY <1>11, <2>2 DEF Deliver, linkVars
<1>12. ASSUME NEW c \in Conns, Break(c)
       PROVE  LinkType'
  BY <1>12 DEF Break, readerVars
<1>13. CASE UNCHANGED vars
  BY <1>13 DEF vars, readerVars, linkVars
<1> QED
  BY <1>1, <1>2, <1>3, <1>4, <1>5, <1>6, <1>7, <1>8, <1>9, <1>10, <1>11, <1>12, <1>13 DEF Next

LEMMA ControlStep ==
  ASSUME TypeInv, [Next]_vars
  PROVE  ControlInv'
<1> USE DEF TypeInv, ControlInv, WriterDone, Unconnected
<1>1. ASSUME NEW loud \in BOOLEAN, ReceiveFrame(loud)
      PROVE  ControlInv'
  <2>1. frame'.n = frame.n + 1 /\ frame.n \in Nat
    BY <1>1 DEF ReceiveFrame, DrainType, Frame
  <2> QED
    BY <1>1, <2>1 DEF ReceiveFrame, runVars, writerVars
<1>2. CASE PushFrame \/ DrainEnds \/ Cancel
  BY <1>2 DEF PushFrame, PushWith, DrainEnds, Cancel, runVars, writerVars, drainVars
<1>3. CASE LoopTop \/ Sleep \/ Joined \/ Hook
  BY <1>3 DEF LoopTop, Sleep, Joined, Hook, Goto, writerVars, drainVars
<1>4. CASE DialSucceeds
  BY <1>4 DEF DialSucceeds, Dialed, drainVars, RunType
<1>5. ASSUME NEW permanent \in BOOLEAN, DialFails(permanent)
      PROVE  ControlInv'
  BY <1>5 DEF DialFails, Goto, writerVars, drainVars
<1>6. ASSUME NEW timeout \in BOOLEAN, Drained(timeout)
      PROVE  ControlInv'
  BY <1>6 DEF Drained, DrainedWhen, Goto, writerVars, drainVars
<1>7. CASE WriterReturned \/ ReaderReturned
  BY <1>7 DEF WriterReturned, ReaderReturned, Goto, writerVars, drainVars
<1>8. CASE WaitResume
  BY <1>8 DEF WaitResume, Arm, TestActive, Parked, Goto, writerVars, drainVars
<1>9. CASE TestGate \/ WriterWakes
  BY <1>9 DEF TestGate, WriterWakes, WakeTo, WriterGoes, runVars, drainVars
<1>10. CASE Pop
  <2>1. ring # <<>> => Head(ring) \in Admitted
    BY HeadTailProperties DEF RingType
  <2> QED
    BY <1>10, <2>1 DEF Pop, PopLeaving, WriterGoes, runVars, drainVars, Admitted
<1>11. CASE SendAudio
  BY <1>11 DEF SendAudio, WriterGoes, NoFrame, runVars, drainVars
<1>12. ASSUME NEW c \in Conns, Read(c) \/ Deliver(c) \/ Break(c)
       PROVE  ControlInv'
  BY <1>12 DEF Read, Deliver, Break, runVars, writerVars, drainVars
<1>13. CASE UNCHANGED vars
  BY <1>13 DEF vars, runVars, writerVars, drainVars
<1> QED
  BY <1>1, <1>2, <1>3, <1>4, <1>5, <1>6, <1>7, <1>8, <1>9, <1>10, <1>11, <1>12, <1>13 DEF Next

LEMMA TypeStep == TypeInv /\ [Next]_vars => TypeInv'
BY DrainTypeStep, RunTypeStep, WriterTypeStep, LinkTypeStep, ControlStep DEF TypeInv

LEMMA TypeAlways == Spec => []TypeInv
BY TypeInit, TypeStep, PTL DEF Spec

(* Every variable keeps its type (the Go types, and where a goroutine's     *)
(* function can be).                                                        *)
THEOREM SessionTypeCorrect == Spec => []TypeOK
<1>1. TypeInv => TypeOK
  BY TypeOKParts DEF TypeInv
<1> QED
  BY <1>1, TypeAlways, PTL
-----------------------------------------------------------------------------
(* The steps that move audio.                                               *)
audioVars == <<ring, chunk, sent, evicted, counted, failed, frame, active>>

LEMMA AudioSteps ==
  ASSUME TypeInv, [Next]_vars
  PROVE  \/ \E loud \in BOOLEAN : ReceiveFrame(loud)
         \/ PushFrame \/ Pop \/ SendAudio
         \/ /\ UNCHANGED audioVars
            /\ drain' = drain \/ (drain = "recv" /\ drain' = "ended")
            /\ conn' \in Int /\ conn <= conn'
<1> DEFINE Still == /\ UNCHANGED audioVars
                    /\ drain' = drain \/ (drain = "recv" /\ drain' = "ended")
                    /\ conn' \in Int /\ conn <= conn'
<1>0. conn \in Int
  BY DEF TypeInv, RunType
<1> USE <1>0 DEF audioVars
<1>1. CASE DrainEnds \/ Cancel
  BY <1>1 DEF DrainEnds, Cancel, runVars, writerVars, linkVars, drainVars
<1>2. CASE LoopTop \/ Sleep \/ Joined \/ Hook \/ WriterReturned \/ ReaderReturned \/ WaitResume
  BY <1>2 DEF LoopTop, Sleep, Joined, Hook, WriterReturned, ReaderReturned, WaitResume, Arm,
              TestActive, Parked, Goto, writerVars, linkVars, drainVars
<1>3. CASE DialSucceeds
  BY <1>3 DEF DialSucceeds, Dialed, drainVars
<1>4. ASSUME NEW permanent \in BOOLEAN, DialFails(permanent)
      PROVE  Still
  BY <1>4 DEF DialFails, Goto, writerVars, linkVars, drainVars
<1>5. ASSUME NEW timeout \in BOOLEAN, Drained(timeout)
      PROVE  Still
  BY <1>5 DEF Drained, DrainedWhen, Goto, writerVars, drainVars
<1>6. CASE TestGate \/ WriterWakes
  BY <1>6 DEF TestGate, WriterWakes, WakeTo, WriterGoes, runVars, drainVars
<1>7. ASSUME NEW c \in Conns, Read(c) \/ Deliver(c) \/ Break(c)
      PROVE  Still
  BY <1>7 DEF Read, Deliver, Break, runVars, writerVars, drainVars, linkVars
<1>8. CASE UNCHANGED vars
  BY <1>8 DEF vars, runVars, writerVars, linkVars, drainVars
<1> QED
  BY <1>1, <1>2, <1>3, <1>4, <1>5, <1>6, <1>7, <1>8 DEF Next

(* What push leaves in the ring: one more chunk behind, one less in front   *)
(* if there was no room.                                                    *)
Room == IF Len(ring) + 1 > RingCap THEN 1 ELSE 0

LEMMA PushedRing ==
  ASSUME TypeInv, PushFrame
  PROVE  LET new == [n |-> frame.n, loud |-> frame.loud, active |-> active]
         IN  /\ Len(ring') = Len(ring) + 1 - Room
             /\ \A i \in 1..Len(ring') :
                  ring'[i] = IF i + Room <= Len(ring) THEN ring[i + Room] ELSE new
             /\ Room = 1 => Len(ring) >= 1 /\ Head(ring) = ring[1]
<1> DEFINE new == [n |-> frame.n, loud |-> frame.loud, active |-> active]
           all == Append(ring, new)
<1>1. new \in Admitted /\ ring \in Seq(Admitted) /\ RingCap \in Nat \ {0}
  BY SessionSizes
     DEF PushFrame, PushWith, TypeInv, ControlInv, DrainType, RingType, Admitted, Frame, SessionSizes
<1>2. /\ all \in Seq(Admitted) /\ all # <<>> /\ Len(all) = Len(ring) + 1 /\ Len(ring) \in Nat
      /\ \A i \in 1..Len(ring) : all[i] = ring[i]
      /\ all[Len(ring) + 1] = new
  BY <1>1, AppendProperties, LenProperties
<1>3. ring' = IF Len(ring) + 1 > RingCap THEN Tail(all) ELSE all
  BY DEF PushFrame, PushWith
<1> HIDE DEF new, all
<1>4. CASE Len(ring) + 1 > RingCap
  <2>1. Len(ring') = Len(ring) /\ \A i \in 1..Len(ring') : ring'[i] = all[i + 1]
    BY <1>2, <1>3, <1>4, HeadTailProperties
  <2>2. Room = 1 /\ Len(ring) >= 1
    BY <1>1, <1>2, <1>4 DEF Room
  <2>3. Head(ring) = ring[1]
    BY <1>1
  <2> QED
    BY <1>2, <2>1, <2>2, <2>3 DEF new
<1>5. CASE ~(Len(ring) + 1 > RingCap)
  <2>1. Room = 0
    BY <1>5 DEF Room
  <2> QED
    BY <1>2, <1>3, <1>5, <2>1 DEF new
<1> QED
  BY <1>4, <1>5

(* The same, for what is in the hand of the writer and on the connections.  *)
LEMMA PoppedRing ==
  ASSUME TypeInv, Pop
  PROVE  /\ UNCHANGED <<sent, evicted, counted, failed, frame, active, drain, conn>>
         /\ chunk.n = 0
         /\ \/ UNCHANGED <<ring, chunk>>
            \/ /\ Len(ring) >= 1
               /\ chunk' = [n |-> ring[1].n, loud |-> ring[1].loud]
               /\ Len(ring') = Len(ring) - 1
               /\ \A i \in 1..Len(ring') : ring'[i] = ring[i + 1]
               /\ ring[1].n \in Nat \ {0}
<1>1. /\ UNCHANGED <<sent, evicted, counted, failed, frame, active, drain, conn>>
      /\ chunk.n = 0
  BY DEF Pop, PopLeaving, WriterGoes, drainVars, runVars, TypeInv, ControlInv
<1>2. CASE ring = <<>>
  BY <1>1, <1>2 DEF Pop, PopLeaving
<1>3. CASE ring # <<>>
  <2>1. ring \in Seq(Admitted)
    BY DEF TypeInv, RingType
  <2>2. /\ Len(Tail(ring)) = Len(ring) - 1 /\ Head(ring) \in Admitted
        /\ \A i \in 1..Len(Tail(ring)) : Tail(ring)[i] = ring[i + 1]
    BY <1>3, <2>1, HeadTailProperties
  <2>3. Len(ring) >= 1 /\ Head(ring) = ring[1]
    BY <1>3, <2>1, EmptySeq
  <2>4. chunk' = [n |-> Head(ring).n, loud |-> Head(ring).loud] /\ ring' = Tail(ring)
    BY <1>3 DEF Pop, PopLeaving
  <2> QED
    BY <1>1, <2>2, <2>3, <2>4 DEF Admitted
<1> QED
  BY <1>2, <1>3

LEMMA SentAudio ==
  ASSUME TypeInv, SendAudio
  PROVE  /\ UNCHANGED <<ring, evicted, counted, frame, active, drain, conn>>
         /\ conn \in Conns /\ chunk \in Frame /\ chunk.n # 0 /\ chunk'.n = 0
         /\ \/ /\ UNCHANGED failed
               /\ sent' = [sent EXCEPT ![conn] = Append(sent[conn], chunk)]
               /\ Len(sent'[conn]) = Len(sent[conn]) + 1
               /\ sent'[conn][Len(sent[conn]) + 1] = chunk
               /\ \A i \in 1..Len(sent[conn]) : sent'[conn][i] = sent[conn][i]
               /\ \A c \in Conns \ {conn} : sent'[c] = sent[c]
            \/ /\ UNCHANGED sent
               /\ failed' = failed \cup {chunk.n}
<1>1. UNCHANGED <<ring, evicted, counted, frame, active, drain, conn>>
  BY DEF SendAudio, WriterGoes, drainVars, runVars
<1>2. conn \in Conns /\ chunk \in Frame /\ chunk.n # 0 /\ chunk'.n = 0
  BY SessionSizes
     DEF SessionSizes, SendAudio, TypeInv, ControlInv, RunType, WriterType, WriterDone, Conns, NoFrame
<1>3. sent \in [Conns -> Seq(Frame)]
  BY DEF TypeInv, LinkType
<1>4. CASE sent' = [sent EXCEPT ![conn] = Append(@, chunk)] /\ UNCHANGED failed
  <2>1. sent[conn] \in Seq(Frame) /\ sent'[conn] = Append(sent[conn], chunk)
    BY <1>2, <1>3, <1>4
  <2>2. /\ Len(sent'[conn]) = Len(sent[conn]) + 1
        /\ sent'[conn][Len(sent[conn]) + 1] = chunk
        /\ \A i \in 1..Len(sent[conn]) : sent'[conn][i] = sent[conn][i]
    BY <1>2, <2>1, AppendProperties
  <2>3. \A c \in Conns \ {conn} : sent'[c] = sent[c]
    BY <1>3, <1>4
  <2> QED
    BY <1>1, <1>2, <1>4, <2>2, <2>3
<1>5. CASE failed' = failed \cup {chunk.n} /\ UNCHANGED sent
  BY <1>1, <1>2, <1>5
<1> QED
  BY <1>4, <1>5 DEF SendAudio
-----------------------------------------------------------------------------
(* Order: one lemma for each step that moves audio.                         *)
LEMMA NumberType ==
  ASSUME TypeInv
  PROVE  /\ frame.n \in Nat /\ Pushed \in Int /\ chunk.n \in Nat /\ conn \in Nat
         /\ Len(ring) \in Nat /\ \A i \in 1..Len(ring) : ring[i].n \in Nat \ {0}
         /\ \A c \in Conns : Len(sent[c]) \in Nat
         /\ \A c \in Conns : \A i \in 1..Len(sent[c]) : sent[c][i].n \in Nat
<1>1. frame.n \in Nat /\ Pushed \in Int /\ chunk.n \in Nat /\ conn \in Nat
  BY DEF TypeInv, DrainType, WriterType, RunType, Frame, Pushed
<1>2. Len(ring) \in Nat /\ \A i \in 1..Len(ring) : ring[i] \in Admitted
  BY LenProperties, ElementOfSeq DEF TypeInv, RingType
<1>3. \A c \in Conns : sent[c] \in Seq(Frame)
  BY DEF TypeInv, LinkType
<1>4. \A c \in Conns : Len(sent[c]) \in Nat /\ \A i \in 1..Len(sent[c]) : sent[c][i] \in Frame
  BY <1>3, LenProperties, ElementOfSeq
<1> QED
  BY <1>1, <1>2, <1>4 DEF Admitted, Frame

LEMMA ReceiveKeepsOrder ==
  ASSUME TypeInv, OrderInv, NEW loud \in BOOLEAN, ReceiveFrame(loud)
  PROVE  OrderInv'
<1>1. Pushed' = Pushed /\ UNCHANGED <<ring, chunk, sent, conn>>
  BY NumberType DEF ReceiveFrame, Pushed, runVars, writerVars, linkVars
<1> QED
  BY <1>1 DEF OrderInv, RingInOrder, ChunkInOrder, SentBehind, SentAscends

LEMMA PushKeepsOrder ==
  ASSUME TypeInv, OrderInv, PushFrame
  PROVE  OrderInv'
<1>0. /\ frame.n \in Nat /\ chunk.n \in Nat /\ Len(ring) \in Nat
      /\ \A k \in 1..Len(ring) : ring[k].n \in Nat
      /\ \A c \in Conns : \A i \in 1..Len(sent[c]) : sent[c][i].n \in Nat
  BY NumberType
<1>1. Pushed' = frame.n /\ Pushed = frame.n - 1 /\ UNCHANGED <<chunk, sent, conn>>
  BY <1>0 DEF PushFrame, PushWith, Pushed, runVars, writerVars, linkVars
<1>2. /\ Len(ring') = Len(ring) + 1 - Room /\ Room \in {0, 1}
      /\ \A i \in 1..Len(ring') : IF i + Room <= Len(ring) THEN ring'[i] = ring[i + Room]
                                  ELSE i + Room = Len(ring) + 1 /\ ring'[i].n = frame.n
  BY <1>0, PushedRing DEF Room
(* Every chunk of the new ring is one of the old ring or the frame pushed.   *)
<1>3. \A i \in 1..Len(ring') : \/ i + Room \in 1..Len(ring) /\ ring'[i] = ring[i + Room]
                               \/ i + Room = Len(ring) + 1 /\ ring'[i].n = frame.n
  BY <1>0, <1>2
<1>4. RingInOrder'
  <2> SUFFICES ASSUME NEW i \in 1..Len(ring')
               PROVE  /\ 1 <= ring'[i].n /\ ring'[i].n <= Pushed'
                      /\ \A j \in 1..Len(ring') : i < j => ring'[i].n < ring'[j].n
    BY DEF RingInOrder
  <2>1. \A k \in 1..Len(ring) : 1 <= ring[k].n /\ ring[k].n < frame.n
    BY <1>0, <1>1 DEF OrderInv, RingInOrder
  <2>2. 1 <= frame.n
    BY DEF PushFrame, PushWith, TypeInv, ControlInv
  <2>3. 1 <= ring'[i].n /\ ring'[i].n <= Pushed'
    <3>1. CASE ring'[i].n = frame.n
      BY <1>0, <1>1, <2>2, <3>1
    <3>2. CASE i + Room \in 1..Len(ring) /\ ring'[i] = ring[i + Room]
      BY <1>0, <1>1, <2>1, <3>2
    <3> QED
      BY <1>3, <3>1, <3>2
  <2>4. ASSUME NEW j \in 1..Len(ring'), i < j
        PROVE  ring'[i].n < ring'[j].n
    <3>1. i + Room \in 1..Len(ring) /\ ring'[i] = ring[i + Room]
      <4>1. i \in Nat /\ j \in Nat /\ j + Room <= Len(ring) + 1 /\ Room \in {0, 1}
        BY <1>0, <1>2
      <4>2. i + Room # Len(ring) + 1
        BY <1>0, <2>4, <4>1
      <4> QED
        BY <1>3, <4>2
    <3>2. CASE ring'[j].n = frame.n
      BY <2>1, <3>1, <3>2
    <3>3. CASE j + Room \in 1..Len(ring) /\ ring'[j] = ring[j + Room]
      BY <1>0, <1>2, <2>4, <3>1, <3>3 DEF OrderInv, RingInOrder
    <3> QED
      BY <1>3, <3>2, <3>3
  <2> QED
    BY <2>3, <2>4
<1>5. ChunkInOrder'
  BY <1>0, <1>1, <1>3 DEF OrderInv, ChunkInOrder
<1>6. SentBehind'
  <2> SUFFICES ASSUME NEW c \in Conns, NEW i \in 1..Len(sent[c])
               PROVE  /\ 1 <= sent[c][i].n /\ sent[c][i].n <= Pushed'
                      /\ chunk.n # 0 => sent[c][i].n < chunk.n
                      /\ \A j \in 1..Len(ring') : sent[c][i].n < ring'[j].n
    BY <1>1 DEF SentBehind
  <2>1. /\ 1 <= sent[c][i].n /\ sent[c][i].n <= Pushed /\ sent[c][i].n \in Nat
        /\ chunk.n # 0 => sent[c][i].n < chunk.n
        /\ \A k \in 1..Len(ring) : sent[c][i].n < ring[k].n
    BY <1>0 DEF OrderInv, SentBehind
  <2>2. ASSUME NEW j \in 1..Len(ring')
        PROVE  sent[c][i].n < ring'[j].n
    <3>1. CASE ring'[j].n = frame.n
      BY <1>0, <1>1, <2>1, <3>1
    <3>2. CASE j + Room \in 1..Len(ring) /\ ring'[j] = ring[j + Room]
      BY <2>1, <3>2
    <3> QED
      BY <1>3, <3>1, <3>2
  <2>3. sent[c][i].n <= Pushed'
    BY <1>0, <1>1, <2>1
  <2> QED
    BY <2>1, <2>2, <2>3
<1>7. SentAscends'
  BY <1>1 DEF OrderInv, SentAscends
<1> QED
  BY <1>4, <1>5, <1>6, <1>7 DEF OrderInv

LEMMA PopKeepsOrder ==
  ASSUME TypeInv, OrderInv, Pop
  PROVE  OrderInv'
<1>1. Pushed' = Pushed /\ UNCHANGED <<sent, conn>>
  BY PoppedRing DEF Pushed
<1>2. CASE UNCHANGED <<ring, chunk>>
  BY <1>1, <1>2 DEF OrderInv, RingInOrder, ChunkInOrder, SentBehind, SentAscends
<1>3. CASE ~UNCHANGED <<ring, chunk>>
  <2>1. /\ Len(ring) >= 1 /\ chunk'.n = ring[1].n
        /\ Len(ring') = Len(ring) - 1
        /\ \A i \in 1..Len(ring') : ring'[i] = ring[i + 1]
    BY <1>3, PoppedRing
  <2>2. /\ 1 \in 1..Len(ring) /\ ring[1].n \in Nat
        /\ \A i \in 1..Len(ring') : i \in Nat /\ i + 1 \in 1..Len(ring) /\ 1 < i + 1
    BY <2>1, NumberType
  <2>3. RingInOrder'
    <3> SUFFICES ASSUME NEW i \in 1..Len(ring')
                 PROVE  /\ 1 <= ring'[i].n /\ ring'[i].n <= Pushed'
                        /\ \A j \in 1..Len(ring') : i < j => ring'[i].n < ring'[j].n
      BY DEF RingInOrder
    <3>1. i + 1 \in 1..Len(ring) /\ ring'[i] = ring[i + 1] /\ i \in Nat
      BY <2>1, <2>2
    <3>2. 1 <= ring'[i].n /\ ring'[i].n <= Pushed'
      BY <1>1, <3>1 DEF OrderInv, RingInOrder
    <3>3. ASSUME NEW j \in 1..Len(ring'), i < j
          PROVE  ring'[i].n < ring'[j].n
      <4>1. j + 1 \in 1..Len(ring) /\ ring'[j] = ring[j + 1] /\ i + 1 < j + 1
        BY <2>1, <2>2, <3>1, <3>3
      <4> QED
        BY <3>1, <4>1 DEF OrderInv, RingInOrder
    <3> QED
      BY <3>2, <3>3
  <2>4. ChunkInOrder'
    BY <1>1, <2>1, <2>2 DEF OrderInv, RingInOrder, ChunkInOrder
  <2>5. SentBehind'
    <3> SUFFICES ASSUME NEW c \in Conns, NEW i \in 1..Len(sent[c])
                 PROVE  /\ 1 <= sent[c][i].n /\ sent[c][i].n <= Pushed
                        /\ sent[c][i].n < chunk'.n
                        /\ \A j \in 1..Len(ring') : sent[c][i].n < ring'[j].n
      BY <1>1 DEF SentBehind
    <3> QED
      BY <2>1, <2>2 DEF OrderInv, SentBehind
  <2>6. SentAscends'
    BY <1>1 DEF OrderInv, SentAscends
  <2> QED
    BY <2>3, <2>4, <2>5, <2>6 DEF OrderInv
<1> QED
  BY <1>2, <1>3

LEMMA SendKeepsOrder ==
  ASSUME TypeInv, OrderInv, SendAudio
  PROVE  OrderInv'
<1>1. /\ Pushed' = Pushed /\ UNCHANGED <<ring, conn>>
      /\ conn \in Conns /\ chunk.n # 0 /\ chunk'.n = 0 /\ chunk.n \in Nat
  BY SentAudio, NumberType DEF Pushed
<1>2. RingInOrder' /\ ChunkInOrder'
  BY <1>1, NumberType DEF OrderInv, RingInOrder, ChunkInOrder
<1>3. CASE UNCHANGED sent
  BY <1>1, <1>2, <1>3 DEF OrderInv, SentBehind, SentAscends
<1>4. CASE ~UNCHANGED sent
  <2>1. /\ Len(sent'[conn]) = Len(sent[conn]) + 1
        /\ sent'[conn][Len(sent[conn]) + 1] = chunk
        /\ \A i \in 1..Len(sent[conn]) : sent'[conn][i] = sent[conn][i]
        /\ \A c \in Conns \ {conn} : sent'[c] = sent[c]
    BY <1>4, SentAudio
  (* Every frame written is an old one or the chunk.                         *)
  <2>10. \A c \in Conns : \A i \in 1..Len(sent'[c]) :
          \/ i \in 1..Len(sent[c]) /\ sent'[c][i] = sent[c][i]
          \/ c = conn /\ i = Len(sent[c]) + 1 /\ sent'[c][i] = chunk
    <3> SUFFICES ASSUME NEW c \in Conns, NEW i \in 1..Len(sent'[c])
                 PROVE  \/ i \in 1..Len(sent[c]) /\ sent'[c][i] = sent[c][i]
                        \/ c = conn /\ i = Len(sent[c]) + 1 /\ sent'[c][i] = chunk
      OBVIOUS
    <3>1. Len(sent[c]) \in Nat
      BY NumberType
    <3> QED
      BY <1>1, <2>1, <3>1
  <2>20. \A c \in Conns : \A i \in 1..Len(sent[c]) : sent[c][i].n \in Nat /\ sent[c][i].n < chunk.n
    BY <1>1, NumberType DEF OrderInv, SentBehind
  <2>2. SentBehind'
    <3> SUFFICES ASSUME NEW c \in Conns, NEW i \in 1..Len(sent'[c])
                 PROVE  /\ 1 <= sent'[c][i].n /\ sent'[c][i].n <= Pushed
                        /\ \A j \in 1..Len(ring) : sent'[c][i].n < ring[j].n
      BY <1>1 DEF SentBehind
    <3>1. CASE sent'[c][i] = chunk
      BY <1>1, <3>1 DEF OrderInv, ChunkInOrder
    <3>2. CASE i \in 1..Len(sent[c]) /\ sent'[c][i] = sent[c][i]
      BY <3>2 DEF OrderInv, SentBehind
    <3> QED
      BY <2>10, <3>1, <3>2
  <2>3. \A c \in Conns : c > conn' => sent'[c] = <<>>
    BY <1>1, <2>1 DEF OrderInv, SentAscends, Conns
  <2>4. \A c \in Conns : \A i, j \in 1..Len(sent'[c]) : i < j => sent'[c][i].n < sent'[c][j].n
    <3> SUFFICES ASSUME NEW c \in Conns, NEW i \in 1..Len(sent'[c]), NEW j \in 1..Len(sent'[c]),
                        i < j
                 PROVE  sent'[c][i].n < sent'[c][j].n
      OBVIOUS
    <3>1. Len(sent[c]) \in Nat
      BY NumberType
    <3>2. i \in 1..Len(sent[c]) /\ sent'[c][i] = sent[c][i]
      BY <1>1, <2>10, <2>1, <3>1
    <3>3. CASE sent'[c][j] = chunk
      BY <2>20, <3>2, <3>3
    <3>4. CASE j \in 1..Len(sent[c]) /\ sent'[c][j] = sent[c][j]
      BY <3>2, <3>4 DEF OrderInv, SentAscends
    <3> QED
      BY <2>10, <3>3, <3>4
  <2>5. \A c, d \in Conns : c < d =>
          \A i \in 1..Len(sent'[c]), j \in 1..Len(sent'[d]) : sent'[c][i].n < sent'[d][j].n
    <3> SUFFICES ASSUME NEW c \in Conns, NEW d \in Conns, c < d,
                        NEW i \in 1..Len(sent'[c]), NEW j \in 1..Len(sent'[d])
                 PROVE  sent'[c][i].n < sent'[d][j].n
      OBVIOUS
    <3>1. CASE c = conn
      <4>1. sent[d] = <<>> /\ sent'[d] = sent[d]
        BY <2>1, <3>1 DEF OrderInv, SentAscends, Conns
      <4> QED
        BY <4>1
    <3>2. CASE d = conn
      <4>1. sent'[c] = sent[c]
        BY <2>1, <3>2, c # d DEF Conns
      <4>2. CASE sent'[d][j] = chunk
        BY <2>20, <4>1, <4>2
      <4>3. CASE j \in 1..Len(sent[d]) /\ sent'[d][j] = sent[d][j]
        BY <4>1, <4>3 DEF OrderInv, SentAscends
      <4> QED
        BY <2>10, <4>2, <4>3
    <3>3. CASE c # conn /\ d # conn
      BY <2>1, <3>3 DEF OrderInv, SentAscends
    <3> QED
      BY <3>1, <3>2, <3>3
  <2> QED
    BY <1>2, <2>2, <2>3, <2>4, <2>5 DEF OrderInv, SentAscends
<1> QED
  BY <1>3, <1>4

LEMMA OrderStep == TypeInv /\ OrderInv /\ [Next]_vars => OrderInv'
<1> SUFFICES ASSUME TypeInv, OrderInv, [Next]_vars
             PROVE  OrderInv'
  OBVIOUS
<1>1. CASE /\ UNCHANGED audioVars
           /\ drain' = drain \/ (drain = "recv" /\ drain' = "ended")
           /\ conn' \in Int /\ conn <= conn'
  <2>1. Pushed' = Pushed /\ UNCHANGED <<ring, chunk, sent>>
    BY <1>1 DEF audioVars, Pushed
  <2>2. \A c \in Conns : c > conn' => c > conn
    BY <1>1, NumberType DEF Conns
  <2> QED
    BY <2>1, <2>2 DEF OrderInv, RingInOrder, ChunkInOrder, SentBehind, SentAscends
<1> QED
  BY <1>1, AudioSteps, ReceiveKeepsOrder, PushKeepsOrder, PopKeepsOrder, SendKeepsOrder

LEMMA OrderInit == Init => OrderInv
<1> SUFFICES ASSUME Init PROVE OrderInv
  OBVIOUS
<1>1. Len(ring) = 0 /\ chunk.n = 0 /\ Pushed = 0 /\ \A c \in Conns : sent[c] = <<>>
  BY DEF Init, NoFrame, Pushed
<1>2. \A c \in Conns : Len(sent[c]) = 0
  BY <1>1
<1> QED
  BY <1>1, <1>2 DEF OrderInv, RingInOrder, ChunkInOrder, SentBehind, SentAscends

LEMMA OrderAlways == Spec => [](TypeInv /\ OrderInv)
BY TypeInit, TypeStep, OrderInit, OrderStep, PTL DEF Spec

LEMMA SentInOrderHolds == TypeInv /\ OrderInv => SentInOrder
<1> SUFFICES ASSUME TypeInv, OrderInv
             PROVE  SentInOrder
  OBVIOUS
<1>1. \A c \in Conns : \A f \in ToSet(sent[c]) : \E i \in 1..Len(sent[c]) : f = sent[c][i]
  BY LenProperties DEF TypeInv, LinkType, ToSet
<1>2. \A q \in ToSet(ring) : \E i \in 1..Len(ring) : q = ring[i]
  BY LenProperties DEF TypeInv, RingType, ToSet
<1>3. \A c \in Conns : \A i, j \in 1..Len(sent[c]) : i < j => sent[c][i].n < sent[c][j].n
  BY DEF OrderInv, SentAscends
<1>4. \A c, d \in Conns : c < d =>
        \A f \in ToSet(sent[c]), g \in ToSet(sent[d]) : f.n < g.n
  <2> SUFFICES ASSUME NEW c \in Conns, NEW d \in Conns, c < d,
                      NEW f \in ToSet(sent[c]), NEW g \in ToSet(sent[d])
               PROVE  f.n < g.n
    OBVIOUS
  <2>1. PICK i \in 1..Len(sent[c]) : f = sent[c][i]
    BY <1>1
  <2>2. PICK j \in 1..Len(sent[d]) : g = sent[d][j]
    BY <1>1
  <2>3. sent[c][i].n < sent[d][j].n
    BY DEF OrderInv, SentAscends
  <2> QED
    BY <2>1, <2>2, <2>3
<1>5. \A c \in Conns : \A f \in ToSet(sent[c]) :
        \A k \in ({chunk.n} \ {0}) \cup {q.n : q \in ToSet(ring)} : f.n < k
  <2> SUFFICES ASSUME NEW c \in Conns, NEW f \in ToSet(sent[c]),
                      NEW k \in ({chunk.n} \ {0}) \cup {q.n : q \in ToSet(ring)}
               PROVE  f.n < k
    OBVIOUS
  <2>1. PICK i \in 1..Len(sent[c]) : f = sent[c][i]
    BY <1>1
  <2>2. CASE k = chunk.n /\ k # 0
    BY <2>1, <2>2 DEF OrderInv, SentBehind
  <2>3. CASE \E j \in 1..Len(ring) : k = ring[j].n
    BY <2>1, <2>3 DEF OrderInv, SentBehind
  <2> QED
    BY <1>2, <2>2, <2>3
<1> QED
  BY <1>3, <1>4, <1>5 DEF SentInOrder

(* Frames are written in the order they were heard, none twice, across all  *)
(* connections, and before any frame the ring or the writer still has.      *)
THEOREM SessionSendsInOrder == Spec => []SentInOrder
BY OrderAlways, SentInOrderHolds, PTL
-----------------------------------------------------------------------------
(* Where the frames are, by their numbers.                                  *)
InRing(k) == \E i \in 1..Len(ring) : ring[i].n = k

InSent(k) == \E c \in Conns : \E i \in 1..Len(sent[c]) : sent[c][i].n = k

IsLost(k) == k \in failed \/ k \in evicted

PlaceInv ==
  /\ failed \cup evicted \subseteq 1..Pushed
  /\ \A k \in 1..Pushed : InRing(k) \/ chunk.n = k \/ InSent(k) \/ IsLost(k)
  /\ \A k \in 1..Pushed : IsLost(k) => ~InRing(k) /\ chunk.n # k /\ ~InSent(k)
  /\ failed \cap evicted = {}

LEMMA PlaceInit == Init => PlaceInv
<1> SUFFICES ASSUME Init PROVE PlaceInv
  OBVIOUS
<1>1. Pushed = 0 /\ failed = {} /\ evicted = {}
  BY DEF Init, NoFrame, Pushed
<1> QED
  BY <1>1 DEF PlaceInv

LEMMA PushKeepsPlaces ==
  ASSUME TypeInv, OrderInv, PlaceInv, PushFrame
  PROVE  PlaceInv'
<1>0. /\ frame.n \in Nat /\ chunk.n \in Nat /\ Len(ring) \in Nat
      /\ \A k \in 1..Len(ring) : ring[k].n \in Nat
      /\ \A c \in Conns : \A i \in 1..Len(sent[c]) : sent[c][i].n \in Nat
  BY NumberType
<1>1. Pushed' = frame.n /\ Pushed = frame.n - 1 /\ UNCHANGED <<chunk, sent, failed>>
  BY <1>0 DEF PushFrame, PushWith, Pushed, runVars, writerVars, linkVars
<1>2. /\ Len(ring') = Len(ring) + 1 - Room /\ Room \in {0, 1}
      /\ \A i \in 1..Len(ring') : IF i + Room <= Len(ring) THEN ring'[i] = ring[i + Room]
                                  ELSE i + Room = Len(ring) + 1 /\ ring'[i].n = frame.n
  BY <1>0, PushedRing DEF Room
<1>3. 1 <= frame.n /\ 1..Pushed' = 1..Pushed \cup {frame.n}
  <2>1. 1 <= frame.n
    BY DEF PushFrame, PushWith, TypeInv, ControlInv
  <2> QED
    BY <1>0, <1>1, <2>1
(* What is in the ring now, and what was.                                   *)
<1>4. \A k : InRing(k)' => k = frame.n \/ InRing(k)
  <2>1. \A i \in 1..Len(ring') : \/ i + Room \in 1..Len(ring) /\ ring'[i] = ring[i + Room]
                                 \/ ring'[i].n = frame.n
    BY <1>0, <1>2
  <2> QED
    BY <2>1 DEF InRing
<1>5. \A k : k = frame.n => InRing(k)'
  <2>1. Len(ring') \in 1..Len(ring') /\ Len(ring') + Room = Len(ring) + 1
    <3>1. Room = 1 => Len(ring) >= 1
      BY PushedRing
    <3> QED
      BY <1>0, <1>2, <3>1
  <2> QED
    BY <1>0, <1>2, <2>1 DEF InRing
<1>6. CASE Room = 0
  <2>1. evicted' = evicted
    BY <1>6 DEF PushFrame, PushWith, Room
  <2>2. \A k : InRing(k) => InRing(k)'
    <3>1. \A i \in 1..Len(ring) : i \in 1..Len(ring') /\ ring'[i] = ring[i]
      BY <1>0, <1>2, <1>6
    <3> QED
      BY <3>1 DEF InRing
  <2>3. ~InRing(frame.n) /\ chunk.n # frame.n /\ ~InSent(frame.n) /\ ~IsLost(frame.n)
    BY <1>0, <1>1 DEF InRing, InSent, IsLost, OrderInv, RingInOrder, ChunkInOrder, SentBehind, PlaceInv
  <2>4. \A k : (InSent(k)' <=> InSent(k)) /\ (IsLost(k)' <=> IsLost(k))
    BY <1>1, <2>1 DEF InSent, IsLost
  <2> QED
    BY <1>1, <1>3, <1>4, <1>5, <2>1, <2>2, <2>3, <2>4 DEF PlaceInv
<1>7. CASE Room = 1
  <2>1. Len(ring) >= 1 /\ evicted' = evicted \cup {ring[1].n}
    BY <1>7, PushedRing DEF PushFrame, PushWith, Room
  <2>2. \A k : InRing(k) => InRing(k)' \/ k = ring[1].n
    <3>1. \A i \in 1..Len(ring) : i = 1 \/ (i - 1 \in 1..Len(ring') /\ ring'[i - 1] = ring[i])
      BY <1>0, <1>2, <1>7
    <3> QED
      BY <3>1 DEF InRing
  <2>3. 1 \in 1..Len(ring) /\ InRing(ring[1].n) /\ ring[1].n \in 1..Pushed
    BY <1>0, <1>1, <2>1 DEF InRing, OrderInv, RingInOrder
  (* The oldest frame was in the ring, once, and nowhere else.               *)
  <2>4. ring[1].n # chunk.n /\ ~InSent(ring[1].n) /\ ~IsLost(ring[1].n)
    BY <1>0, <2>3 DEF InSent, OrderInv, ChunkInOrder, SentBehind, PlaceInv
  <2>5. \A k : k = ring[1].n => ~InRing(k)'
    <3>1. \A i \in 1..Len(ring') : \/ i + 1 \in 1..Len(ring) /\ 1 < i + 1 /\ ring'[i] = ring[i + 1]
                                   \/ ring'[i].n = frame.n
      BY <1>0, <1>2, <1>7
    <3>2. ring[1].n < frame.n /\ \A i \in 1..Len(ring) : 1 < i => ring[1].n < ring[i].n
      BY <1>0, <1>1, <2>3 DEF OrderInv, RingInOrder
    <3> QED
      BY <1>0, <2>3, <3>1, <3>2 DEF InRing
  <2>6. chunk.n # frame.n /\ ~InSent(frame.n) /\ ~IsLost(frame.n) /\ frame.n # ring[1].n
    BY <1>0, <1>1, <2>3 DEF InSent, IsLost, OrderInv, ChunkInOrder, SentBehind, PlaceInv
  <2>7. \A k : (InSent(k)' <=> InSent(k)) /\ (IsLost(k)' <=> IsLost(k) \/ k = ring[1].n)
    BY <1>1, <2>1 DEF InSent, IsLost
  <2>8. (failed \cup evicted)' \subseteq 1..Pushed' /\ (failed \cap evicted)' = {}
    BY <1>1, <1>3, <2>1, <2>3, <2>4 DEF PlaceInv, IsLost
  <2>9. \A k \in 1..Pushed' : InRing(k)' \/ chunk.n = k \/ InSent(k)' \/ IsLost(k)'
    BY <1>3, <1>5, <2>2, <2>7 DEF PlaceInv
  <2>10. \A k \in 1..Pushed' : IsLost(k)' => ~InRing(k)' /\ chunk.n # k /\ ~InSent(k)'
    BY <1>3, <1>4, <2>4, <2>5, <2>6, <2>7 DEF PlaceInv
  <2> QED
    BY <1>1, <2>8, <2>9, <2>10 DEF PlaceInv
<1> QED
  BY <1>2, <1>6, <1>7

LEMMA PopKeepsPlaces ==
  ASSUME TypeInv, OrderInv, PlaceInv, Pop
  PROVE  PlaceInv'
<1>1. Pushed' = Pushed /\ UNCHANGED <<sent, failed, evicted>> /\ chunk.n = 0 /\ Pushed \in Int
  BY PoppedRing, NumberType DEF Pushed
<1>2. CASE UNCHANGED <<ring, chunk>>
  BY <1>1, <1>2 DEF PlaceInv, InRing, InSent, IsLost
<1>3. CASE ~UNCHANGED <<ring, chunk>>
  <2>1. /\ Len(ring) >= 1 /\ chunk'.n = ring[1].n
        /\ Len(ring') = Len(ring) - 1
        /\ \A i \in 1..Len(ring') : ring'[i] = ring[i + 1]
    BY <1>3, PoppedRing
  <2>2. /\ 1 \in 1..Len(ring)
        /\ \A i \in 1..Len(ring') : i + 1 \in 1..Len(ring) /\ 1 < i + 1
        /\ \A i \in 1..Len(ring) : i = 1 \/ (i - 1 \in 1..Len(ring') /\ ring'[i - 1] = ring[i])
    BY <2>1, NumberType
  <2>3. \A k : InRing(k) <=> InRing(k)' \/ k = chunk'.n
    BY <2>1, <2>2 DEF InRing
  <2>4. chunk'.n # 0 /\ \A k : k = chunk'.n => ~InRing(k)'
    <3>1. \A i \in 1..Len(ring) : 1 < i => ring[1].n < ring[i].n /\ ring[i].n \in Nat
      BY <2>2, NumberType DEF OrderInv, RingInOrder
    <3>2. ring[1].n \in Nat \ {0}
      BY <2>2, NumberType
    <3> QED
      BY <2>1, <2>2, <3>1, <3>2 DEF InRing
  <2>5. \A k : (InSent(k)' <=> InSent(k)) /\ (IsLost(k)' <=> IsLost(k))
    BY <1>1 DEF InSent, IsLost
  <2>6. \A k \in 1..Pushed : k # 0
    BY <1>1
  <2> QED
    BY <1>1, <2>3, <2>4, <2>5, <2>6 DEF PlaceInv
<1> QED
  BY <1>2, <1>3

LEMMA SendKeepsPlaces ==
  ASSUME TypeInv, OrderInv, PlaceInv, SendAudio
  PROVE  PlaceInv'
<1>1. /\ Pushed' = Pushed /\ UNCHANGED <<ring, evicted>> /\ Pushed \in Int
      /\ conn \in Conns /\ chunk.n # 0 /\ chunk'.n = 0 /\ chunk.n \in Nat
  BY SentAudio, NumberType DEF Pushed
<1>2. chunk.n \in 1..Pushed /\ ~InRing(chunk.n) /\ ~InSent(chunk.n) /\ ~IsLost(chunk.n)
  <2>1. chunk.n \in 1..Pushed
    BY <1>1 DEF OrderInv, ChunkInOrder
  <2>2. ~InRing(chunk.n) /\ ~InSent(chunk.n)
    BY <1>1, NumberType DEF InRing, InSent, OrderInv, ChunkInOrder, SentBehind
  <2> QED
    BY <2>1, <2>2 DEF PlaceInv
<1>3. \A k : InRing(k)' <=> InRing(k)
  BY <1>1 DEF InRing
<1>4. \A k \in 1..Pushed : k # 0
  BY <1>1
<1>5. CASE UNCHANGED sent /\ failed' = failed \cup {chunk.n}
  <2>1. \A k : (InSent(k)' <=> InSent(k)) /\ (IsLost(k)' <=> IsLost(k) \/ k = chunk.n)
    BY <1>1, <1>5 DEF InSent, IsLost
  <2> QED
    BY <1>1, <1>2, <1>3, <1>4, <1>5, <2>1 DEF PlaceInv, IsLost
<1>6. CASE ~UNCHANGED sent
  <2>1. /\ Len(sent'[conn]) = Len(sent[conn]) + 1
        /\ sent'[conn][Len(sent[conn]) + 1] = chunk
        /\ \A i \in 1..Len(sent[conn]) : sent'[conn][i] = sent[conn][i]
        /\ \A c \in Conns \ {conn} : sent'[c] = sent[c]
        /\ UNCHANGED failed
    BY <1>6, SentAudio
  <2>2. Len(sent[conn]) \in Nat
    BY <1>1, NumberType
  <2>3. \A k : InSent(k)' <=> InSent(k) \/ k = chunk.n
    <3>1. \A i \in 1..Len(sent'[conn]) : i \in 1..Len(sent[conn]) \/ i = Len(sent[conn]) + 1
      BY <2>1, <2>2
    <3>2. /\ \A i \in 1..Len(sent[conn]) : i \in 1..Len(sent'[conn])
          /\ Len(sent[conn]) + 1 \in 1..Len(sent'[conn])
      BY <2>1, <2>2
    <3>3. ASSUME NEW k, InSent(k)'
          PROVE  InSent(k) \/ k = chunk.n
      <4>1. PICK c \in Conns : \E i \in 1..Len(sent'[c]) : sent'[c][i].n = k
        BY <3>3 DEF InSent
      <4>2. CASE c = conn
        BY <1>1, <2>1, <3>1, <4>1, <4>2 DEF InSent
      <4>3. CASE c # conn
        BY <2>1, <4>1, <4>3 DEF InSent
      <4> QED
        BY <4>2, <4>3
    <3>4. ASSUME NEW k, InSent(k)
          PROVE  InSent(k)'
      <4>1. PICK c \in Conns : \E i \in 1..Len(sent[c]) : sent[c][i].n = k
        BY <3>4 DEF InSent
      <4>2. CASE c = conn
        BY <1>1, <2>1, <3>2, <4>1, <4>2 DEF InSent
      <4>3. CASE c # conn
        BY <2>1, <4>1, <4>3 DEF InSent
      <4> QED
        BY <4>2, <4>3
    <3>5. \A k : k = chunk.n => InSent(k)'
      BY <1>1, <2>1, <3>2 DEF InSent
    <3> QED
      BY <3>3, <3>4, <3>5
  <2>4. \A k : IsLost(k)' <=> IsLost(k)
    BY <1>1, <2>1 DEF IsLost
  <2> QED
    BY <1>1, <1>2, <1>3, <1>4, <2>1, <2>3, <2>4 DEF PlaceInv
<1> QED
  BY <1>5, <1>6, SentAudio

LEMMA PlaceStep == TypeInv /\ OrderInv /\ PlaceInv /\ [Next]_vars => PlaceInv'
<1> SUFFICES ASSUME TypeInv, OrderInv, PlaceInv, [Next]_vars
             PROVE  PlaceInv'
  OBVIOUS
<1>1. CASE UNCHANGED audioVars /\ (drain' = drain \/ (drain = "recv" /\ drain' = "ended"))
  <2>1. Pushed' = Pushed /\ UNCHANGED <<ring, chunk, sent, failed, evicted>>
    BY <1>1 DEF audioVars, Pushed
  <2> QED
    BY <2>1 DEF PlaceInv, InRing, InSent, IsLost
<1>2. ASSUME NEW loud \in BOOLEAN, ReceiveFrame(loud)
      PROVE  PlaceInv'
  <2>1. Pushed' = Pushed /\ UNCHANGED <<ring, chunk, sent, failed, evicted>>
    BY <1>2, NumberType DEF ReceiveFrame, Pushed, runVars, writerVars, linkVars
  <2> QED
    BY <2>1 DEF PlaceInv, InRing, InSent, IsLost
<1> QED
  BY <1>1, <1>2, AudioSteps, PushKeepsPlaces, PopKeepsPlaces, SendKeepsPlaces

LEMMA PlaceAlways == Spec => [](TypeInv /\ OrderInv /\ PlaceInv)
BY TypeInit, TypeStep, OrderInit, OrderStep, PlaceInit, PlaceStep, PTL DEF Spec

LEMMA NoFrameVanishesHolds == TypeInv /\ OrderInv /\ PlaceInv => NoFrameVanishes
<1> SUFFICES ASSUME TypeInv, OrderInv, PlaceInv
             PROVE  NoFrameVanishes
  OBVIOUS
<1> DEFINE written == UNION {{f.n : f \in ToSet(sent[c])} : c \in Conns}
           queued  == {f.n : f \in ToSet(ring)} \cup ({chunk.n} \ {0})
           pushed  == 1 .. (IF drain = "push" THEN frame.n - 1 ELSE frame.n)
<1>1. \A k : k \in written <=> InSent(k)
  <2>1. \A c \in Conns : ToSet(sent[c]) = {sent[c][i] : i \in 1..Len(sent[c])}
    BY LenProperties DEF TypeInv, LinkType, ToSet
  <2>2. \A k : k \in written <=> \E c \in Conns : \E f \in ToSet(sent[c]) : f.n = k
    OBVIOUS
  <2> HIDE DEF written
  <2>3. \A c \in Conns : \A k : (\E f \in ToSet(sent[c]) : f.n = k)
                               <=> (\E i \in 1..Len(sent[c]) : sent[c][i].n = k)
    <3> SUFFICES ASSUME NEW c \in Conns
                 PROVE  \A k : (\E f \in ToSet(sent[c]) : f.n = k)
                               <=> (\E i \in 1..Len(sent[c]) : sent[c][i].n = k)
      OBVIOUS
    <3>1. \A f : f \in ToSet(sent[c]) <=> \E i \in 1..Len(sent[c]) : f = sent[c][i]
      BY <2>1
    <3> QED
      BY <3>1
  <2> QED
    BY <2>2, <2>3, Zenon DEF InSent
<1>2. \A k : k \in queued <=> InRing(k) \/ (k = chunk.n /\ k # 0)
  <2>1. ToSet(ring) = {ring[i] : i \in 1..Len(ring)}
    BY LenProperties DEF TypeInv, RingType, ToSet
  <2> QED
    BY <2>1 DEF InRing
<1>3. pushed = 1..Pushed
  BY DEF Pushed
<1>4. \A k : InRing(k) \/ InSent(k) \/ (k = chunk.n /\ k # 0) \/ IsLost(k) => k \in 1..Pushed
  <2>1. \A k : InRing(k) => k \in 1..Pushed
    BY NumberType DEF InRing, OrderInv, RingInOrder
  <2>2. \A k : InSent(k) => k \in 1..Pushed
    BY NumberType DEF InSent, OrderInv, SentBehind
  <2>3. \A k : k = chunk.n /\ k # 0 => k \in 1..Pushed
    BY NumberType DEF OrderInv, ChunkInOrder
  <2>4. \A k : IsLost(k) => k \in 1..Pushed
    BY DEF IsLost, PlaceInv
  <2> QED
    BY <2>1, <2>2, <2>3, <2>4
<1>5. \A k : ~(InSent(k) /\ InRing(k)) /\ ~(InSent(k) /\ k = chunk.n /\ k # 0)
  <2>1. \A k : ~(InSent(k) /\ InRing(k))
    BY NumberType DEF InSent, InRing, OrderInv, SentBehind
  <2>2. \A k : ~(InSent(k) /\ k = chunk.n /\ k # 0)
    BY NumberType DEF InSent, OrderInv, SentBehind
  <2> QED
    BY <2>1, <2>2
<1>6. \A k \in 1..Pushed : k # 0
  BY NumberType
<1> HIDE DEF written, queued, pushed
<1>7. pushed = written \cup queued \cup failed \cup evicted
  BY <1>1, <1>2, <1>3, <1>4, <1>6 DEF PlaceInv, IsLost
<1>8. /\ queued \cap (written \cup failed \cup evicted) = {}
      /\ written \cap (failed \cup evicted) = {} /\ failed \cap evicted = {}
  BY <1>1, <1>2, <1>4, <1>5 DEF PlaceInv, IsLost
<1> QED
  BY <1>7, <1>8 DEF NoFrameVanishes, written, queued, pushed

(* A frame that was pushed is queued, in the writer's hand, written, lost   *)
(* with a broken link, or evicted: exactly one of these.                    *)
THEOREM SessionLosesTrackOfNothing == Spec => []NoFrameVanishes
BY PlaceAlways, NoFrameVanishesHolds, PTL
-----------------------------------------------------------------------------
LEMMA GateInit == Init => GateInv
<1> SUFFICES ASSUME Init PROVE GateInv
  OBVIOUS
<1>1. active = TRUE /\ drain = "recv" /\ Len(ring) = 0
  BY DEF Init
<1> QED
  BY <1>1 DEF GateInv

LEMMA GateStep == TypeInv /\ GateInv /\ [Next]_vars => GateInv'
<1> SUFFICES ASSUME TypeInv, GateInv, [Next]_vars
             PROVE  GateInv'
  OBVIOUS
<1>1. ASSUME NEW loud \in BOOLEAN, ReceiveFrame(loud)
      PROVE  GateInv'
  <2>1. UNCHANGED ring /\ frame'.loud = loud
    BY <1>1 DEF ReceiveFrame
  <2>2. ObserveLevel(frame')
    BY <1>1 DEF ReceiveFrame
  <2>3. frame'.loud => active'
    BY <2>2, Zenon DEF ObserveLevel, GateInv
  <2>4. ~PauseEnabled => active'
    BY <2>2, Zenon DEF ObserveLevel, GateInv
  <2> QED
    BY <2>1, <2>3, <2>4 DEF GateInv
<1>2. CASE PushFrame
  <2>1. UNCHANGED <<active, frame>> /\ (frame.loud => active) /\ drain' = "recv"
    BY <1>2 DEF PushFrame, PushWith, GateInv
  <2>2. \A i \in 1..Len(ring') : ring'[i].loud => ring'[i].active
    <3> SUFFICES ASSUME NEW i \in 1..Len(ring')
                 PROVE  ring'[i].loud => ring'[i].active
      OBVIOUS
    <3>1. Len(ring) \in Nat /\ Len(ring') = Len(ring) + 1 - Room /\ Room \in {0, 1}
      BY <1>2, PushedRing, NumberType DEF Room
    <3>2. CASE i + Room <= Len(ring)
      <4>1. ring'[i] = ring[i + Room] /\ i + Room \in 1..Len(ring)
        BY <1>2, <3>1, <3>2, PushedRing
      <4> QED
        BY <4>1 DEF GateInv
    <3>3. CASE ~(i + Room <= Len(ring))
      <4>1. ring'[i] = [n |-> frame.n, loud |-> frame.loud, active |-> active]
        BY <1>2, <3>3, PushedRing
      <4> QED
        BY <2>1, <4>1
    <3> QED
      BY <3>2, <3>3
  <2> QED
    BY <2>1, <2>2 DEF GateInv
<1>3. CASE Pop
  <2>1. UNCHANGED <<active, frame, drain>>
    BY <1>3, PoppedRing
  <2>2. \A i \in 1..Len(ring') : ring'[i].loud => ring'[i].active
    <3>1. CASE UNCHANGED ring
      BY <3>1 DEF GateInv
    <3>2. CASE ~UNCHANGED ring
      <4>1. Len(ring) \in Nat /\ Len(ring') = Len(ring) - 1
            /\ \A i \in 1..Len(ring') : ring'[i] = ring[i + 1]
        BY <1>3, <3>2, PoppedRing, NumberType
      <4>2. \A i \in 1..Len(ring') : i + 1 \in 1..Len(ring)
        BY <4>1
      <4> QED
        BY <4>1, <4>2 DEF GateInv
    <3> QED
      BY <3>1, <3>2
  <2> QED
    BY <2>1, <2>2 DEF GateInv
<1>4. CASE SendAudio
  BY <1>4, SentAudio DEF GateInv
<1>5. CASE UNCHANGED audioVars /\ (drain' = drain \/ (drain = "recv" /\ drain' = "ended"))
  BY <1>5 DEF audioVars, GateInv
<1> QED
  BY <1>1, <1>2, <1>3, <1>4, <1>5, AudioSteps

LEMMA GateAlways == Spec => [](TypeInv /\ OrderInv /\ GateInv)
BY TypeInit, TypeStep, OrderInit, OrderStep, GateInit, GateStep, PTL DEF Spec

LEMMA LostSpeechStep ==
  ASSUME TypeInv, OrderInv, GateInv, [Next]_vars
  PROVE  \A f \in ToSet(ring) :
           f.n \in evicted' \ evicted =>
             /\ f.loud => f.n \in counted'
             /\ f.n \in counted' <=> f.active
<1>1. CASE UNCHANGED evicted
  BY <1>1
<1>2. CASE PushFrame
  <2> SUFFICES ASSUME NEW f \in ToSet(ring), f.n \in evicted' \ evicted
               PROVE  (f.loud => f.n \in counted') /\ (f.n \in counted' <=> f.active)
    OBVIOUS
  <2>1. PICK i \in 1..Len(ring) : f = ring[i]
    BY LenProperties DEF TypeInv, RingType, ToSet
  <2>2. Len(ring) + 1 > RingCap /\ f.n = Head(ring).n
    BY <1>2 DEF PushFrame, PushWith
  <2>3. Head(ring) = ring[1]
    BY <1>2, <2>2, PushedRing DEF Room
  (* The numbers in the ring are distinct: the one evicted is the oldest.    *)
  <2>4. i = 1
    <3>1. i \in Nat /\ 1 \in 1..Len(ring) /\ ring[1].n \in Nat
      BY NumberType
    <3> QED
      BY <2>1, <2>2, <2>3, <3>1 DEF OrderInv, RingInOrder
  <2>5. (WasActive <=> f.active) /\ (f.loud => f.active)
    BY <2>1, <2>3, <2>4 DEF WasActive, GateInv
  (* Nothing is counted before it is evicted.                                *)
  <2>6. f.n \notin counted
    BY DEF TypeInv, RingType
  <2>7. counted' = IF WasActive THEN counted \cup {f.n} ELSE counted
    BY <1>2, <2>2 DEF PushFrame, PushWith
  <2> QED
    BY <2>5, <2>6, <2>7
<1>3. (\E loud \in BOOLEAN : ReceiveFrame(loud)) \/ Pop \/ SendAudio => UNCHANGED evicted
  BY PoppedRing, SentAudio DEF ReceiveFrame
<1> QED
  BY <1>1, <1>2, <1>3, AudioSteps DEF audioVars

(* What the ring discards is reported as degradation exactly if the gate    *)
(* was active when it came, and that takes in all speech (ring.push).       *)
THEOREM SessionCountsLostSpeech == Spec => LostSpeechIsCounted
<1>1. TypeInv /\ OrderInv /\ GateInv /\ [Next]_vars =>
        [\A f \in ToSet(ring) :
           f.n \in evicted' \ evicted =>
             /\ f.loud => f.n \in counted'
             /\ f.n \in counted' <=> f.active]_vars
  BY LostSpeechStep
<1> QED
  BY <1>1, GateAlways, PTL DEF Spec, LostSpeechIsCounted
-----------------------------------------------------------------------------
LEMMA HookInit == Init => HookInv
BY DEF Init, HookInv, QuietAfterHook

LEMMA HookStep == TypeInv /\ HookInv /\ [Next]_vars => HookInv'
<1> SUFFICES ASSUME TypeInv, HookInv, [Next]_vars
             PROVE  HookInv'
  OBVIOUS
<1>0. /\ reader \in [Conns -> {"read", "publish", "returned", "panicked"}]
      /\ conn \in Nat /\ conn <= MaxConns /\ MaxConns \in Nat
      /\ hooked \subseteq 1..conn /\ timedOut \subseteq 1..conn
      /\ run \in {"joinWriter", "hook"} => conn \in Conns
  BY SessionSizes DEF SessionSizes, TypeInv, LinkType, RunType, ControlInv, Unconnected, Conns
<1> USE DEF HookInv, QuietAfterHook
<1>1. ASSUME NEW loud \in BOOLEAN, ReceiveFrame(loud)
      PROVE  HookInv'
  BY <1>1 DEF ReceiveFrame, runVars, readerVars
<1>2. CASE PushFrame \/ DrainEnds \/ Cancel
  BY <1>2 DEF PushFrame, PushWith, DrainEnds, Cancel, runVars, readerVars
<1>3. CASE LoopTop \/ Sleep
  BY <1>3 DEF LoopTop, Sleep, Goto, readerVars
<1>4. CASE DialSucceeds
  <2>1. /\ conn' = conn + 1 /\ run' = "linked" /\ UNCHANGED <<hooked, timedOut>>
        /\ \A c \in 1..conn : reader'[c] = reader[c]
    BY <1>0, <1>4 DEF DialSucceeds, Dialed, Conns
  <2> QED
    BY <1>0, <2>1
<1>5. ASSUME NEW permanent \in BOOLEAN, DialFails(permanent)
      PROVE  HookInv'
  BY <1>5 DEF DialFails, Goto, readerVars
<1>6. CASE WriterReturned \/ ReaderReturned
  BY <1>6 DEF WriterReturned, ReaderReturned, Goto, readerVars
<1>7. CASE Joined
  BY <1>7 DEF Joined, Goto, readerVars
<1>8. ASSUME NEW timeout \in BOOLEAN, Drained(timeout)
      PROVE  HookInv'
  BY <1>8 DEF Drained, DrainedWhen, Goto, readerVars
<1>9. CASE Hook
  BY <1>9 DEF Hook, Goto, readerVars
<1>10. CASE WaitResume
  BY <1>10 DEF WaitResume, Arm, TestActive, Parked, Goto, readerVars
<1>11. CASE TestGate \/ Pop \/ SendAudio \/ WriterWakes
  BY <1>11 DEF TestGate, Pop, PopLeaving, SendAudio, WriterWakes, WakeTo, WriterGoes, runVars, readerVars
(* A reader that still reads or publishes is not one that returned.          *)
<1>12. ASSUME NEW c \in Conns, Read(c) \/ Deliver(c)
       PROVE  HookInv'
  <2>1. /\ reader[c] # "returned" /\ UNCHANGED runVars
        /\ \A d \in Conns : d # c => reader'[d] = reader[d]
    BY <1>0, <1>12 DEF Read, Deliver
  <2>2. \A d \in hooked : d \in Conns
    BY <1>0 DEF Conns
  <2> QED
    BY <1>0, <2>1, <2>2 DEF runVars
<1>13. ASSUME NEW c \in Conns, Break(c)
       PROVE  HookInv'
  BY <1>13 DEF Break, runVars, readerVars
<1>14. CASE UNCHANGED vars
  BY <1>14 DEF vars, runVars, readerVars
<1> QED
  BY <1>1, <1>2, <1>3, <1>4, <1>5, <1>6, <1>7, <1>8, <1>9, <1>10, <1>11, <1>12, <1>13, <1>14 DEF Next

(* After a drain that did not time out, or a failed connection, nothing of  *)
(* it is published once OnConnectionEnd was called: the join comes first.   *)
THEOREM SessionHookIsLast == Spec => []QuietAfterHook
<1>1. HookInv => QuietAfterHook
  BY DEF HookInv
<1> QED
  BY <1>1, TypeInit, TypeStep, HookInit, HookStep, PTL DEF Spec
-----------------------------------------------------------------------------
LEMMA EndInit == Init => EndInv
BY DEF Init, EndInv, CleanEndIsComplete

(* Once the source has ended and the ring is empty, they stay so.           *)
LEMMA ExhaustedStays ==
  ASSUME TypeInv, [Next]_vars, audioExhausted \/ cancelled
  PROVE  (audioExhausted \/ cancelled)'
<1>1. CASE cancelled
  <2>1. OutsideType'
    BY DrainTypeStep
  <2>2. Cancel \/ UNCHANGED cancelled
    BY DEF Next, ReceiveFrame, PushFrame, PushWith, DrainEnds, LoopTop, DialSucceeds, Dialed,
           DialFails, Sleep, WriterReturned, ReaderReturned, Joined, Drained, DrainedWhen, Hook,
           WaitResume, Arm, TestActive, Parked, Goto, TestGate, Pop, PopLeaving, SendAudio,
           WriterWakes, WakeTo, WriterGoes, Read, Deliver, Break, vars, outside
  <2> QED
    BY <1>1, <2>2 DEF Cancel
<1>2. CASE audioExhausted
  <2>1. drain = "ended" /\ ring = <<>>
    BY <1>2 DEF audioExhausted, framesClosed
  <2>2. ~PushFrame /\ \A loud \in BOOLEAN : ~ReceiveFrame(loud)
    BY <2>1 DEF PushFrame, PushWith, ReceiveFrame
  <2>3. CASE Pop
    BY <2>1, <2>3 DEF Pop, PopLeaving, WriterGoes, drainVars, audioExhausted, framesClosed
  <2>4. CASE SendAudio
    BY <2>1, <2>4, SentAudio DEF audioExhausted, framesClosed
  <2> QED
    BY <2>1, <2>2, <2>3, <2>4, AudioSteps DEF audioVars, audioExhausted, framesClosed
<1> QED
  BY <1>1, <1>2

LEMMA EndStep == TypeInv /\ EndInv /\ [Next]_vars => EndInv'
<1> SUFFICES ASSUME TypeInv, EndInv, [Next]_vars
             PROVE  EndInv'
  OBVIOUS
<1> DEFINE Over == audioExhausted \/ cancelled
<1>0. Over => Over'
  BY ExhaustedStays
<1>1. EndInv = (/\ writer = "ended" /\ run = "linked" => Over
                /\ run = "draining" /\ outcome = "done" => Over
                /\ run \in {"arm", "test", "parked"} => outcome = "pause"
                /\ run = "done" /\ outcome = "done" => Over)
  BY DEF EndInv, CleanEndIsComplete, audioExhausted
<1> SUFFICES /\ writer' = "ended" /\ run' = "linked" => Over'
             /\ run' = "draining" /\ outcome' = "done" => Over'
             /\ run' \in {"arm", "test", "parked"} => outcome' = "pause"
             /\ run' = "done" /\ outcome' = "done" => Over'
  BY DEF EndInv, CleanEndIsComplete, audioExhausted
<1>2. CASE UNCHANGED <<writer, run, outcome>>
  BY <1>0, <1>1, <1>2
<1> HIDE DEF Over
<1>3. CASE LoopTop
  BY <1>0, <1>1, <1>3 DEF LoopTop, Goto, Over
<1>4. CASE DialSucceeds
  BY <1>4 DEF DialSucceeds, Dialed
<1>5. ASSUME NEW permanent \in BOOLEAN, DialFails(permanent)
      PROVE  /\ run' = "done" => Over'
             /\ run' \notin {"linked", "draining", "arm", "test", "parked"}
  BY <1>0, <1>5 DEF DialFails, Goto, Over
<1>6. CASE Sleep
  BY <1>0, <1>6 DEF Sleep, Goto, Over
<1>7. CASE WriterReturned \/ ReaderReturned
  BY <1>0, <1>1, <1>7 DEF WriterReturned, ReaderReturned, Goto
<1>8. CASE Joined
  BY <1>8 DEF Joined, Goto
<1>9. ASSUME NEW timeout \in BOOLEAN, Drained(timeout)
      PROVE  /\ run' = "done" /\ outcome' = "done" => Over'
             /\ run' \notin {"linked", "draining", "arm", "test", "parked"}
  BY <1>0, <1>1, <1>9 DEF Drained, DrainedWhen, Goto
<1>10. CASE Hook
  BY <1>0, <1>1, <1>10 DEF Hook, Goto, Over
<1>11. CASE WaitResume
  BY <1>0, <1>1, <1>11 DEF WaitResume, Arm, TestActive, Parked, Goto, Over
<1>12. CASE TestGate \/ Pop \/ SendAudio
  BY <1>0, <1>1, <1>12 DEF TestGate, Pop, PopLeaving, SendAudio, WriterGoes, runVars
<1>13. CASE WriterWakes
  <2>1. writer' = "ended" => Over
    BY <1>13 DEF WriterWakes, WakeTo, WriterGoes, Over, audioExhausted
  <2> QED
    BY <1>0, <1>1, <1>13, <2>1 DEF WriterWakes, WakeTo, WriterGoes, runVars
<1>14. ASSUME NEW loud \in BOOLEAN, ReceiveFrame(loud)
       PROVE  UNCHANGED <<writer, run, outcome>>
  BY <1>14 DEF ReceiveFrame, runVars, writerVars
<1>15. CASE PushFrame \/ DrainEnds \/ Cancel
  BY <1>2, <1>15 DEF PushFrame, PushWith, DrainEnds, Cancel, runVars, writerVars
<1>16. ASSUME NEW c \in Conns, Read(c) \/ Deliver(c) \/ Break(c)
       PROVE  UNCHANGED <<writer, run, outcome>>
  BY <1>16 DEF Read, Deliver, Break, runVars, writerVars
<1>17. CASE UNCHANGED vars
  BY <1>2, <1>17 DEF vars, runVars, writerVars
<1> QED
  BY <1>2, <1>3, <1>4, <1>5, <1>6, <1>7, <1>8, <1>9, <1>10, <1>11, <1>12, <1>13, <1>14, <1>15,
     <1>16, <1>17 DEF Next

(* A run that ends without being cancelled and without a pause has sent all *)
(* that the source delivered and that was not lost on the way.              *)
THEOREM SessionEndsComplete == Spec => []CleanEndIsComplete
<1>1. EndInv => CleanEndIsComplete
  BY DEF EndInv
<1> QED
  BY <1>1, TypeInit, TypeStep, EndInit, EndStep, PTL DEF Spec
-----------------------------------------------------------------------------
LEMMA AnswerInit == Init => AnswerInv
<1> SUFFICES ASSUME Init, NEW c \in Conns
             PROVE  /\ answered[c] = 0 /\ sent[c] = <<>> /\ link[c] = "none"
  BY DEF AnswerInv, Init
<1> QED
  BY DEF Init

(* AnswerInv of one connection.                                             *)
AnswersOf(c) ==
  /\ answered[c] <= Len(sent[c])
  /\ \A i \in 1..answered[c] :
       sent[c][i].loud => IsPublished(sent[c][i]) \/ InHand(c, sent[c][i])
  /\ link[c] \in {"ending", "ended"} /\ c = conn => writer \in WriterDone
  /\ link[c] = "ended" =>
       \A i \in 1..Len(sent[c]) : sent[c][i].loud => IsPublished(sent[c][i])

LEMMA SendKeepsAnswers ==
  ASSUME TypeInv, AnswerInv, SendAudio, NEW c \in Conns
  PROVE  AnswersOf(c)'
<1>1. UNCHANGED <<answered, link, conn, readerVars>> /\ writer = "send"
  BY DEF SendAudio, WriterGoes, runVars, readerVars
<1>2. answered[c] \in Nat /\ answered[c] <= Len(sent[c]) /\ Len(sent[c]) \in Nat
  BY NumberType DEF AnswerInv, TypeInv, LinkType
<1>3. c = conn => link[c] \notin {"ending", "ended"}
  BY <1>1 DEF AnswerInv, WriterDone
<1>4. Len(sent'[c]) >= Len(sent[c]) /\ \A i \in 1..Len(sent[c]) : sent'[c][i] = sent[c][i]
  <2>1. CASE UNCHANGED sent
    BY <1>2, <2>1
  <2>2. CASE ~UNCHANGED sent /\ c = conn
    BY <1>2, <2>2, SentAudio
  <2>3. CASE ~UNCHANGED sent /\ c # conn
    BY <1>2, <2>3, SentAudio
  <2> QED
    BY <2>1, <2>2, <2>3
<1>5. answered[c] <= Len(sent'[c]) /\ \A i \in 1..answered[c] : i \in 1..Len(sent[c])
  BY <1>2, <1>4, NumberType, TypeStep DEF Next
<1>6. c # conn => sent'[c] = sent[c]
  BY SentAudio
<1> QED
  BY <1>1, <1>3, <1>4, <1>5, <1>6 DEF AnswerInv, AnswersOf, IsPublished, InHand, readerVars

LEMMA DialKeepsAnswers ==
  ASSUME TypeInv, OrderInv, AnswerInv, DialSucceeds, NEW c \in Conns
  PROVE  AnswersOf(c)'
<1>1. /\ UNCHANGED <<answered, sent, message, published>>
      /\ conn' = conn + 1 /\ conn' \in Conns /\ conn \in Nat
      /\ link' = [link EXCEPT ![conn'] = "up"] /\ reader' = [reader EXCEPT ![conn'] = "read"]
  BY NumberType, SessionSizes DEF SessionSizes, DialSucceeds, Dialed, TypeInv, RunType, Conns
<1>2. CASE c = conn'
  <2>1. sent[c] = <<>> /\ answered[c] \in Nat /\ answered[c] <= 0 /\ link'[c] = "up"
    BY <1>1, <1>2 DEF OrderInv, SentAscends, AnswerInv, TypeInv, LinkType
  <2> QED
    BY <1>1, <2>1 DEF AnswersOf
<1>3. CASE c # conn'
  <2>1. link'[c] = link[c] /\ reader'[c] = reader[c]
    BY <1>1, <1>3 DEF TypeInv, LinkType
  <2> QED
    BY <1>1, <1>3, <2>1 DEF AnswerInv, AnswersOf, IsPublished, InHand
<1> QED
  BY <1>2, <1>3

LEMMA ReadKeepsAnswers ==
  ASSUME TypeInv, AnswerInv, NEW d \in Conns, Read(d), NEW c \in Conns
  PROVE  AnswersOf(c)'
<1>1. UNCHANGED <<sent, conn, writer, published>> /\ reader[d] = "read"
  BY DEF Read, runVars, writerVars
<1>2. /\ answered \in [Conns -> Nat] /\ Len(sent[d]) \in Nat /\ message \in [Conns -> Nat]
      /\ reader \in [Conns -> {"read", "publish", "returned", "panicked"}]
      /\ link \in [Conns -> {"none", "up", "ending", "ended", "broken"}]
  BY NumberType DEF TypeInv, LinkType
<1>3. CASE c # d
  <2>1. /\ link'[c] = link[c] /\ reader'[c] = reader[c] /\ message'[c] = message[c]
        /\ answered'[c] = answered[c]
    BY <1>2, <1>3 DEF Read
  <2> QED
    BY <1>1, <2>1 DEF AnswerInv, AnswersOf, IsPublished, InHand
<1>4. \A i \in 1..answered[d] : sent[d][i].loud => IsPublished(sent[d][i])
  BY <1>1 DEF AnswerInv, InHand
<1>5. ASSUME c = d,
             NEW i \in Unanswered(d), \A j \in Unanswered(d) : i <= j,
             message' = [message EXCEPT ![d] = sent[d][i].n],
             answered' = [answered EXCEPT ![d] = i],
             reader' = [reader EXCEPT ![d] = "publish"], UNCHANGED link
      PROVE  AnswersOf(c)'
  <2>1. i \in Nat /\ i <= Len(sent[d]) /\ answered'[d] = i /\ answered[d] \in Nat
    BY <1>2, <1>5 DEF Unanswered
  <2>2. reader'[d] = "publish" /\ message'[d] = sent[d][i].n
    BY <1>2, <1>5
  (* What was passed over is nothing the recognizer answers.                 *)
  <2>3. ASSUME NEW j \in 1..i, sent[d][j].loud
        PROVE  IsPublished(sent[d][j]) \/ j = i
    <3>1. j \in Unanswered(d) => j = i
      BY <1>5, <2>1
    <3>2. j \in Unanswered(d) \/ j \in 1..answered[d]
      BY <1>2, <2>1, <2>3 DEF Unanswered
    <3> QED
      BY <1>4, <2>3, <3>1, <3>2
  <2>4. \A j \in 1..answered'[d] :
          sent[d][j].loud => IsPublished(sent[d][j]) \/ InHand(d, sent[d][j])'
    BY <1>1, <2>1, <2>2, <2>3 DEF InHand
  <2> QED
    BY <1>1, <1>5, <2>1, <2>4 DEF AnswerInv, AnswersOf, IsPublished, InHand
<1>6. ASSUME c = d, UNCHANGED <<message, answered>>,
             \/ UNCHANGED link
             \/ /\ link[d] = "ending" /\ Unanswered(d) = {}
                /\ link' = [link EXCEPT ![d] = "ended"]
      PROVE  AnswersOf(c)'
  <2>1. CASE UNCHANGED link
    BY <1>1, <1>4, <1>6, <2>1 DEF AnswerInv, AnswersOf, IsPublished
  <2>2. CASE link[d] = "ending" /\ Unanswered(d) = {}
    <3>1. \A i \in 1..Len(sent[d]) : sent[d][i].loud => i \in 1..answered[d]
      BY <1>2, <2>2 DEF Unanswered
    <3>2. \A i \in 1..Len(sent[d]) : sent[d][i].loud => IsPublished(sent[d][i])
      BY <1>4, <3>1
    <3> QED
      BY <1>1, <1>4, <1>6, <2>2, <3>2 DEF AnswerInv, AnswersOf, IsPublished
  <2> QED
    BY <1>6, <2>1, <2>2
<1> QED
  BY <1>3, <1>5, <1>6 DEF Read

LEMMA DeliverKeepsAnswers ==
  ASSUME TypeInv, AnswerInv, NEW d \in Conns, Deliver(d), NEW c \in Conns
  PROVE  AnswersOf(c)'
<1>1. /\ UNCHANGED <<sent, conn, writer, answered, link>> /\ reader[d] = "publish"
      /\ published' = Append(published, [conn |-> d, n |-> message[d]])
      /\ \A e \in Conns \ {d} : reader'[e] = reader[e] /\ message'[e] = message[e]
  BY DEF Deliver, runVars, writerVars, linkVars, TypeInv, LinkType
<1>2. /\ Len(published') = Len(published) + 1 /\ Len(published) \in Nat
      /\ \A k \in 1..Len(published) : published'[k] = published[k]
      /\ published'[Len(published) + 1].n = message[d]
  <2>1. published \in Seq([conn : Conns, n : Nat]) /\ [conn |-> d, n |-> message[d]] \in [conn : Conns, n : Nat]
    BY DEF TypeInv, LinkType
  <2> QED
    BY <1>1, <2>1, AppendProperties, LenProperties
<1>3. /\ \A k \in 1..Len(published) : k \in 1..Len(published')
      /\ Len(published) + 1 \in 1..Len(published')
  BY <1>2
<1>4. \A f : IsPublished(f) => \E k \in 1..Len(published') : published'[k].n = f.n
  BY <1>2, <1>3 DEF IsPublished
<1>5. \A f : InHand(c, f) =>
        \/ \E k \in 1..Len(published') : published'[k].n = f.n
        \/ reader'[c] = "publish" /\ message'[c] = f.n
  <2>1. CASE c = d
    BY <1>2, <1>3, <2>1 DEF InHand
  <2>2. CASE c # d
    BY <1>1, <2>2 DEF InHand
  <2> QED
    BY <2>1, <2>2
<1>6. AnswersOf(c)
  BY DEF AnswerInv, AnswersOf
<1>7. \A i \in 1..answered[c] : sent[c][i].loud => IsPublished(sent[c][i])' \/ InHand(c, sent[c][i])'
  BY <1>1, <1>4, <1>5, <1>6 DEF AnswersOf, IsPublished, InHand
<1>8. link[c] = "ended" => \A i \in 1..Len(sent[c]) : sent[c][i].loud => IsPublished(sent[c][i])'
  BY <1>1, <1>4, <1>6 DEF AnswersOf, IsPublished
<1> QED
  BY <1>1, <1>6, <1>7, <1>8 DEF AnswersOf

LEMMA AnswerStep == TypeInv /\ OrderInv /\ AnswerInv /\ [Next]_vars => AnswerInv'
<1> SUFFICES ASSUME TypeInv, OrderInv, AnswerInv, [Next]_vars, NEW c \in Conns
             PROVE  AnswersOf(c)'
  BY DEF AnswerInv, AnswersOf
(* The steps that leave the connections as they are, and a writer that has  *)
(* returned where it is.                                                    *)
<1>1. CASE /\ UNCHANGED <<answered, sent, link, conn, readerVars>>
           /\ writer' = writer \/ writer \notin WriterDone
  BY <1>1 DEF AnswerInv, AnswersOf, IsPublished, InHand, readerVars
<1>2. ASSUME NEW loud \in BOOLEAN, ReceiveFrame(loud)
      PROVE  AnswersOf(c)'
  BY <1>1, <1>2 DEF ReceiveFrame, runVars, writerVars, linkVars
<1>3. CASE PushFrame \/ DrainEnds \/ Cancel
  BY <1>1, <1>3 DEF PushFrame, PushWith, DrainEnds, Cancel, runVars, writerVars, linkVars
<1>4. CASE LoopTop \/ Sleep \/ ReaderReturned \/ Joined \/ Hook \/ WaitResume
  BY <1>1, <1>4 DEF LoopTop, Sleep, ReaderReturned, Joined, Hook, WaitResume, writerVars, linkVars
<1>5. ASSUME NEW permanent \in BOOLEAN, DialFails(permanent)
      PROVE  AnswersOf(c)'
  BY <1>1, <1>5 DEF DialFails, writerVars, linkVars
<1>6. ASSUME NEW timeout \in BOOLEAN, Drained(timeout)
      PROVE  AnswersOf(c)'
  BY <1>1, <1>6 DEF Drained, DrainedWhen, writerVars
<1>7. CASE WriterReturned
  <2>1. /\ UNCHANGED <<answered, sent, conn, readerVars, writer>> /\ writer \in WriterDone
        /\ link'[c] = link[c] \/ link'[c] = "ending"
    BY <1>7 DEF WriterReturned, writerVars, WriterDone, TypeInv, LinkType
  <2> QED
    BY <2>1 DEF AnswerInv, AnswersOf, IsPublished, InHand, readerVars
<1>8. CASE TestGate \/ Pop \/ WriterWakes
  BY <1>1, <1>8 DEF TestGate, Pop, PopLeaving, WriterWakes, WakeTo, WriterGoes, WriterDone, runVars
<1>9. ASSUME NEW d \in Conns, Break(d)
      PROVE  AnswersOf(c)'
  <2>1. /\ UNCHANGED <<answered, sent, conn, readerVars, writer>>
        /\ link'[c] = link[c] \/ link'[c] = "broken"
    BY <1>9 DEF Break, runVars, writerVars, TypeInv, LinkType
  <2> QED
    BY <2>1 DEF AnswerInv, AnswersOf, IsPublished, InHand, readerVars
<1>10. CASE UNCHANGED vars
  BY <1>1, <1>10 DEF vars, runVars, writerVars, linkVars
<1> QED
  BY <1>2, <1>3, <1>4, <1>5, <1>6, <1>7, <1>8, <1>9, <1>10, DialKeepsAnswers, SendKeepsAnswers,
     ReadKeepsAnswers, DeliverKeepsAnswers DEF Next

LEMMA PoliteInit == Init => PoliteInv
BY DEF Init, PoliteInv

LEMMA PoliteStep == TypeInv /\ PoliteInv /\ [Next]_vars => PoliteInv'
<1> SUFFICES ASSUME TypeInv, PoliteInv, [Next]_vars
             PROVE  PoliteInv'
  OBVIOUS
<1>0. /\ reader \in [Conns -> {"read", "publish", "returned", "panicked"}]
      /\ link \in [Conns -> {"none", "up", "ending", "ended", "broken"}]
      /\ conn \in Nat /\ closed \subseteq 1..conn /\ closed \subseteq Conns
      /\ run \in {"linked", "draining"} => conn \in Conns
  BY SessionSizes DEF SessionSizes, TypeInv, LinkType, RunType, ControlInv, Unconnected, Conns
<1> USE DEF PoliteInv
<1>1. CASE /\ UNCHANGED <<reader, link, closed, conn, timedOut>>
           /\ run' = run \/ run' \notin {"linked", "draining"}
  BY <1>1
<1>2. ASSUME NEW loud \in BOOLEAN, ReceiveFrame(loud)
      PROVE  PoliteInv'
  BY <1>1, <1>2 DEF ReceiveFrame, runVars, readerVars, linkVars
<1>3. CASE PushFrame \/ DrainEnds \/ Cancel
  BY <1>1, <1>3 DEF PushFrame, PushWith, DrainEnds, Cancel, runVars, readerVars, linkVars
<1>4. CASE LoopTop \/ Sleep \/ Joined \/ Hook
  BY <1>1, <1>4 DEF LoopTop, Sleep, Joined, Hook, Goto, readerVars, linkVars
<1>5. CASE WaitResume
  BY <1>1, <1>5 DEF WaitResume, Arm, TestActive, Parked, Goto, readerVars, linkVars
<1>6. ASSUME NEW permanent \in BOOLEAN, DialFails(permanent)
      PROVE  PoliteInv'
  BY <1>1, <1>6 DEF DialFails, Goto, readerVars, linkVars
<1>7. CASE DialSucceeds
  <2>1. /\ conn' = conn + 1 /\ conn' \in Conns /\ UNCHANGED <<closed, timedOut>>
        /\ reader' = [reader EXCEPT ![conn'] = "read"] /\ link' = [link EXCEPT ![conn'] = "up"]
    BY <1>0, <1>7, SessionSizes DEF SessionSizes, DialSucceeds, Dialed, Conns
  <2>2. conn' \notin closed
    BY <1>0, <2>1
  <2>3. /\ reader'[conn'] = "read" /\ link'[conn'] = "up"
        /\ \A c \in Conns \ {conn'} : reader'[c] = reader[c] /\ link'[c] = link[c]
    BY <1>0, <2>1
  <2> QED
    BY <1>0, <2>1, <2>2, <2>3
<1>8. CASE WriterReturned
  <2>1. CASE writer = "failed"
    <3>1. closed' = closed \cup {conn} /\ run' = "joinReader" /\ run = "linked"
          /\ UNCHANGED <<reader, link, conn, timedOut>>
      BY <1>8, <2>1 DEF WriterReturned, Goto, readerVars
    <3> QED
      BY <3>1
  <2>2. CASE writer # "failed"
    <3>1. /\ run' = "draining" /\ run = "linked"
          /\ UNCHANGED <<reader, closed, conn, timedOut>>
          /\ link' = IF link[conn] = "up" THEN [link EXCEPT ![conn] = "ending"] ELSE link
      BY <1>8, <2>2 DEF WriterReturned, Goto, readerVars
    (* The reader of an open connection that is up has not returned.         *)
    <3>2. link[conn] = "up" => reader[conn] # "returned"
      BY <1>0, <3>1
    <3> QED
      BY <1>0, <3>1, <3>2
  <2> QED
    BY <2>1, <2>2
<1>9. CASE ReaderReturned
  <2>1. closed' = closed \cup {conn} /\ run' = "joinWriter" /\ run = "linked"
        /\ UNCHANGED <<reader, link, conn, timedOut>>
    BY <1>9 DEF ReaderReturned, Goto, readerVars
  <2> QED
    BY <2>1
<1>10. ASSUME NEW timeout \in BOOLEAN, Drained(timeout)
       PROVE  PoliteInv'
  <2>1. /\ closed' = closed \cup {conn} /\ run = "draining" /\ run' \in {"done", "hook"}
        /\ timedOut' = IF timeout THEN timedOut \cup {conn} ELSE timedOut
        /\ UNCHANGED <<reader, link, conn>>
        /\ timeout \/ reader[conn] = "returned"
    BY <1>10 DEF Drained, DrainedWhen, Goto, readerVars
  (* finish waited for the reader, or gave up.                               *)
  <2>2. timeout \/ link[conn] # "ending"
    BY <1>0, <2>1
  <2> QED
    BY <2>1, <2>2
<1>11. CASE TestGate \/ Pop \/ SendAudio \/ WriterWakes
  BY <1>1, <1>11 DEF TestGate, Pop, PopLeaving, SendAudio, WriterWakes, WakeTo, WriterGoes,
                     runVars, readerVars
<1>12. ASSUME NEW c \in Conns, Read(c)
       PROVE  PoliteInv'
  <2>1. /\ UNCHANGED <<closed, conn, timedOut, run>>
        /\ \A d \in Conns \ {c} : reader'[d] = reader[d] /\ link'[d] = link[d]
    BY <1>0, <1>12 DEF Read, runVars
  <2>2. \/ reader'[c] = "publish" /\ link'[c] = link[c]
        \/ reader'[c] = "returned" /\ link'[c] = link[c] /\ (c \in closed \/ link[c] = "broken")
        \/ reader'[c] = "returned" /\ link'[c] = "ended" /\ link[c] = "ending"
    BY <1>0, <1>12 DEF Read
  <2> QED
    BY <1>0, <2>1, <2>2
<1>13. ASSUME NEW c \in Conns, Deliver(c)
       PROVE  PoliteInv'
  <2>1. /\ UNCHANGED <<closed, conn, timedOut, run, link>>
        /\ \A d \in Conns \ {c} : reader'[d] = reader[d]
        /\ reader'[c] = "returned" => c \in closed
    BY <1>0, <1>13 DEF Deliver, runVars, linkVars
  <2> QED
    BY <1>0, <2>1
<1>14. ASSUME NEW c \in Conns, Break(c)
       PROVE  PoliteInv'
  <2>1. /\ UNCHANGED <<closed, conn, timedOut, run, reader>>
        /\ link' = [link EXCEPT ![c] = "broken"]
    BY <1>14 DEF Break, runVars, readerVars
  <2> QED
    BY <1>0, <2>1
<1>15. CASE UNCHANGED vars
  BY <1>1, <1>15 DEF vars, runVars, readerVars, linkVars
<1> QED
  BY <1>2, <1>3, <1>4, <1>5, <1>6, <1>7, <1>8, <1>9, <1>10, <1>11, <1>12, <1>13, <1>14, <1>15
  DEF Next

(* A connection that was asked to end its stream and neither broke nor ran  *)
(* into the drain's timeout loses no result: finish closes it only when the *)
(* reader has returned, and the reader only when the recognizer has said    *)
(* all it had to say.                                                       *)
THEOREM SessionPoliteEnd == Spec => []PoliteEndLosesNothing
<1>1. TypeInv /\ AnswerInv /\ PoliteInv => PoliteEndLosesNothing
  <2> SUFFICES ASSUME TypeInv, AnswerInv, PoliteInv, NEW c \in closed \ timedOut,
                      link[c] \in {"ending", "ended"},
                      NEW f \in ToSet(sent[c]), f.loud
               PROVE  \E i \in 1..Len(published) : published[i].n = f.n
    BY DEF PoliteEndLosesNothing
  <2>1. c \in Conns
    BY SessionSizes DEF SessionSizes, TypeInv, RunType, Conns
  <2>2. PICK i \in 1..Len(sent[c]) : f = sent[c][i]
    BY <2>1, LenProperties DEF TypeInv, LinkType, ToSet
  <2>3. link[c] = "ended"
    BY DEF PoliteInv
  <2> QED
    BY <2>1, <2>2, <2>3 DEF AnswerInv, IsPublished
<1> QED
  BY <1>1, TypeInit, TypeStep, OrderInit, OrderStep, AnswerInit, AnswerStep, PoliteInit, PoliteStep,
     PTL DEF Spec
=============================================================================
