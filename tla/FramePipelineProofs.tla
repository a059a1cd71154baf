------------------------ MODULE FramePipelineProofs ------------------------
(***************************************************************************)
(* Theorems about the way of a frame from the source to the recognizer, for *)
(* every level, setting and buffer, and any number of frames and changes.   *)
(***************************************************************************)
EXTENDS FramePipeline, SequenceTheorems, TLAPS

(* Frames that have reached the gate.                                       *)
Handed == IF tap.at \in {"tap", "send"} THEN Len(level) - 1 ELSE Len(level)

(* Where the frame in hand is: the gate judges every frame once, in order,  *)
(* and gives it on before it takes the next.                                *)
PlaceInv ==
  /\ tap.at \in {"idle", "tap", "send", "ended"}
  /\ tap.at \in {"tap", "send"} => monitored /\ Len(level) >= 1 /\ tap.n = Len(level)
  /\ gate.at \in {"idle", "process", "edge", "send", "ended"}
  /\ Len(judged) <= Len(level) /\ Len(received) <= Len(judged)
  /\ (monitored => tap.at # "ended") =>
       /\ gate.at = "idle" => Len(judged) = Handed
       /\ gate.at = "process" => Len(judged) + 1 = Handed
       /\ gate.at \in {"edge", "send"} => Len(judged) = Handed
  /\ gate.at = "process" => gate.n = Len(judged) + 1 /\ gate.n <= Len(level)
  /\ gate.at \in {"edge", "send"} => gate.n = Len(judged) /\ gate.n >= 1
  /\ gate.at \in {"idle", "process"} => Len(received) = Len(judged)
  /\ gate.at \in {"edge", "send"} => Len(received) + 1 = Len(judged)

(* What the gate remembers: the last loud frame, and whether no frame since *)
(* was quiet for the release in force.                                      *)
HoldInv ==
  /\ lastAbove \in 0..Len(judged)
  /\ lastAbove >= 1 => Loud(lastAbove, judged[lastAbove])
  /\ \A k \in lastAbove + 1 .. Len(judged) : ~Loud(k, judged[k])
  /\ open <=> /\ lastAbove >= 1
              /\ \A k \in lastAbove + 1 .. Len(judged) : k - lastAbove < judged[k].release

(* The monitor has frames of the source, each once and in order.            *)
QueueInv ==
  /\ playing <= Len(level)
  /\ \A i \in 1..Len(queue) :
       /\ playing < queue[i] /\ queue[i] <= Len(level)
       /\ \A j \in 1..Len(queue) : i < j => queue[i] < queue[j]
  /\ tap.at = "tap" => /\ playing < tap.n
                       /\ \A i \in 1..Len(queue) : queue[i] < tap.n
  /\ speaker = "writing" => playing >= 1

(* The last edge of a set of them opened the gate.                          *)
Edges == {k \in 1..Len(audit) : audit[k].kind = "edge"}

LastOpens(edges) == \E k \in edges : audit[k].open /\ \A j \in edges : j <= k

(* The audit runs behind the gate by the edge it is about to tell.          *)
AuditInv ==
  /\ \A k \in Edges : audit[k].time <= Len(judged)
  /\ gate.at = "edge" => \A k \in Edges : audit[k].time < gate.n
  /\ \A j, k \in Edges : j < k => audit[j].time < audit[k].time
  /\ \A j, k \in Edges : j < k /\ Edges \cap (j + 1 .. k - 1) = {}
                           => audit[j].open # audit[k].open
  /\ LastOpens(Edges) <=> IF gate.at = "edge" THEN ~open ELSE open

(* GateMatchesReference, where the number of a frame is its place.          *)
MatchInv ==
  \A i \in 1..Len(received) :
    /\ received[i].n = i
    /\ received[i].open <=> ToPass(i)
    /\ received[i].sound = IF received[i].open THEN level[i] ELSE 0

(* AuditTellsGate of the gate's state, in the same way.                     *)
TellsInv ==
  \A i \in 1..Len(received) : received[i].open <=> LastOpens(EdgesUpTo(i))

SoundInv == pcm = level
-----------------------------------------------------------------------------
LEMMA Appended ==
  ASSUME NEW S, NEW s \in Seq(S), NEW e \in S
  PROVE  /\ Append(s, e) \in Seq(S) /\ Len(s) \in Nat
         /\ Len(Append(s, e)) = Len(s) + 1
         /\ 1..Len(Append(s, e)) = 1..Len(s) \cup {Len(s) + 1}
         /\ \A i \in 1..Len(s) : Append(s, e)[i] = s[i]
         /\ Append(s, e)[Len(s) + 1] = e
<1>1. /\ Append(s, e) \in Seq(S) /\ Len(s) \in Nat
      /\ Len(Append(s, e)) = Len(s) + 1
      /\ \A i \in 1..Len(s) : Append(s, e)[i] = s[i]
      /\ Append(s, e)[Len(s) + 1] = e
  BY AppendProperties, LenProperties
<1>2. 1..(Len(s) + 1) = 1..Len(s) \cup {Len(s) + 1}
  BY <1>1
<1> QED
  BY <1>1, <1>2

(* Type correctness, in the parts of the pipeline.                          *)
SourceType ==
  /\ monitored \in BOOLEAN /\ sourceUp \in BOOLEAN
  /\ cancelled \in BOOLEAN /\ engineUp \in BOOLEAN /\ closed \in BOOLEAN
  /\ level \in Seq(Levels) /\ Len(level) <= MaxFrames
  /\ pcm \in Seq(Levels \cup {0}) /\ Len(pcm) = Len(level)

HandType ==
  /\ tap \in [n : 0..Len(level), at : Stages]
  /\ gate \in [n : 0..Len(level), at : Stages]

SpeakerType ==
  /\ queue \in Seq(1..MaxFrames) /\ Len(queue) <= MonitorBuffer
  /\ speaker \in {"idle", "writing", "stopped"}
  /\ playing \in 0..MaxFrames

GateType ==
  /\ open \in BOOLEAN /\ lastAbove \in 0..MaxFrames
  /\ judged \in Seq(Settings)
  /\ received \in Seq([n : 1..MaxFrames, open : BOOLEAN,
                       sound : Levels \cup {0}])

AdminType ==
  /\ settings \in Settings
  /\ admin \in [Admins -> {<<>>} \cup {<<s>> : s \in Settings}]
  /\ changes \in 0..MaxChanges
  /\ audit \in Seq(Records)

TypeInv ==
  SourceType /\ HandType /\ SpeakerType /\ GateType /\ AdminType /\ PlaceInv

LEMMA TypeInit == Init => TypeInv
<1> SUFFICES ASSUME Init PROVE TypeInv
  OBVIOUS
<1> USE LevelsAssumption, SettingsAssumption, BoundsAssumption
<1>1. SourceType
  <2>1. level \in Seq(Levels) /\ pcm \in Seq(Levels \cup {0}) /\ Len(level) = 0 /\ Len(pcm) = 0
    BY EmptySeq DEF Init
  <2>2. sourceUp = TRUE /\ cancelled = FALSE /\ engineUp = TRUE /\ closed = FALSE /\ monitored \in BOOLEAN
    BY DEF Init
  <2>3. Len(level) <= MaxFrames /\ Len(pcm) = Len(level)
    BY <2>1
  <2>4. {sourceUp, cancelled, engineUp, closed, monitored} \subseteq BOOLEAN
    BY <2>2
  <2> QED
    BY <2>1, <2>3, <2>4, Zenon DEF SourceType
<1>2. HandType
  BY DEF Init, HandType, Hand, Ended, NoFrame, Stages
<1>3. SpeakerType
  <2>1. queue \in Seq(1..MaxFrames) /\ Len(queue) = 0
    BY EmptySeq DEF Init
  <2> QED
    BY <2>1 DEF Init, SpeakerType, NoFrame
<1>4. GateType
  <2>1. judged \in Seq(Settings)
        /\ received \in Seq([n : 1..MaxFrames, open : BOOLEAN, sound : Levels \cup {0}])
    BY EmptySeq DEF Init
  <2>2. open = FALSE /\ lastAbove = 0
    BY DEF Init
  <2>3. open \in BOOLEAN
    BY <2>2, Zenon
  <2>4. lastAbove \in 0..MaxFrames
    BY <2>2
  <2> QED
    BY <2>1, <2>3, <2>4, Zenon DEF GateType
<1>5. AdminType
  <2>1. audit \in Seq(Records)
    BY EmptySeq DEF Init
  <2> QED
    BY <2>1 DEF Init, AdminType
<1>6. PlaceInv
  <2>1. Len(level) = 0 /\ Len(judged) = 0 /\ Len(received) = 0
    BY DEF Init
  <2> QED
    BY <2>1 DEF Init, PlaceInv, Handed, Hand, Ended
<1> QED
  BY <1>1, <1>2, <1>3, <1>4, <1>5, <1>6 DEF TypeInv

(* The lengths and numbers that steps count with.                           *)
LEMMA Numbers ==
  ASSUME TypeInv
  PROVE  /\ Len(level) \in Nat /\ Len(judged) \in Nat /\ Len(received) \in Nat
         /\ Len(queue) \in Nat /\ Len(audit) \in Nat /\ MaxFrames \in Nat
         /\ tap.n \in Nat /\ gate.n \in Nat /\ gate.n <= MaxFrames
BY BoundsAssumption, LenProperties
   DEF TypeInv, SourceType, HandType, SpeakerType, GateType, AdminType

LEMMA SourceTypeStep ==
  ASSUME TypeInv, [Next]_vars
  PROVE  SourceType' /\ HandType'
<1> USE DEF TypeInv, SourceType, HandType, Hand, Ended, NoFrame, Stages
<1>1. ASSUME NEW l \in Levels, SourceSends(l)
      PROVE  SourceType' /\ HandType'
  <2>1. /\ level' \in Seq(Levels) /\ Len(level') = Len(level) + 1
        /\ pcm' \in Seq(Levels \cup {0}) /\ Len(pcm') = Len(pcm) + 1
    BY <1>1, Appended DEF SourceSends
  <2>2. Len(level) \in Nat /\ MaxFrames \in Nat /\ Len(level) < MaxFrames
    BY <1>1, Numbers DEF SourceSends
  <2>3. SourceType'
    BY <1>1, <2>1, <2>2 DEF SourceSends, speakerVars
  <2>4. /\ tap' = tap \/ tap' = [n |-> Len(level'), at |-> "tap"]
        /\ gate' = gate \/ gate' = [n |-> Len(level'), at |-> "process"]
    BY <1>1 DEF SourceSends
  <2>5. 0..Len(level) \subseteq 0..Len(level') /\ Len(level') \in 0..Len(level')
    BY <2>1, <2>2
  <2> QED
    BY <2>3, <2>4, <2>5
<1>2. CASE SourceEnds \/ Cancel \/ EngineEnds
  BY <1>2 DEF SourceEnds, Cancel, EngineEnds, speakerVars
<1>3. CASE Tap \/ MonitorForwards \/ MonitorStops
  <2>1. UNCHANGED <<sourceVars, pcm, closed>>
    BY <1>3 DEF Tap, MonitorForwards, MonitorStops, speakerVars
  <2>2. Len(level) \in Nat /\ tap.n \in 0..Len(level)
    BY Numbers
  <2>3. tap' \in [n : 0..Len(level), at : Stages] /\ gate' \in [n : 0..Len(level), at : Stages]
    BY <1>3, <2>2 DEF Tap, MonitorForwards, MonitorStops
  <2> QED
    BY <2>1, <2>3 DEF sourceVars
<1>30. CASE MonitorClose
  BY <1>30 DEF MonitorClose, sourceVars
<1>4. CASE SpeakerTakes \/ SpeakerWrites \/ SpeakerStops
  BY <1>4 DEF SpeakerTakes, SpeakerWrites, SpeakerStops, sourceVars
<1>5. CASE Process \/ OnEdge \/ GateSends \/ GateStops
  BY <1>5 DEF Process, Decide, OnEdge, GateSends, GateStops, sourceVars, speakerVars
<1>6. ASSUME NEW a \in Admins, NEW s \in Settings, Set(a, s) \/ OnSettings(a)
      PROVE  SourceType' /\ HandType'
  BY <1>6 DEF Set, OnSettings, sourceVars, speakerVars
<1>7. CASE UNCHANGED vars
  BY <1>7 DEF vars, sourceVars, speakerVars
<1> QED
  BY <1>1, <1>2, <1>3, <1>30, <1>4, <1>5, <1>6, <1>7, SettingsAssumption DEF Next

LEMMA SpeakerTypeStep ==
  ASSUME TypeInv, [Next]_vars
  PROVE  SpeakerType'
<1> USE BoundsAssumption DEF TypeInv, SpeakerType
<1>1. ASSUME NEW l \in Levels, SourceSends(l)
      PROVE  SpeakerType'
  BY <1>1 DEF SourceSends, speakerVars
<1>2. CASE SourceEnds \/ Cancel \/ EngineEnds
  BY <1>2 DEF SourceEnds, Cancel, EngineEnds, speakerVars
<1>3. CASE Tap
  <2>1. tap.n \in 1..MaxFrames
    BY <1>3 DEF Tap, PlaceInv, SourceType, HandType
  <2>2. Append(queue, tap.n) \in Seq(1..MaxFrames) /\ Len(Append(queue, tap.n)) = Len(queue) + 1
        /\ Len(queue) \in Nat
    BY <2>1, Appended
  <2>3. UNCHANGED <<speaker, playing>>
        /\ queue' = IF closed \/ Len(queue) >= MonitorBuffer THEN queue ELSE Append(queue, tap.n)
    BY <1>3 DEF Tap
  <2>4. CASE closed \/ Len(queue) >= MonitorBuffer
    BY <2>3, <2>4
  <2>5. CASE ~(closed \/ Len(queue) >= MonitorBuffer)
    BY <2>2, <2>3, <2>5
  <2> QED
    BY <2>4, <2>5
<1>4. CASE MonitorForwards \/ MonitorStops \/ MonitorClose
  BY <1>4 DEF MonitorForwards, MonitorStops, MonitorClose, speakerVars
<1>5. CASE SpeakerTakes
  <2>1. /\ Tail(queue) \in Seq(1..MaxFrames) /\ Len(Tail(queue)) = Len(queue) - 1
        /\ Head(queue) \in 1..MaxFrames /\ Len(queue) \in Nat
    BY <1>5, HeadTailProperties, LenProperties DEF SpeakerTakes
  <2> QED
    BY <1>5, <2>1 DEF SpeakerTakes
<1>6. CASE SpeakerWrites \/ SpeakerStops
  BY <1>6 DEF SpeakerWrites, SpeakerStops
<1>7. CASE Process \/ OnEdge \/ GateSends \/ GateStops
  BY <1>7 DEF Process, Decide, OnEdge, GateSends, GateStops, speakerVars
<1>8. ASSUME NEW a \in Admins, NEW s \in Settings, Set(a, s) \/ OnSettings(a)
      PROVE  SpeakerType'
  BY <1>8 DEF Set, OnSettings, speakerVars
<1>9. CASE UNCHANGED vars
  BY <1>9 DEF vars, speakerVars
<1> QED
  BY <1>1, <1>2, <1>3, <1>4, <1>5, <1>6, <1>7, <1>8, <1>9, SettingsAssumption DEF Next

LEMMA GateTypeStep ==
  ASSUME TypeInv, [Next]_vars
  PROVE  GateType' /\ AdminType'
<1> USE DEF TypeInv, GateType, AdminType
<1>1. ASSUME NEW l \in Levels, SourceSends(l)
      PROVE  GateType' /\ AdminType'
  BY <1>1 DEF SourceSends, gateVars, adminVars
<1>2. CASE SourceEnds \/ Cancel \/ EngineEnds
  BY <1>2 DEF SourceEnds, Cancel, EngineEnds, gateVars, adminVars
<1>3. CASE Tap \/ MonitorForwards \/ MonitorStops \/ MonitorClose
  BY <1>3 DEF Tap, MonitorForwards, MonitorStops, MonitorClose, gateVars, adminVars
<1>4. CASE SpeakerTakes \/ SpeakerWrites \/ SpeakerStops
  BY <1>4 DEF SpeakerTakes, SpeakerWrites, SpeakerStops, gateVars, adminVars
<1>5. CASE Process
  <2>1. gate.at = "process" /\ open' = StaysOpen /\ judged' = Append(judged, settings)
        /\ lastAbove' \in {gate.n, lastAbove}
    BY <1>5 DEF Process, Decide
  <2>2. gate.n \in 0..MaxFrames
    BY Numbers
  <2>3. StaysOpen \in BOOLEAN
    BY DEF StaysOpen, Loud
  <2>4. judged' \in Seq(Settings)
    BY <2>1, Appended
  <2> QED
    BY <1>5, <2>1, <2>2, <2>3, <2>4 DEF Process, Decide, adminVars
<1>6. CASE OnEdge
  <2>1. gate.at = "edge" /\ gate.n = Len(judged) /\ gate.n >= 1 /\ gate.n \in 1..MaxFrames
    BY <1>6, Numbers DEF OnEdge, PlaceInv
  <2>2. judged[gate.n] \in Settings
    BY <2>1, ElementOfSeq
  <2>3. EdgeRecord(open, gate.n, judged[gate.n]) \in Records
    BY <2>1, <2>2 DEF EdgeRecord, Records
  <2>4. audit' \in Seq(Records)
    BY <1>6, <2>3, Appended DEF OnEdge
  <2> QED
    BY <1>6, <2>4 DEF OnEdge, gateVars, adminVars
<1>7. CASE GateSends
  <2> DEFINE f == [n |-> gate.n, open |-> open, sound |-> IF open THEN pcm[gate.n] ELSE 0]
  <2>1. gate.n \in 1..Len(level) /\ gate.n \in 1..MaxFrames
    BY <1>7, Numbers DEF GateSends, PlaceInv, HandType
  <2>2. pcm[gate.n] \in Levels \cup {0}
    BY <2>1, ElementOfSeq DEF SourceType
  <2>3. f \in [n : 1..MaxFrames, open : BOOLEAN, sound : Levels \cup {0}]
    BY <2>1, <2>2
  <2>4. received' \in Seq([n : 1..MaxFrames, open : BOOLEAN, sound : Levels \cup {0}])
    BY <1>7, <2>3, Appended DEF GateSends
  <2> QED
    BY <1>7, <2>4 DEF GateSends, gateVars, adminVars
<1>8. CASE GateStops
  BY <1>8 DEF GateStops, gateVars, adminVars
<1>9. ASSUME NEW a \in Admins, NEW s \in Settings, Set(a, s)
      PROVE  GateType' /\ AdminType'
  BY <1>9, BoundsAssumption DEF Set, gateVars
<1>10. ASSUME NEW a \in Admins, OnSettings(a)
       PROVE  GateType' /\ AdminType'
  <2>1. admin[a] # <<>> /\ admin[a] \in {<<>>} \cup {<<s>> : s \in Settings}
    BY <1>10 DEF OnSettings
  <2>2. Head(admin[a]) \in Settings
    BY <2>1
  <2>3. Config(Head(admin[a])) \in Records
    BY <2>2 DEF Config, Records
  <2>4. audit' \in Seq(Records)
    BY <1>10, <2>3, Appended DEF OnSettings
  <2> QED
    BY <1>10, <2>4 DEF OnSettings, gateVars
<1>11. CASE UNCHANGED vars
  BY <1>11 DEF vars, gateVars, adminVars
<1> QED
  BY <1>1, <1>2, <1>3, <1>4, <1>5, <1>6, <1>7, <1>8, <1>9, <1>10, <1>11 DEF Next

LEMMA PlaceStep ==
  ASSUME TypeInv, [Next]_vars
  PROVE  PlaceInv'
<1>0. /\ Len(level) \in Nat /\ Len(judged) \in Nat /\ Len(received) \in Nat
      /\ tap.n \in Nat /\ gate.n \in Nat
  BY Numbers
<1> USE <1>0 DEF PlaceInv, Handed, Hand, Ended, NoFrame
<1>a. PlaceInv
  BY DEF TypeInv
<1>1. ASSUME NEW l \in Levels, SourceSends(l)
      PROVE  PlaceInv'
  <2>1. Len(level') = Len(level) + 1
    BY <1>1, Appended DEF SourceSends, TypeInv, SourceType
  <2>2. CASE monitored
    BY <1>a, <1>1, <2>1, <2>2 DEF SourceSends, Ready, gateVars
  <2>3. CASE ~monitored
    BY <1>a, <1>1, <2>1, <2>3 DEF SourceSends, Ready, gateVars
  <2> QED
    BY <2>2, <2>3
<1>2. CASE SourceEnds \/ Cancel \/ EngineEnds
  BY <1>a, <1>2 DEF SourceEnds, Cancel, EngineEnds, gateVars
<1>3. CASE Tap
  BY <1>a, <1>3 DEF Tap, gateVars, sourceVars
<1>4. CASE MonitorForwards
  BY <1>a, <1>4 DEF MonitorForwards, gateVars, sourceVars
<1>5. CASE MonitorStops
  BY <1>a, <1>5 DEF MonitorStops, gateVars, sourceVars
<1>6. CASE MonitorClose \/ SpeakerTakes \/ SpeakerWrites \/ SpeakerStops
  BY <1>a, <1>6 DEF MonitorClose, SpeakerTakes, SpeakerWrites, SpeakerStops, gateVars, sourceVars
<1>7. CASE Process
  <2>1. Len(judged') = Len(judged) + 1
    BY <1>7, Appended DEF Process, Decide, TypeInv, GateType, AdminType
  <2>2. gate.at = "process" /\ gate'.n = gate.n /\ gate'.at \in {"edge", "send"}
        /\ UNCHANGED <<tap, level, received, monitored>>
    BY <1>7 DEF Process, Decide, sourceVars
  <2> QED
    BY <1>a, <2>1, <2>2
<1>8. CASE OnEdge
  BY <1>a, <1>8 DEF OnEdge, gateVars, sourceVars
<1>9. CASE GateSends
  <2>1. Len(received') = Len(received) + 1
    <3>1. received' \in Seq([n : 1..MaxFrames, open : BOOLEAN, sound : Levels \cup {0}])
      BY GateTypeStep DEF GateType
    <3> QED
      BY <1>9, <3>1, AppendProperties DEF GateSends, TypeInv, GateType
  <2> QED
    BY <1>a, <1>9, <2>1 DEF GateSends, gateVars, sourceVars
<1>10. CASE GateStops
  BY <1>a, <1>10 DEF GateStops, gateVars, sourceVars
<1>11. ASSUME NEW a \in Admins, NEW s \in Settings, Set(a, s) \/ OnSettings(a)
       PROVE  PlaceInv'
  BY <1>a, <1>11 DEF Set, OnSettings, gateVars, sourceVars
<1>12. CASE UNCHANGED vars
  BY <1>a, <1>12 DEF vars, gateVars, sourceVars
<1> QED
  BY <1>1, <1>2, <1>3, <1>4, <1>5, <1>6, <1>7, <1>8, <1>9, <1>10, <1>11, <1>12, SettingsAssumption
     DEF Next

LEMMA TypeStep == TypeInv /\ [Next]_vars => TypeInv'
BY SourceTypeStep, SpeakerTypeStep, GateTypeStep, PlaceStep DEF TypeInv

LEMMA TypeAlways == Spec => []TypeInv
BY TypeInit, TypeStep, PTL DEF Spec

(* Every variable keeps its type: buffers are bounded, and a frame in hand  *)
(* is one the source has sent.                                              *)
THEOREM PipelineTypeCorrect == Spec => []TypeOK
<1>1. TypeInv => TypeOK
  BY DEF TypeInv, SourceType, HandType, SpeakerType, GateType, AdminType, TypeOK
<1> QED
  BY <1>1, TypeAlways, PTL
-----------------------------------------------------------------------------
(* The steps that decide, tell or give on a frame.                          *)
core == <<level, pcm, judged, open, lastAbove, received, audit>>

LEMMA CoreSteps ==
  ASSUME TypeInv, [Next]_vars
  PROVE  \/ \E l \in Levels : SourceSends(l)
         \/ Process \/ OnEdge \/ GateSends
         \/ \E a \in Admins : OnSettings(a)
         \/ /\ UNCHANGED core
            /\ gate' = gate \/ (gate.at # "edge" /\ gate'.at # "edge")
<1> USE DEF core, sourceVars, gateVars
<1>1. CASE SourceEnds \/ Cancel \/ EngineEnds
  BY <1>1 DEF SourceEnds, Cancel, EngineEnds
<1>2. CASE Tap \/ MonitorStops \/ MonitorClose \/ SpeakerTakes \/ SpeakerWrites \/ SpeakerStops
  BY <1>2 DEF Tap, MonitorStops, MonitorClose, SpeakerTakes, SpeakerWrites, SpeakerStops
<1>3. CASE MonitorForwards \/ GateStops
  BY <1>3 DEF MonitorForwards, GateStops, Hand, Ended
<1>4. ASSUME NEW a \in Admins, NEW s \in Settings, Set(a, s)
      PROVE  UNCHANGED core /\ gate' = gate
  BY <1>4 DEF Set
<1>5. CASE UNCHANGED vars
  BY <1>5 DEF vars
<1> QED
  BY <1>1, <1>2, <1>3, <1>4, <1>5 DEF Next

LEMMA SentFrame ==
  ASSUME TypeInv, NEW l \in Levels, SourceSends(l)
  PROVE  /\ UNCHANGED <<judged, open, lastAbove, received, audit>>
         /\ Len(level') = Len(level) + 1 /\ \A i \in 1..Len(level) : level'[i] = level[i]
         /\ gate' = gate \/ (gate.at = "idle" /\ gate'.at = "process")
<1>1. Len(level') = Len(level) + 1 /\ \A i \in 1..Len(level) : level'[i] = level[i]
  BY Appended DEF SourceSends, TypeInv, SourceType
<1>2. UNCHANGED <<judged, open, lastAbove, received, audit>>
      /\ (gate' = gate \/ (gate.at = "idle" /\ gate'.at = "process"))
  BY DEF SourceSends, Ready, gateVars, Hand
<1> QED
  BY <1>1, <1>2

LEMMA JudgedFrame ==
  ASSUME TypeInv, Process
  PROVE  /\ UNCHANGED <<level, received, audit>>
         /\ gate.n = Len(judged) + 1 /\ gate'.n = gate.n /\ gate.n <= Len(level)
         /\ Len(received) = Len(judged)
         /\ Len(judged') = gate.n /\ judged'[gate.n] = settings
         /\ \A i \in 1..Len(judged) : judged'[i] = judged[i]
         /\ lastAbove' = IF Loud(gate.n, settings) THEN gate.n ELSE lastAbove
         /\ open' = StaysOpen
         /\ gate'.at = IF StaysOpen # open THEN "edge" ELSE "send"
<1>1. /\ UNCHANGED <<level, received, audit>> /\ gate.at = "process"
      /\ judged' = Append(judged, settings)
      /\ lastAbove' = IF Loud(gate.n, settings) THEN gate.n ELSE lastAbove
      /\ open' = StaysOpen /\ gate'.n = gate.n
      /\ gate'.at = IF StaysOpen # open THEN "edge" ELSE "send"
  BY DEF Process, Decide, sourceVars, Hand
<1>2. gate.n = Len(judged) + 1 /\ gate.n <= Len(level) /\ Len(received) = Len(judged)
  BY <1>1 DEF TypeInv, PlaceInv
<1>3. judged \in Seq(Settings) /\ settings \in Settings
  BY DEF TypeInv, GateType, AdminType
<1>4. /\ Len(judged') = Len(judged) + 1 /\ judged'[Len(judged) + 1] = settings
      /\ \A i \in 1..Len(judged) : judged'[i] = judged[i]
  BY <1>1, <1>3, Appended
<1> QED
  BY <1>1, <1>2, <1>4

LEMMA ToldEdge ==
  ASSUME TypeInv, OnEdge
  PROVE  /\ UNCHANGED <<level, judged, open, lastAbove, received>>
         /\ gate.at = "edge" /\ gate.n = Len(judged) /\ gate.n = Len(received) + 1
         /\ gate'.at = "send"
         /\ Len(audit') = Len(audit) + 1 /\ \A i \in 1..Len(audit) : audit'[i] = audit[i]
         /\ audit'[Len(audit) + 1] = EdgeRecord(open, gate.n, judged[gate.n])
<1>1. /\ UNCHANGED <<level, judged, open, lastAbove, received>>
      /\ gate.at = "edge" /\ gate'.at = "send"
      /\ audit' = Append(audit, EdgeRecord(open, gate.n, judged[gate.n]))
  BY DEF OnEdge, sourceVars, gateVars, Hand
<1>2. gate.n = Len(judged) /\ gate.n = Len(received) + 1 /\ gate.n \in 1..MaxFrames
  BY <1>1, Numbers DEF TypeInv, PlaceInv
<1>3. judged[gate.n] \in Settings /\ open \in BOOLEAN
  <2>1. judged \in Seq(Settings) /\ open \in BOOLEAN
    BY DEF TypeInv, GateType
  <2>2. gate.n \in 1..Len(judged)
    BY <1>2
  <2> QED
    BY <2>1, <2>2, ElementOfSeq
<1>4. EdgeRecord(open, gate.n, judged[gate.n]) \in Records /\ audit \in Seq(Records)
  BY <1>2, <1>3 DEF EdgeRecord, Records, TypeInv, AdminType
<1> QED
  BY <1>1, <1>2, <1>4, Appended

LEMMA ToldSettings ==
  ASSUME TypeInv, NEW a \in Admins, OnSettings(a)
  PROVE  /\ UNCHANGED <<level, judged, open, lastAbove, received, gate>>
         /\ Len(audit') = Len(audit) + 1 /\ \A i \in 1..Len(audit) : audit'[i] = audit[i]
         /\ audit'[Len(audit) + 1].kind = "config"
<1>1. admin[a] # <<>> /\ admin[a] \in {<<>>} \cup {<<s>> : s \in Settings}
  BY DEF OnSettings, TypeInv, AdminType
<1>2. Head(admin[a]) \in Settings
  BY <1>1
<1>3. Config(Head(admin[a])) \in Records /\ Config(Head(admin[a])).kind = "config"
  BY <1>2 DEF Config, Records
<1>4. audit \in Seq(Records) /\ audit' = Append(audit, Config(Head(admin[a])))
  BY DEF OnSettings, TypeInv, AdminType
<1>5. UNCHANGED <<level, judged, open, lastAbove, received, gate>>
  BY DEF OnSettings, sourceVars, gateVars
<1> QED
  BY <1>3, <1>4, <1>5, Appended

LEMMA GivenFrame ==
  ASSUME TypeInv, GateSends
  PROVE  /\ UNCHANGED <<level, pcm, judged, open, lastAbove, audit>>
         /\ gate.at = "send" /\ gate'.at = "idle"
         /\ gate.n = Len(judged) /\ gate.n = Len(received) + 1
         /\ Len(received') = gate.n
         /\ \A i \in 1..Len(received) : received'[i] = received[i]
         /\ received'[gate.n] = [n |-> gate.n, open |-> open,
                                 sound |-> IF open THEN pcm[gate.n] ELSE 0]
<1>1. /\ UNCHANGED <<level, pcm, judged, open, lastAbove, audit>>
      /\ gate.at = "send" /\ gate'.at = "idle"
      /\ received' = Append(received, [n |-> gate.n, open |-> open,
                                       sound |-> IF open THEN pcm[gate.n] ELSE 0])
  BY DEF GateSends, sourceVars, gateVars, Hand
<1>2. gate.n = Len(judged) /\ gate.n = Len(received) + 1
  BY <1>1, Numbers DEF TypeInv, PlaceInv
<1>3. received' \in Seq([n : 1..MaxFrames, open : BOOLEAN, sound : Levels \cup {0}])
  BY GateTypeStep DEF GateType, Next
<1>4. /\ Len(received') = Len(received) + 1
      /\ \A i \in 1..Len(received) : received'[i] = received[i]
      /\ received'[Len(received) + 1] = [n |-> gate.n, open |-> open,
                                         sound |-> IF open THEN pcm[gate.n] ELSE 0]
  BY <1>1, <1>3, AppendProperties DEF TypeInv, GateType
<1> QED
  BY <1>1, <1>2, <1>4
-----------------------------------------------------------------------------
LEMMA SoundStep == TypeInv /\ SoundInv /\ [Next]_vars => SoundInv'
BY CoreSteps DEF core, SoundInv, SourceSends, Process, Decide, OnEdge, GateSends, OnSettings, sourceVars

LEMMA HoldStep == TypeInv /\ HoldInv /\ [Next]_vars => HoldInv'
<1> SUFFICES ASSUME TypeInv, HoldInv, [Next]_vars
             PROVE  HoldInv'
  OBVIOUS
<1>0. Len(judged) \in Nat /\ Len(level) \in Nat /\ Len(judged) <= Len(level) /\ lastAbove \in Nat
  BY Numbers DEF TypeInv, PlaceInv, HoldInv
<1>1. CASE UNCHANGED <<level, judged, open, lastAbove>>
  BY <1>1 DEF HoldInv, Loud
<1>2. ASSUME NEW l \in Levels, SourceSends(l)
      PROVE  HoldInv'
  <2>1. \A k \in 1..Len(judged) : level'[k] = level[k]
    BY <1>0, <1>2, SentFrame
  <2>2. /\ \A k \in lastAbove + 1 .. Len(judged) : k \in 1..Len(judged)
        /\ lastAbove >= 1 => lastAbove \in 1..Len(judged)
    BY <1>0 DEF HoldInv
  <2>3. UNCHANGED <<judged, open, lastAbove>>
    BY <1>2, SentFrame
  <2> QED
    BY <2>1, <2>2, <2>3 DEF HoldInv, Loud
<1>3. CASE Process
  <2>0. PICK n \in Nat : n = Len(judged) + 1
    BY <1>0
  <2>1. /\ UNCHANGED level /\ gate.n = n /\ Len(judged') = n /\ judged'[n] = settings
        /\ \A i \in 1..Len(judged) : judged'[i] = judged[i]
        /\ lastAbove' = IF Loud(n, settings) THEN n ELSE lastAbove
        /\ open' = StaysOpen
    BY <1>3, <2>0, JudgedFrame
  <2>2. n >= 1
    BY <1>0, <2>0
  <2>3. CASE Loud(n, settings)
    <3>1. lastAbove' = n /\ open'
      BY <2>1, <2>3 DEF StaysOpen
    <3>2. \A k \in n + 1 .. n : FALSE
      BY <2>2
    <3>3. level'[n] > judged'[n].threshold
      BY <2>1, <2>3 DEF Loud
    <3> QED
      BY <2>1, <2>2, <3>1, <3>2, <3>3 DEF HoldInv, Loud
  <2>4. CASE ~Loud(n, settings)
    <3>1. lastAbove' = lastAbove /\ (open' <=> open /\ n - lastAbove < settings.release)
      BY <2>1, <2>4 DEF StaysOpen
    <3>2. \A k \in lastAbove + 1 .. n : k = n \/ k \in lastAbove + 1 .. Len(judged)
      BY <1>0, <2>0
    <3>3. n \in lastAbove + 1 .. n /\ \A k \in lastAbove + 1 .. Len(judged) : k \in lastAbove + 1 .. n
      BY <1>0, <2>0 DEF HoldInv
    <3>4. \A k \in lastAbove + 1 .. Len(judged) : judged'[k] = judged[k]
      BY <1>0, <2>1
    <3>5. lastAbove \in 0..n
      BY <1>0, <2>0 DEF HoldInv
    <3>6. lastAbove >= 1 => level'[lastAbove] > judged'[lastAbove].threshold
      <4>1. lastAbove >= 1 => judged'[lastAbove] = judged[lastAbove]
        BY <1>0, <2>1 DEF HoldInv
      <4> QED
        BY <2>1, <4>1 DEF HoldInv, Loud
    <3>7. \A k \in lastAbove + 1 .. n : ~(level'[k] > judged'[k].threshold)
      <4>1. \A k \in lastAbove + 1 .. Len(judged) : ~(level'[k] > judged'[k].threshold)
        BY <2>1, <3>4 DEF HoldInv, Loud
      <4>2. ~(level'[n] > judged'[n].threshold)
        BY <2>1, <2>4 DEF Loud
      <4> QED
        BY <3>2, <4>1, <4>2
    <3>8. (\A k \in lastAbove + 1 .. n : k - lastAbove < judged'[k].release)
            <=> /\ \A k \in lastAbove + 1 .. Len(judged) : k - lastAbove < judged[k].release
                /\ n - lastAbove < settings.release
      BY <2>1, <3>2, <3>3, <3>4
    <3>9. open' <=> /\ lastAbove >= 1
                    /\ \A k \in lastAbove + 1 .. n : k - lastAbove < judged'[k].release
      BY <3>1, <3>8 DEF HoldInv
    <3> QED
      BY <2>1, <3>1, <3>5, <3>6, <3>7, <3>9 DEF HoldInv, Loud
  <2> QED
    BY <2>3, <2>4
<1>4. CASE OnEdge \/ GateSends \/ \E a \in Admins : OnSettings(a)
  BY <1>1, <1>4, ToldEdge, ToldSettings, GivenFrame
<1> QED
  BY <1>1, <1>2, <1>3, <1>4, CoreSteps DEF core

(* The gate's two variables say of the frame judged last what the reference *)
(* says of it: the loud frame that lets it pass is the last one.            *)
LEMMA OpenIsToPass ==
  ASSUME TypeInv, HoldInv
  PROVE  open <=> ToPass(Len(judged))
<1>0. Len(judged) \in Nat /\ lastAbove \in Nat /\ lastAbove <= Len(judged)
  BY Numbers DEF HoldInv
<1>1. \A k \in 1..Len(judged) : judged[k].release \in Nat
  BY SettingsAssumption, ElementOfSeq DEF TypeInv, GateType
<1>2. ASSUME open
      PROVE  ToPass(Len(judged))
  <2>1. lastAbove \in 1..Len(judged)
    BY <1>0, <1>2 DEF HoldInv
  <2> QED
    BY <1>2, <2>1 DEF HoldInv, ToPass
<1>3. ASSUME ToPass(Len(judged))
      PROVE  open
  <2>1. PICK j \in 1..Len(judged) :
               /\ Loud(j, judged[j])
               /\ \A k \in j + 1 .. Len(judged) : ~Loud(k, judged[k]) => k - j < judged[k].release
    BY <1>3 DEF ToPass
  <2>2. j <= lastAbove /\ lastAbove >= 1
    BY <1>0, <2>1 DEF HoldInv
  <2>3. ASSUME NEW k \in lastAbove + 1 .. Len(judged)
        PROVE  k - lastAbove < judged[k].release
    <3>1. k \in j + 1 .. Len(judged) /\ k \in 1..Len(judged) /\ ~Loud(k, judged[k])
      BY <1>0, <2>2 DEF HoldInv
    <3>2. k - j < judged[k].release /\ judged[k].release \in Nat
      BY <1>1, <2>1, <3>1
    <3> QED
      BY <1>0, <2>2, <3>1, <3>2
  <2> QED
    BY <2>2, <2>3 DEF HoldInv
<1> QED
  BY <1>2, <1>3

(* What is to pass does not change with the frames that come later.         *)
LEMMA ToPassStays ==
  ASSUME TypeInv, [Next]_vars, NEW n \in 1..Len(judged)
  PROVE  ToPass(n)' <=> ToPass(n)
<1>1. \A k \in 1..Len(judged) : judged'[k] = judged[k] /\ level'[k] = level[k]
  <2>1. Len(judged) \in Nat /\ Len(level) \in Nat /\ Len(judged) <= Len(level)
    BY Numbers DEF TypeInv, PlaceInv
  <2>2. ASSUME NEW l \in Levels, SourceSends(l)
        PROVE  \A k \in 1..Len(judged) : judged'[k] = judged[k] /\ level'[k] = level[k]
    BY <2>1, <2>2, SentFrame
  <2>3. CASE Process
    BY <2>3, JudgedFrame
  <2>4. CASE OnEdge \/ GateSends \/ (\E a \in Admins : OnSettings(a)) \/ UNCHANGED core
    BY <2>4, ToldEdge, ToldSettings, GivenFrame DEF core
  <2> QED
    BY <2>2, <2>3, <2>4, CoreSteps
<1>2. /\ \A j \in 1..n : j \in 1..Len(judged)
      /\ \A j \in 1..n : \A k \in j + 1 .. n : k \in 1..Len(judged)
  BY Numbers
<1>3. \A j \in 1..n : Loud(j, judged[j])' <=> Loud(j, judged[j])
  BY <1>1, <1>2 DEF Loud
<1>4. ToPass(n)' <=> \E j \in 1..n : /\ Loud(j, judged[j])'
                                     /\ \A k \in j + 1 .. n : ~Loud(k, judged[k])'
                                                              => k - j < judged'[k].release
  BY DEF ToPass
<1>5. \A j \in 1..n : \A k \in j + 1 .. n : k \in 1..n
  BY Numbers
<1> QED
  BY <1>1, <1>2, <1>3, <1>4, <1>5 DEF ToPass

LEMMA MatchStep ==
  TypeInv /\ HoldInv /\ SoundInv /\ MatchInv /\ [Next]_vars => MatchInv'
<1> SUFFICES ASSUME TypeInv, HoldInv, SoundInv, MatchInv, [Next]_vars
             PROVE  MatchInv'
  OBVIOUS
<1>0. /\ Len(judged) \in Nat /\ Len(received) \in Nat /\ Len(level) \in Nat
      /\ Len(received) <= Len(judged) /\ Len(judged) <= Len(level)
  BY Numbers DEF TypeInv, PlaceInv
<1>1. \A i \in 1..Len(received) :
        /\ i \in 1..Len(judged) /\ received[i].n = i
        /\ received[i].open <=> ToPass(i)'
        /\ received[i].sound = IF received[i].open THEN level'[i] ELSE 0
  <2> SUFFICES ASSUME NEW i \in 1..Len(received)
               PROVE  /\ i \in 1..Len(judged) /\ received[i].n = i
                      /\ received[i].open <=> ToPass(i)'
                      /\ received[i].sound = IF received[i].open THEN level'[i] ELSE 0
    OBVIOUS
  <2>1. i \in 1..Len(judged) /\ i \in 1..Len(level)
    BY <1>0
  <2>2. received[i].n = i /\ (received[i].open <=> ToPass(i))
        /\ received[i].sound = IF received[i].open THEN level[i] ELSE 0
    BY DEF MatchInv
  <2>3. ToPass(i)' <=> ToPass(i)
    BY <2>1, ToPassStays
  <2>4. level'[i] = level[i]
    <3>1. CASE UNCHANGED level
      BY <3>1
    <3>2. ASSUME NEW l \in Levels, SourceSends(l)
          PROVE  level'[i] = level[i]
      BY <2>1, <3>2, SentFrame
    <3> QED
      BY <3>1, <3>2, CoreSteps, JudgedFrame, ToldEdge, ToldSettings, GivenFrame DEF core
  <2> QED
    BY <2>1, <2>2, <2>3, <2>4
<1>2. CASE UNCHANGED received
  BY <1>1, <1>2 DEF MatchInv
<1>3. CASE GateSends
  <2>0. PICK n \in Nat : n = Len(judged)
    BY <1>0
  <2>1. /\ UNCHANGED <<level, judged, open>> /\ gate.n = n /\ n = Len(received) + 1
        /\ Len(received') = n
        /\ \A i \in 1..Len(received) : received'[i] = received[i]
        /\ received'[n] = [n |-> n, open |-> open, sound |-> IF open THEN pcm[n] ELSE 0]
    BY <1>3, <2>0, GivenFrame
  <2>2. \A i \in 1..Len(received') : i \in 1..Len(received) \/ i = n
    BY <1>0, <2>1
  <2>3. n \in 1..n /\ (open <=> ToPass(n)')
    <3>1. n \in 1..Len(judged)
      BY <1>0, <2>0, <2>1
    <3> QED
      BY <2>0, <3>1, OpenIsToPass, ToPassStays
  <2>4. /\ received'[n].n = n /\ (received'[n].open <=> ToPass(n)')
        /\ received'[n].sound = IF received'[n].open THEN level'[n] ELSE 0
    BY <2>1, <2>3 DEF SoundInv
  <2>5. \A i \in 1..Len(received') :
          /\ received'[i].n = i /\ (received'[i].open <=> ToPass(i)')
          /\ received'[i].sound = IF received'[i].open THEN level'[i] ELSE 0
    BY <1>1, <2>1, <2>2, <2>4
  <2> QED
    BY <2>5 DEF MatchInv
<1> QED
  BY <1>2, <1>3, CoreSteps, SentFrame, JudgedFrame, ToldEdge, ToldSettings DEF core

LEMMA MatchInit == Init => HoldInv /\ SoundInv /\ MatchInv
<1> SUFFICES ASSUME Init PROVE HoldInv /\ SoundInv /\ MatchInv
  OBVIOUS
<1>1. Len(judged) = 0 /\ Len(received) = 0 /\ pcm = level /\ lastAbove = 0 /\ open = FALSE
  BY DEF Init
<1> QED
  BY <1>1 DEF HoldInv, SoundInv, MatchInv

LEMMA MatchAlways == Spec => [](TypeInv /\ HoldInv /\ SoundInv /\ MatchInv)
BY TypeInit, TypeStep, MatchInit, HoldStep, SoundStep, MatchStep, PTL DEF Spec

(* The recognizer is given every frame once and in order: those that are to *)
(* pass under the settings that decided each, and silence for the others.   *)
THEOREM GateIsItsReference == Spec => []GateMatchesReference
<1>1. MatchInv => GateMatchesReference
  BY DEF MatchInv, GateMatchesReference
<1> QED
  BY <1>1, MatchAlways, PTL
-----------------------------------------------------------------------------
LEMMA QueueInit == Init => QueueInv
<1> SUFFICES ASSUME Init PROVE QueueInv
  OBVIOUS
<1>1. Len(queue) = 0 /\ Len(level) = 0 /\ playing = 0 /\ tap.at # "tap" /\ speaker # "writing"
  BY DEF Init, NoFrame, Hand, Ended
<1> QED
  BY <1>1 DEF QueueInv

LEMMA QueueStep == TypeInv /\ QueueInv /\ [Next]_vars => QueueInv'
<1> SUFFICES ASSUME TypeInv, QueueInv, [Next]_vars
             PROVE  QueueInv'
  OBVIOUS
<1>0. /\ Len(level) \in Nat /\ Len(queue) \in Nat /\ tap.n \in Nat /\ playing \in Nat
      /\ \A i \in 1..Len(queue) : queue[i] \in Nat
  <2>1. \A i \in 1..Len(queue) : queue[i] \in 1..MaxFrames
    BY ElementOfSeq DEF TypeInv, SpeakerType
  <2> QED
    BY <2>1, Numbers DEF TypeInv, SpeakerType
<1>1. CASE UNCHANGED <<level, tap, queue, playing, speaker>>
  BY <1>1 DEF QueueInv
<1>2. ASSUME NEW l \in Levels, SourceSends(l)
      PROVE  QueueInv'
  <2>1. Len(level') = Len(level) + 1 /\ UNCHANGED <<queue, playing, speaker>>
    BY <1>2, SentFrame DEF SourceSends, speakerVars
  <2>2. tap' = tap \/ tap'.n = Len(level')
    BY <1>2 DEF SourceSends, Hand
  <2>3. \A i \in 1..Len(queue) : queue[i] < Len(level')
    BY <1>0, <2>1 DEF QueueInv
  <2>4. playing < Len(level')
    BY <1>0, <2>1 DEF QueueInv
  <2> QED
    BY <1>0, <2>1, <2>2, <2>3, <2>4 DEF QueueInv
<1>3. CASE Tap
  <2>1. /\ tap.at = "tap" /\ tap.n = Len(level) /\ tap'.at = "send"
        /\ UNCHANGED <<level, playing, speaker>>
    BY <1>3 DEF Tap, Hand, sourceVars, TypeInv, PlaceInv
  <2>2. CASE UNCHANGED queue
    BY <2>1, <2>2 DEF QueueInv
  <2>3. CASE queue' = Append(queue, tap.n)
    <3>1. queue \in Seq(Nat) /\ tap.n \in Nat
      <4>1. 1..MaxFrames \subseteq Nat /\ queue \in Seq(1..MaxFrames)
        BY DEF TypeInv, SpeakerType
      <4> QED
        BY <1>0, <4>1, SeqMonotonic
    <3>2. /\ 1..Len(queue') = 1..Len(queue) \cup {Len(queue) + 1}
          /\ \A i \in 1..Len(queue) : queue'[i] = queue[i]
          /\ queue'[Len(queue) + 1] = tap.n
      BY <2>3, <3>1, Appended
    <3>3. \A i \in 1..Len(queue) : queue[i] < tap.n /\ playing < queue[i] /\ queue[i] <= Len(level)
      BY <2>1 DEF QueueInv
    <3>4. ASSUME NEW i \in 1..Len(queue')
          PROVE  /\ playing < queue'[i] /\ queue'[i] <= Len(level)
                 /\ \A j \in 1..Len(queue') : i < j => queue'[i] < queue'[j]
      <4>1. CASE i \in 1..Len(queue)
        BY <3>2, <3>3, <4>1 DEF QueueInv
      <4>2. CASE i = Len(queue) + 1
        <5>1. playing < tap.n
          BY <2>1 DEF QueueInv
        <5>2. \A j \in 1..Len(queue') : ~(i < j)
          BY <1>0, <3>2, <4>2
        <5> QED
          BY <1>0, <2>1, <3>2, <4>2, <5>1, <5>2
      <4> QED
        BY <3>2, <4>1, <4>2
    <3> QED
      BY <2>1, <3>4 DEF QueueInv
  <2> QED
    BY <1>3, <2>2, <2>3 DEF Tap
<1>4. CASE MonitorForwards \/ MonitorStops
  <2>1. UNCHANGED <<level, queue, playing, speaker>> /\ tap'.at # "tap"
    BY <1>4 DEF MonitorForwards, MonitorStops, Hand, Ended, sourceVars, speakerVars
  <2> QED
    BY <2>1 DEF QueueInv
<1>5. CASE SpeakerTakes
  <2>1. /\ queue # <<>> /\ playing' = Head(queue) /\ queue' = Tail(queue)
        /\ UNCHANGED <<level, tap>>
    BY <1>5 DEF SpeakerTakes, sourceVars
  <2>2. /\ Len(queue') = Len(queue) - 1
        /\ \A i \in 1..Len(queue') : queue'[i] = queue[i + 1]
    BY <2>1, HeadTailProperties DEF TypeInv, SpeakerType
  <2>3. /\ Len(queue) >= 1 /\ playing' = queue[1]
    BY <1>0, <2>1, EmptySeq DEF TypeInv, SpeakerType
  <2>4. /\ 1 \in 1..Len(queue)
        /\ \A i \in 1..Len(queue') : i \in Nat /\ i + 1 \in 1..Len(queue) /\ 1 < i + 1
    BY <1>0, <2>2, <2>3
  <2>5. playing' >= 1 /\ playing' <= Len(level) /\ (tap.at = "tap" => playing' < tap.n)
    BY <1>0, <2>3, <2>4 DEF QueueInv
  <2>6. ASSUME NEW i \in 1..Len(queue')
        PROVE  /\ playing' < queue'[i] /\ queue'[i] <= Len(level)
               /\ tap.at = "tap" => queue'[i] < tap.n
               /\ \A j \in 1..Len(queue') : i < j => queue'[i] < queue'[j]
    <3>1. \A j \in 1..Len(queue') : i < j => i + 1 < j + 1 /\ queue'[j] = queue[j + 1]
      BY <2>2, <2>4
    <3> QED
      BY <2>2, <2>3, <2>4, <3>1 DEF QueueInv
  <2> QED
    BY <2>1, <2>5, <2>6 DEF QueueInv
<1>6. CASE SpeakerWrites \/ SpeakerStops
  <2>1. UNCHANGED <<level, tap, queue, playing>> /\ speaker' # "writing"
    BY <1>6 DEF SpeakerWrites, SpeakerStops, sourceVars
  <2> QED
    BY <2>1 DEF QueueInv
<1>7. CASE SourceEnds \/ Cancel \/ EngineEnds \/ MonitorClose
  BY <1>1, <1>7 DEF SourceEnds, Cancel, EngineEnds, MonitorClose, speakerVars, sourceVars
<1>8. CASE Process \/ OnEdge \/ GateSends \/ GateStops
  BY <1>1, <1>8 DEF Process, Decide, OnEdge, GateSends, GateStops, speakerVars, sourceVars
<1>9. ASSUME NEW a \in Admins, NEW s \in Settings, Set(a, s) \/ OnSettings(a)
      PROVE  QueueInv'
  BY <1>1, <1>9 DEF Set, OnSettings, speakerVars, sourceVars
<1>10. CASE UNCHANGED vars
  BY <1>1, <1>10 DEF vars, speakerVars, sourceVars
<1> QED
  BY <1>2, <1>3, <1>4, <1>5, <1>6, <1>7, <1>8, <1>9, <1>10, SettingsAssumption DEF Next

(* The monitor plays the original sound, in order and no frame twice,        *)
(* although the gate may have silenced the frame while it waited.           *)
THEOREM MonitorPlaysOriginal == Spec => []MonitorHearsOriginal
<1>1. TypeInv /\ QueueInv /\ SoundInv => MonitorHearsOriginal
  <2> SUFFICES ASSUME TypeInv, QueueInv, SoundInv, NEW i \in 1..Len(queue)
               PROVE  queue[i] > (IF i = 1 THEN playing ELSE queue[i - 1])
    BY DEF MonitorHearsOriginal, SoundInv
  <2>1. \A k \in 1..Len(queue) : queue[k] \in 1..MaxFrames
    BY ElementOfSeq DEF TypeInv, SpeakerType
  <2>2. Len(queue) \in Nat /\ MaxFrames \in Nat /\ playing \in 0..MaxFrames
    BY Numbers DEF TypeInv, SpeakerType
  <2>3. CASE i = 1
    BY <2>1, <2>2, <2>3 DEF QueueInv
  <2>4. CASE i # 1
    <3>1. i - 1 \in 1..Len(queue) /\ i - 1 < i
      BY <2>2, <2>4
    <3>2. queue[i - 1] < queue[i]
      BY <3>1 DEF QueueInv
    <3> QED
      BY <2>1, <2>2, <2>4, <3>1, <3>2
  <2> QED
    BY <2>3, <2>4
<1> QED
  BY <1>1, QueueInit, QueueStep, MatchAlways, PTL DEF Spec
-----------------------------------------------------------------------------
LEMMA AuditInit == Init => AuditInv /\ TellsInv
<1> SUFFICES ASSUME Init PROVE AuditInv /\ TellsInv
  OBVIOUS
<1>1. Len(audit) = 0 /\ Len(received) = 0 /\ open = FALSE /\ gate.at # "edge"
  BY DEF Init, Hand
<1>2. Edges = {}
  BY <1>1 DEF Edges
<1> QED
  BY <1>1, <1>2 DEF AuditInv, TellsInv, LastOpens

(* A record of another kind moves no edge; a new edge comes after the rest. *)
LEMMA EdgesOnSettings ==
  ASSUME TypeInv, NEW a \in Admins, OnSettings(a)
  PROVE  /\ Edges' = Edges /\ \A k \in Edges : audit'[k] = audit[k]
<1>1. /\ Len(audit') = Len(audit) + 1 /\ \A i \in 1..Len(audit) : audit'[i] = audit[i]
      /\ audit'[Len(audit) + 1].kind = "config"
  BY ToldSettings
<1>2. 1..Len(audit') = 1..Len(audit) \cup {Len(audit) + 1}
  BY <1>1, Numbers
<1> QED
  BY <1>1, <1>2 DEF Edges

LEMMA EdgesOnEdge ==
  ASSUME TypeInv, OnEdge
  PROVE  \E last \in Nat :
           /\ Edges' = Edges \cup {last} /\ \A k \in Edges : audit'[k] = audit[k] /\ k < last
           /\ audit'[last].open = open /\ audit'[last].time = gate.n
<1>1. /\ Len(audit') = Len(audit) + 1 /\ \A i \in 1..Len(audit) : audit'[i] = audit[i]
      /\ audit'[Len(audit) + 1] = EdgeRecord(open, gate.n, judged[gate.n])
  BY ToldEdge
<1>2. PICK last \in Nat : last = Len(audit) + 1
  BY Numbers
<1>3. 1..Len(audit') = 1..Len(audit) \cup {last} /\ \A k \in 1..Len(audit) : k < last
  BY <1>1, <1>2, Numbers
<1>4. Edges' = {k \in 1..Len(audit') : audit'[k].kind = "edge"}
  BY DEF Edges
<1>5. audit'[last].kind = "edge" /\ audit'[last].open = open /\ audit'[last].time = gate.n
  BY <1>1, <1>2 DEF EdgeRecord
<1>6. Edges' = Edges \cup {last}
  BY <1>1, <1>3, <1>4, <1>5 DEF Edges
<1>7. \A k \in Edges : audit'[k] = audit[k] /\ k < last
  BY <1>1, <1>3 DEF Edges
<1> QED
  BY <1>5, <1>6, <1>7

LEMMA AuditStep == TypeInv /\ AuditInv /\ [Next]_vars => AuditInv'
<1> SUFFICES ASSUME TypeInv, AuditInv, [Next]_vars
             PROVE  AuditInv'
  OBVIOUS
<1>0. /\ Len(judged) \in Nat /\ gate.n \in Nat /\ open \in BOOLEAN
      /\ Edges \subseteq Nat /\ \A k \in Edges : audit[k].time \in Nat
  <2>1. Len(judged) \in Nat /\ gate.n \in Nat /\ Len(audit) \in Nat
    BY Numbers
  <2>2. open \in BOOLEAN
    BY DEF TypeInv, GateType
  <2>3. \A k \in Edges : audit[k] \in Records /\ audit[k].kind = "edge"
    BY ElementOfSeq DEF TypeInv, AdminType, Edges
  <2>4. \A k \in Edges : audit[k].time \in 1..MaxFrames
    BY <2>3 DEF Records
  <2> QED
    BY <2>1, <2>2, <2>4 DEF Edges
<1>1. CASE /\ UNCHANGED <<audit, judged, open>>
           /\ gate' = gate \/ (gate.at # "edge" /\ gate'.at # "edge")
  <2>1. Edges' = Edges
    BY <1>1 DEF Edges
  <2> QED
    BY <1>1, <2>1 DEF AuditInv, LastOpens
<1>2. CASE Process
  <2>1. /\ UNCHANGED audit /\ gate.n = Len(judged) + 1 /\ gate'.n = gate.n
        /\ Len(judged') = gate.n
    BY <1>2, JudgedFrame
  <2>2. Edges' = Edges /\ (LastOpens(Edges)' <=> LastOpens(Edges))
    BY <2>1 DEF Edges, LastOpens
  <2>3. \A k \in Edges : audit[k].time <= Len(judged') /\ audit[k].time < gate'.n
    BY <1>0, <2>1 DEF AuditInv
  <2>4. LastOpens(Edges) <=> open
    BY <1>2 DEF AuditInv, Process, Decide
  <2>5. LastOpens(Edges) <=> IF gate'.at = "edge" THEN ~open' ELSE open'
    <3>1. open' = StaysOpen /\ gate'.at = IF StaysOpen # open THEN "edge" ELSE "send"
      BY <1>2, JudgedFrame
    <3>2. StaysOpen \in BOOLEAN
      BY DEF StaysOpen, Loud
    <3> QED
      BY <1>0, <2>4, <3>1, <3>2
  <2> QED
    BY <2>1, <2>2, <2>3, <2>5 DEF AuditInv
<1>3. CASE OnEdge
  <2>1. PICK last \in Nat :
          /\ Edges' = Edges \cup {last} /\ \A k \in Edges : audit'[k] = audit[k] /\ k < last
          /\ audit'[last].open = open /\ audit'[last].time = gate.n
    BY <1>3, EdgesOnEdge
  <2>2. /\ gate.at = "edge" /\ gate'.at = "send" /\ gate.n = Len(judged)
        /\ UNCHANGED <<judged, open>>
    BY <1>3, ToldEdge
  <2>3. \A k \in Edges' : audit'[k].time <= Len(judged')
    BY <1>0, <2>1, <2>2 DEF AuditInv
  <2>4. \A j, k \in Edges' : j < k => audit'[j].time < audit'[k].time
    BY <1>0, <2>1, <2>2 DEF AuditInv
  <2>5. ASSUME NEW j \in Edges', NEW k \in Edges', j < k, Edges' \cap (j + 1 .. k - 1) = {}
        PROVE  audit'[j].open # audit'[k].open
    <3>1. j \in Edges
      BY <1>0, <2>1, <2>5
    <3>2. CASE k \in Edges
      BY <2>1, <2>5, <3>1, <3>2 DEF AuditInv
    <3>3. CASE k = last
      <4>1. \A m \in Edges : m <= j
        BY <1>0, <2>1, <2>5, <3>1, <3>3
      <4>2. LastOpens(Edges) <=> audit[j].open
        <5>1. ASSUME audit[j].open PROVE LastOpens(Edges)
          BY <3>1, <4>1, <5>1 DEF LastOpens
        <5>2. ASSUME LastOpens(Edges) PROVE audit[j].open
          <6>1. PICK m \in Edges : audit[m].open /\ \A i \in Edges : i <= m
            BY <5>2 DEF LastOpens
          <6>2. m = j
            BY <1>0, <3>1, <4>1, <6>1
          <6> QED
            BY <6>1, <6>2
        <5> QED
          BY <5>1, <5>2
      <4>3. LastOpens(Edges) <=> ~open
        BY <2>2 DEF AuditInv
      <4> QED
        BY <1>0, <2>1, <3>1, <3>3, <4>2, <4>3
    <3> QED
      BY <2>1, <3>2, <3>3
  <2>6. LastOpens(Edges)' <=> open
    <3>1. \A k \in Edges' : k <= last
      BY <1>0, <2>1
    <3>2. last \in Edges' /\ Edges' \subseteq Nat
      BY <1>0, <2>1
    <3>3. ASSUME open PROVE \E k \in Edges' : audit'[k].open /\ \A j \in Edges' : j <= k
      BY <2>1, <3>1, <3>2, <3>3
    <3>4. ASSUME NEW k \in Edges', audit'[k].open, \A j \in Edges' : j <= k
          PROVE  open
      <4>1. k = last
        BY <3>1, <3>2, <3>4
      <4> QED
        BY <2>1, <3>4, <4>1
    <3> QED
      BY <3>3, <3>4 DEF LastOpens
  <2> QED
    BY <2>2, <2>3, <2>4, <2>5, <2>6 DEF AuditInv
<1>4. ASSUME NEW a \in Admins, OnSettings(a)
      PROVE  AuditInv'
  <2>1. Edges' = Edges /\ \A k \in Edges : audit'[k] = audit[k]
    BY <1>4, EdgesOnSettings
  <2>2. UNCHANGED <<judged, open, gate>>
    BY <1>4, ToldSettings
  <2>3. LastOpens(Edges)' <=> LastOpens(Edges)
    BY <2>1 DEF LastOpens
  <2> QED
    BY <2>1, <2>2, <2>3 DEF AuditInv
<1>5. CASE GateSends
  BY <1>1, <1>5, GivenFrame
<1>6. ASSUME NEW l \in Levels, SourceSends(l)
      PROVE  AuditInv'
  BY <1>1, <1>6, SentFrame
<1> QED
  BY <1>1, <1>2, <1>3, <1>4, <1>5, <1>6, CoreSteps DEF core

LEMMA TellsStep == TypeInv /\ AuditInv /\ TellsInv /\ [Next]_vars => TellsInv'
<1> SUFFICES ASSUME TypeInv, AuditInv, TellsInv, [Next]_vars
             PROVE  TellsInv'
  OBVIOUS
<1>0. /\ Len(received) \in Nat /\ Len(judged) \in Nat
      /\ \A n : EdgesUpTo(n) = {k \in Edges : audit[k].time <= n}
      /\ \A n : EdgesUpTo(n)' = {k \in Edges' : audit'[k].time <= n}
  BY Numbers DEF EdgesUpTo, Edges
(* What the audit says of the frames that are given on does not change.     *)
<1>1. ASSUME NEW i \in 1..Len(received)
      PROVE  LastOpens(EdgesUpTo(i))' <=> LastOpens(EdgesUpTo(i))
  <2>1. CASE Edges' = Edges /\ \A k \in Edges : audit'[k] = audit[k]
    <3>1. EdgesUpTo(i)' = EdgesUpTo(i)
      BY <1>0, <2>1
    <3>2. \A k \in EdgesUpTo(i) : audit'[k] = audit[k]
      BY <1>0, <2>1
    <3> QED
      BY <3>1, <3>2 DEF LastOpens
  <2>2. CASE OnEdge
    <3>1. PICK last \in Nat :
            /\ Edges' = Edges \cup {last} /\ \A k \in Edges : audit'[k] = audit[k] /\ k < last
            /\ audit'[last].open = open /\ audit'[last].time = gate.n
      BY <2>2, EdgesOnEdge
    <3>2. ~(audit'[last].time <= i)
      BY <1>0, <2>2, <3>1, ToldEdge
    <3>3. EdgesUpTo(i)' = EdgesUpTo(i)
      BY <1>0, <3>1, <3>2
    <3>4. \A k \in EdgesUpTo(i) : audit'[k] = audit[k]
      BY <1>0, <3>1
    <3> QED
      BY <3>3, <3>4 DEF LastOpens
  <2>3. UNCHANGED audit => Edges' = Edges /\ \A k \in Edges : audit'[k] = audit[k]
    BY DEF Edges
  <2> QED
    BY <2>1, <2>2, <2>3, CoreSteps, SentFrame, JudgedFrame, GivenFrame, EdgesOnSettings DEF core
<1>2. CASE UNCHANGED received
  BY <1>1, <1>2 DEF TellsInv
<1>3. CASE GateSends
  <2>0. PICK n \in Nat : n = Len(judged)
    BY <1>0
  <2>1. /\ UNCHANGED <<open, audit, judged>> /\ n = Len(received) + 1 /\ gate.at = "send"
        /\ Len(received') = n
        /\ \A i \in 1..Len(received) : received'[i] = received[i]
        /\ received'[n].open = open
    BY <1>3, <2>0, GivenFrame
  <2>2. \A i \in 1..Len(received') : i \in 1..Len(received) \/ i = n
    BY <1>0, <2>1
  <2>3. EdgesUpTo(n)' = Edges /\ UNCHANGED audit
    <3>1. Edges' = Edges
      BY <2>1 DEF Edges
    <3> QED
      BY <1>0, <2>0, <2>1, <3>1 DEF AuditInv
  <2>4. LastOpens(EdgesUpTo(n))' <=> open
    BY <2>1, <2>3 DEF AuditInv, LastOpens
  <2> QED
    BY <1>1, <2>1, <2>2, <2>4 DEF TellsInv
<1> QED
  BY <1>2, <1>3, CoreSteps, SentFrame, JudgedFrame, ToldEdge, ToldSettings DEF core

(* From the audit alone one can tell, for every frame the recognizer was    *)
(* given, whether the gate was open.                                        *)
THEOREM AuditTellsTheGate == Spec => []AuditTellsGate
<1>1. TypeInv /\ MatchInv /\ AuditInv /\ TellsInv => AuditTellsGate
  <2> SUFFICES ASSUME TypeInv, MatchInv, AuditInv, TellsInv, NEW i \in 1..Len(received)
               PROVE  LET edges == EdgesUpTo(i)
                      IN  /\ \A j, k \in edges : j < k /\ edges \cap (j + 1 .. k - 1) = {}
                                                  => audit[j].open # audit[k].open
                          /\ received[i].open <=> \E k \in edges : /\ audit[k].open
                                                                  /\ \A j \in edges : j <= k
    BY DEF MatchInv, AuditTellsGate
  <2>1. EdgesUpTo(i) = {k \in Edges : audit[k].time <= i}
    BY DEF EdgesUpTo, Edges
  <2>2. received[i].open <=> \E k \in EdgesUpTo(i) : audit[k].open /\ \A j \in EdgesUpTo(i) : j <= k
    BY DEF TellsInv, LastOpens
  <2>3. ASSUME NEW j \in EdgesUpTo(i), NEW k \in EdgesUpTo(i),
               j < k, EdgesUpTo(i) \cap (j + 1 .. k - 1) = {}
        PROVE  audit[j].open # audit[k].open
    (* An edge between two of them would be of an earlier frame than the last. *)
    <3>1. ASSUME NEW m \in Edges \cap (j + 1 .. k - 1)
          PROVE  FALSE
      <4>1. m < k /\ m \in Nat /\ k \in Edges /\ audit[k].time <= i
        BY <2>1, Numbers DEF Edges
      <4>2. audit[m].time < audit[k].time
        BY <4>1 DEF AuditInv
      <4>3. audit[m] \in Records /\ audit[m].kind = "edge" /\ audit[k] \in Records /\ audit[k].kind = "edge"
        BY <4>1, ElementOfSeq DEF TypeInv, AdminType, Edges
      <4>4. audit[m].time \in 1..MaxFrames /\ audit[k].time \in 1..MaxFrames
        BY <4>3 DEF Records
      <4>5. audit[m].time \in Int /\ audit[k].time \in Int /\ i \in Int
        BY <4>4, Numbers
      <4>6. audit[m].time <= i
        BY <4>1, <4>2, <4>5
      <4> QED
        BY <2>1, <2>3, <3>1, <4>6
    <3> QED
      BY <2>1, <2>3, <3>1 DEF AuditInv
  <2> QED
    BY <2>2, <2>3
<1> QED
  BY <1>1, AuditInit, AuditStep, TellsStep, MatchAlways, PTL DEF Spec
=============================================================================
