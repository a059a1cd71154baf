--------------------------- MODULE FramePipeline ---------------------------
(***************************************************************************)
(* The way of a frame from the source to the recognizer: the playback       *)
(* monitor that taps it (internal/audio/monitor.go) and the noise gate that *)
(* silences it (internal/audio/noise_gate.go), each a goroutine between two *)
(* unbuffered channels; the speaker; the operators who change the gate's    *)
(* settings (handleNoiseGate); and the audit records of the gate.           *)
(*                                                                         *)
(* Frame n ends at time n.  Its level is its loudness, 0 for silence; its   *)
(* PCM is a reference, which the speaker and the gate may hold both.        *)
(***************************************************************************)
EXTENDS Integers, Sequences

CONSTANTS
  Levels,         (* loudness a frame may have                               *)
  Settings,       (* settings operators choose from                          *)
  Startup,        (* settings of the command line                            *)
  Admins,         (* requests that change the settings, one at a time each   *)
  MonitorBuffer,  (* capacity of Monitor.ch                                  *)
  MaxFrames,      (* bound of the model: frames of the source                *)
  MaxChanges      (* bound of the model: changes of the settings             *)

ASSUME LevelsAssumption == Levels \subseteq Nat
ASSUME SettingsAssumption ==
  /\ Settings \subseteq [threshold : Nat, release : Nat]
  /\ Startup \in Settings
ASSUME BoundsAssumption ==
  MonitorBuffer \in Nat \ {0} /\ MaxFrames \in Nat /\ MaxChanges \in Nat

VARIABLES
  monitored,  (* whether there is a monitor (replay --monitor)               *)
  level,      (* loudness of each frame of the source, as captured           *)
  pcm,        (* what the buffer of each frame holds now                     *)
  sourceUp, cancelled, engineUp,
  tap,        (* Monitor.Wrap: the frame in hand, and whether it is tapped   *)
  queue, closed, speaker, playing,   (* Monitor.ch; the frame taken last     *)
  settings, open, lastAbove,                   (* NoiseGate                  *)
  gate,       (* NoiseGate.Wrap: the frame in hand, and how far it is        *)
  admin,      (* settings stored by a request and not yet told to the audit  *)
  changes,    (* settings changed so far                                     *)
  audit,      (* the gate's records, in the order they are written           *)
  judged,     (* the settings that decided each frame                        *)
  received    (* the frames the recognizer's drain was given                 *)

sourceVars == <<monitored, level, sourceUp, cancelled, engineUp>>
speakerVars == <<queue, closed, speaker, playing>>
gateVars == <<open, lastAbove, judged>>
adminVars == <<settings, admin, changes>>
vars == <<sourceVars, pcm, tap, speakerVars, gateVars, gate, adminVars, audit,
          received>>
-----------------------------------------------------------------------------
NoFrame == 0
Ended == [n |-> NoFrame, at |-> "ended"]
Hand(n, at) == [n |-> n, at |-> at]

Config(s) == [kind |-> "config", settings |-> s]
EdgeRecord(o, n, s) == [kind |-> "edge", open |-> o, time |-> n, settings |-> s]

(* The first stage of the pipeline, ready for a frame from the source.      *)
Ready == IF monitored THEN tap.at = "idle" ELSE gate.at = "idle"

SourceSends(l) ==
  /\ sourceUp /\ Len(level) < MaxFrames
  /\ Ready
  /\ level' = Append(level, l)
  /\ pcm' = Append(pcm, l)
  /\ IF monitored
     THEN tap' = Hand(Len(level'), "tap") /\ UNCHANGED gate
     ELSE gate' = Hand(Len(level'), "process") /\ UNCHANGED tap
  /\ UNCHANGED <<monitored, sourceUp, cancelled, engineUp, speakerVars, gateVars,
                 adminVars, audit, received>>

(* The end of the file, or the source that follows the context.             *)
SourceEnds ==
  /\ sourceUp
  /\ sourceUp' = FALSE
  /\ UNCHANGED <<monitored, level, cancelled, engineUp, pcm, tap, speakerVars,
                 gateVars, gate, adminVars, audit, received>>

Cancel ==
  /\ ~cancelled
  /\ cancelled' = TRUE
  /\ UNCHANGED <<monitored, level, sourceUp, engineUp, pcm, tap, speakerVars,
                 gateVars, gate, adminVars, audit, received>>

(* The engine returns and shutdown begins; its drain goes on reading until  *)
(* the context or the frames end.                                           *)
EngineEnds ==
  /\ engineUp
  /\ engineUp' = FALSE
  /\ UNCHANGED <<monitored, level, sourceUp, cancelled, pcm, tap, speakerVars,
                 gateVars, gate, adminVars, audit, received>>
-----------------------------------------------------------------------------
(* Slip: a plain send, which waits for the speaker.                         *)
TapBlocking ==
  /\ tap.at = "tap"
  /\ closed \/ Len(queue) < MonitorBuffer
  /\ queue' = IF closed THEN queue ELSE Append(queue, tap.n)
  /\ tap' = Hand(tap.n, "send")
  /\ UNCHANGED <<sourceVars, pcm, closed, speaker, playing, gateVars,
                 gate, adminVars, audit, received>>

(* Tap: offers the frame to the speaker without waiting.                    *)
Tap ==
  /\ tap.at = "tap"
  /\ queue' = IF closed \/ Len(queue) >= MonitorBuffer THEN queue
              ELSE Append(queue, tap.n)
  /\ tap' = Hand(tap.n, "send")
  /\ UNCHANGED <<sourceVars, pcm, closed, speaker, playing, gateVars,
                 gate, adminVars, audit, received>>

MonitorForwards ==
  /\ tap.at = "send" /\ gate.at = "idle"
  /\ gate' = Hand(tap.n, "process")
  /\ tap' = Hand(NoFrame, "idle")
  /\ UNCHANGED <<sourceVars, pcm, speakerVars, gateVars, adminVars, audit,
                 received>>

MonitorStops ==
  /\ monitored
  /\ \/ tap.at = "send" /\ cancelled
     \/ tap.at = "idle" /\ ~sourceUp
  /\ tap' = Ended
  /\ UNCHANGED <<sourceVars, pcm, speakerVars, gateVars, gate, adminVars, audit,
                 received>>

(* Monitor.Close, the first thing shutdown does.                            *)
MonitorClose ==
  /\ monitored /\ ~engineUp /\ ~closed
  /\ closed' = TRUE
  /\ UNCHANGED <<sourceVars, pcm, tap, queue, speaker, playing, gateVars,
                 gate, adminVars, audit, received>>

(* The playback goroutine of Start takes a frame, and writes it some time   *)
(* later: a stalled sound card does not take it.                            *)
SpeakerTakes ==
  /\ speaker = "idle" /\ queue # <<>>
  /\ playing' = Head(queue)
  /\ queue' = Tail(queue)
  /\ speaker' = "writing"
  /\ UNCHANGED <<sourceVars, pcm, tap, closed, gateVars, gate, adminVars,
                 audit, received>>

SpeakerWrites ==
  /\ speaker = "writing"
  /\ speaker' = "idle"
  /\ UNCHANGED <<sourceVars, pcm, tap, queue, closed, playing, gateVars, gate,
                 adminVars, audit, received>>

(* A broken pipe, the context, or the closed and empty channel.             *)
SpeakerStops ==
  /\ monitored /\ speaker # "stopped"
  /\ \/ speaker = "writing"
     \/ speaker = "idle" /\ (cancelled \/ (closed /\ queue = <<>>))
  /\ speaker' = "stopped"
  /\ UNCHANGED <<sourceVars, pcm, tap, queue, closed, playing, gateVars, gate,
                 adminVars, audit, received>>
-----------------------------------------------------------------------------
Loud(n, s) == level[n] > s.threshold

(* process, under the gate's lock, given whether a transition is an edge to *)
(* be told and what becomes of the frame's buffer.                          *)
Decide(isOpen, isEdge, buffers) ==
  /\ gate.at = "process"
  /\ open' = isOpen
  /\ lastAbove' = IF Loud(gate.n, settings) THEN gate.n ELSE lastAbove
  /\ judged' = Append(judged, settings)
  /\ pcm' = buffers
  /\ gate' = Hand(gate.n, IF isEdge THEN "edge" ELSE "send")
  /\ UNCHANGED <<sourceVars, tap, speakerVars, adminVars, audit, received>>

StaysOpen ==
  \/ Loud(gate.n, settings)
  \/ open /\ gate.n - lastAbove < settings.release

(* Slips: silences the frame in place; tells of openings only; holds one    *)
(* frame longer than the release.                                           *)
ProcessInPlace ==
  Decide(StaysOpen, StaysOpen # open,
         IF StaysOpen THEN pcm ELSE [pcm EXCEPT ![gate.n] = 0])
ProcessTellsOpen == Decide(StaysOpen, StaysOpen /\ ~open, pcm)
ProcessOneLonger ==
  LET longer == Loud(gate.n, settings)
                \/ (open /\ gate.n - lastAbove <= settings.release)
  IN  Decide(longer, longer # open, pcm)

(* process: the original buffer is left alone.                              *)
Process == Decide(StaysOpen, StaysOpen # open, pcm)

(* OnEdge, called after the lock is released.                               *)
OnEdge ==
  /\ gate.at = "edge"
  /\ audit' = Append(audit, EdgeRecord(open, gate.n, judged[gate.n]))
  /\ gate' = Hand(gate.n, "send")
  /\ UNCHANGED <<sourceVars, pcm, tap, speakerVars, gateVars, adminVars, received>>

(* The frame goes on as it is, or as a fresh buffer of silence.             *)
GateSends ==
  /\ gate.at = "send"
  /\ received' = Append(received,
                        [n |-> gate.n, open |-> open,
                         sound |-> IF open THEN pcm[gate.n] ELSE 0])
  /\ gate' = Hand(NoFrame, "idle")
  /\ UNCHANGED <<sourceVars, pcm, tap, speakerVars, gateVars, adminVars, audit>>

InputEnded == IF monitored THEN tap.at = "ended" ELSE ~sourceUp

GateStops ==
  /\ \/ gate.at \in {"idle", "send"} /\ cancelled
     \/ gate.at = "idle" /\ InputEnded
  /\ gate' = Ended
  /\ UNCHANGED <<sourceVars, pcm, tap, speakerVars, gateVars, adminVars, audit,
                 received>>
-----------------------------------------------------------------------------
(* Set, up to the unlock.                                                   *)
Set(a, s) ==
  /\ admin[a] = <<>> /\ changes < MaxChanges
  /\ settings' = s
  /\ admin' = [admin EXCEPT ![a] = <<s>>]
  /\ changes' = changes + 1
  /\ UNCHANGED <<sourceVars, pcm, tap, speakerVars, gateVars, gate, audit,
                 received>>

(* Set, the call of OnSettings.                                             *)
OnSettings(a) ==
  /\ admin[a] # <<>>
  /\ audit' = Append(audit, Config(Head(admin[a])))
  /\ admin' = [admin EXCEPT ![a] = <<>>]
  /\ UNCHANGED <<sourceVars, pcm, tap, speakerVars, gateVars, gate, settings,
                 changes, received>>
-----------------------------------------------------------------------------
Init ==
  /\ monitored \in BOOLEAN
  /\ level = <<>> /\ pcm = <<>>
  /\ sourceUp = TRUE /\ cancelled = FALSE /\ engineUp = TRUE
  /\ tap = IF monitored THEN Hand(NoFrame, "idle") ELSE Ended
  /\ queue = <<>> /\ closed = FALSE /\ playing = NoFrame
  /\ speaker = IF monitored THEN "idle" ELSE "stopped"
  /\ settings = Startup /\ open = FALSE /\ lastAbove = 0
  /\ gate = Hand(NoFrame, "idle")
  /\ admin = [a \in Admins |-> <<>>] /\ changes = 0
  /\ audit = <<>> /\ judged = <<>> /\ received = <<>>

Next ==
  \/ \E l \in Levels : SourceSends(l)
  \/ SourceEnds
  \/ Cancel
  \/ EngineEnds
  \/ Tap
  \/ MonitorForwards
  \/ MonitorStops
  \/ MonitorClose
  \/ SpeakerTakes
  \/ SpeakerWrites
  \/ SpeakerStops
  \/ Process
  \/ OnEdge
  \/ GateSends
  \/ GateStops
  \/ \E a \in Admins, s \in Settings : Set(a, s)
  \/ \E a \in Admins : OnSettings(a)

Spec == Init /\ [][Next]_vars

(* The goroutines of the pipeline run, and the drain of the recognizer      *)
(* session reads.  Nothing is assumed of the speaker or of the operators.   *)
Fairness ==
  /\ WF_vars(Tap)
  /\ WF_vars(MonitorForwards)
  /\ WF_vars(Process)
  /\ WF_vars(OnEdge)
  /\ WF_vars(GateSends)

FairSpec == Spec /\ Fairness
-----------------------------------------------------------------------------
Stages == {"idle", "tap", "send", "process", "edge", "ended"}
Records ==
  [kind : {"config"}, settings : Settings]
  \cup [kind : {"edge"}, open : BOOLEAN, time : 1..MaxFrames, settings : Settings]

(* Every variable stays in the set of values the Go types allow.            *)
TypeOK ==
  /\ monitored \in BOOLEAN /\ sourceUp \in BOOLEAN
  /\ cancelled \in BOOLEAN /\ engineUp \in BOOLEAN /\ closed \in BOOLEAN
  /\ level \in Seq(Levels) /\ Len(level) <= MaxFrames
  /\ pcm \in Seq(Levels \cup {0}) /\ Len(pcm) = Len(level)
  /\ tap \in [n : 0..Len(level), at : Stages]
  /\ gate \in [n : 0..Len(level), at : Stages]
  /\ queue \in Seq(1..MaxFrames) /\ Len(queue) <= MonitorBuffer
  /\ speaker \in {"idle", "writing", "stopped"}
  /\ playing \in 0..MaxFrames
  /\ settings \in Settings /\ open \in BOOLEAN /\ lastAbove \in 0..MaxFrames
  /\ admin \in [Admins -> {<<>>} \cup {<<s>> : s \in Settings}]
  /\ changes \in 0..MaxChanges
  /\ audit \in Seq(Records) /\ judged \in Seq(Settings)
  /\ received \in Seq([n : 1..MaxFrames, open : BOOLEAN,
                       sound : Levels \cup {0}])

(* Whether frame n is to pass: it is loud, or some earlier frame was and    *)
(* none since has been quiet for the release in force when it was judged.   *)
ToPass(n) ==
  \E j \in 1..n : /\ Loud(j, judged[j])
                  /\ \A k \in j + 1 .. n : ~Loud(k, judged[k])
                                             => k - j < judged[k].release

(* The recognizer is given every frame once and in order: those that are to *)
(* pass, under the settings that decided each, with their own sound, and    *)
(* silence for the others (process, whatever operators change meanwhile).   *)
GateMatchesReference ==
  \A i \in 1..Len(received) :
    LET f == received[i]
    IN  /\ f.n = i
        /\ f.open <=> ToPass(f.n)
        /\ f.sound = IF f.open THEN level[f.n] ELSE 0

(* Where the audit has an edge of a frame up to n.                           *)
EdgesUpTo(n) ==
  {k \in 1..Len(audit) : audit[k].kind = "edge" /\ audit[k].time <= n}

(* From the audit alone one can tell, for every frame the recognizer was    *)
(* given, whether the gate was open: the edges alternate, and the last one  *)
(* up to the frame says it (OnEdge before the frame goes on).               *)
AuditTellsGate ==
  \A i \in 1..Len(received) :
    LET edges == EdgesUpTo(received[i].n)
    IN  /\ \A j, k \in edges : j < k /\ edges \cap (j + 1 .. k - 1) = {}
                                => audit[j].open # audit[k].open
        /\ received[i].open <=> \E k \in edges : /\ audit[k].open
                                                /\ \A j \in edges : j <= k

(* The monitor plays the original sound, in order and no frame twice,        *)
(* although the gate may have silenced the frame while it waited for the    *)
(* speaker (the comment on NoiseGate; Tap, Start).                          *)
MonitorHearsOriginal ==
  /\ speaker = "writing" => pcm[playing] = level[playing]
  /\ \A i \in 1..Len(queue) :
       /\ pcm[queue[i]] = level[queue[i]]
       /\ queue[i] > (IF i = 1 THEN playing ELSE queue[i - 1])

(* However long the speaker stalls, every frame the source handed over      *)
(* reaches the recognizer's drain, unless the session is cancelled (Tap     *)
(* never waits; Wrap of the monitor and of the gate).                       *)
FramesReachEngine ==
  Len(received) < Len(level)
    ~> Len(received) = Len(level) \/ cancelled

(* noise_gate.go:66 and audit.go:211 say that a change of the settings is   *)
(* recorded before any frame is judged, and any edge decided, by it.        *)
SettingsToldFirst ==
  \A i \in 1..Len(audit) :
    audit[i].kind = "edge" /\ audit[i].settings # Startup
      => \E j \in 1..i - 1 : audit[j] = Config(audit[i].settings)
=============================================================================
