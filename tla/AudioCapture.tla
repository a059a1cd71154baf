---------------------------- MODULE AudioCapture ----------------------------
(***************************************************************************)
(* Where the audio comes from and how a session ends: the source            *)
(* (internal/audio/device.go and file.go) that runs ffmpeg (ffmpeg.go) and  *)
(* restarts it, the second output of the same ffmpeg that is fanned out to   *)
(* listeners over HTTP (broadcast.go, handleAudio of web/server.go), and the *)
(* shutdown of the session (shutdown of cli/run.go) that takes both down.    *)
(*                                                                         *)
(* Audio is counted in halves of a chunk, so that the last read of a process *)
(* can come up short.  ffmpeg is external: it writes PCM and MP3 in turn to  *)
(* two pipes, blocks on a full one, and sees a signal when it does not.      *)
(* What takes the frames always does (FramePipeline, RecognizerSession).     *)
(***************************************************************************)
EXTENDS Integers, FiniteSets, Sequences

CONSTANTS
  Kinds,      (* of sources: "device", "file" or "blocked" by BlockedReason  *)
  Listeners,  (* HTTP clients of the audio stream                            *)
  PipeCap,    (* what the pipe of the PCM holds                              *)
  AuxCap,     (* what the pipe of the MP3 holds                              *)
  Backlog,    (* audioBacklog                                                *)
  MaxProcs,   (* bound of the model: processes launched                      *)
  MaxUnits    (* bound of the model: halves of a chunk decoded               *)

ASSUME CaptureSizes ==
  /\ Kinds \subseteq {"device", "file", "blocked"}
  /\ IsFiniteSet(Listeners)
  /\ {PipeCap, AuxCap, Backlog} \subseteq Nat \ {0}
  /\ {MaxProcs, MaxUnits} \subseteq Nat

VARIABLES
  kind,
  cancelled,  (* ctx is done                                                 *)
  (* the goroutine of Start *)
  loop,       (* where it is                                                 *)
  hand,       (* the frame in hand: its length, whether the read failed      *)
  capturing, offset,
  sourceState,(* Metrics.sourceState                                         *)
  sent,       (* the last frame sent: its length and Offset, its end         *)
  (* the ffmpeg process it runs *)
  procs,      (* how many were launched                                      *)
  proc,       (* "none", "running" or "exited"                               *)
  held,       (* s.proc: the process Close would close, 0 for nil            *)
  signalled, drained, turn, pipe, aux,
  produced,   (* halves of a chunk decoded                                   *)
  (* Broadcaster *)
  runs,       (* per process, its Run: "none", "read" or "done"              *)
  subs, closed,
  queue,      (* per listener, the length of its channel                     *)
  chan,       (* per listener: "none", "open" or "closed"                    *)
  panicked,   (* a closed channel was sent to or closed                      *)
  listener,   (* per listener, handleAudio: "none", "wait", "write", "gone"  *)
  (* the session *)
  main,       (* how far run and shutdown are                                *)
  awaited,    (* the process Source.Close waits for                          *)
  reaped,     (* the last process whose cmd.Wait returned, 0 for none        *)
  late        (* audit records after session_end                             *)

loopVars == <<loop, hand, capturing, offset, sourceState, sent>>
procVars == <<procs, proc, held, signalled, drained, turn, pipe, aux, produced>>
castVars == <<runs, subs, closed, queue, chan, panicked, listener>>
mainVars == <<main, awaited, reaped>>
vars == <<kind, cancelled, loopVars, procVars, castVars, mainVars, late>>

Empty == [n |-> 0, ended |-> FALSE]

(* Writer.StateEvent, DropEvent and LogRecord write whenever they are called*)
Recorded(records) == late' = IF main = "ended" THEN late \cup records ELSE late
-----------------------------------------------------------------------------
(* The source.                                                              *)

(* captureOnce and playOnce: startFFmpeg, and Stream.Run in a goroutine.    *)
LaunchAt(from) ==
  /\ loop = "launch" /\ ~cancelled
  /\ procs < MaxProcs
  /\ procs' = procs + 1
  /\ proc' = "running" /\ signalled' = FALSE /\ drained' = FALSE
  /\ turn' = "pcm" /\ pipe' = 0 /\ aux' = 0
  /\ runs' = [runs EXCEPT ![procs + 1] = "read"]
  /\ held' = procs + 1
  /\ capturing' = FALSE
  /\ offset' = from
  /\ loop' = "read"
  /\ UNCHANGED <<kind, cancelled, hand, sourceState, sent, produced, subs,
                 closed, queue, chan, panicked, listener, mainVars, late>>

(* Slip: media time starts over with the process.                           *)
LaunchFromZero == LaunchAt(0)

Launch == LaunchAt(offset)

(* Start's loop after a process: a cancelled session and a file are over, a *)
(* device is tried again.                                                   *)
AfterProcess == IF cancelled \/ kind = "file" THEN "over" ELSE "announce"

LaunchFails ==
  /\ loop = "launch" /\ ~cancelled
  /\ procs < MaxProcs
  /\ procs' = procs + 1
  /\ loop' = AfterProcess
  /\ UNCHANGED <<kind, cancelled, hand, capturing, offset, sourceState, sent,
                 proc, held, signalled, drained, turn, pipe, aux, produced, castVars,
                 mainVars, late>>

SetSourceState(state) ==
  /\ sourceState' = state
  /\ Recorded(IF state # sourceState THEN {state} ELSE {})

(* io.ReadFull: a whole chunk, what is left at the end of the file, or the  *)
(* end itself.  The first audio of a process makes a device available.      *)
Read ==
  /\ loop = "read"
  /\ pipe >= 2 \/ proc = "exited"
  /\ LET n == IF pipe >= 2 THEN 2 ELSE pipe
     IN  /\ hand' = [n |-> n, ended |-> n < 2]
         /\ pipe' = pipe - n
         /\ offset' = offset + n
         /\ loop' = IF n > 0 THEN "deliver" ELSE "close"
         /\ capturing' = (capturing \/ n > 0)
         /\ IF kind = "device" /\ n > 0 /\ ~capturing THEN SetSourceState("capturing")
            ELSE UNCHANGED <<sourceState, late>>
  /\ UNCHANGED <<kind, cancelled, sent, procs, proc, held, signalled, drained,
                 turn, aux, produced, castVars, mainVars>>

(* out <- frame, or ctx.Done().                                             *)
Deliver ==
  /\ loop = "deliver"
  /\ \/ /\ sent' = [n |-> hand.n, offset |-> offset]
        /\ loop' = IF hand.ended THEN "close" ELSE "read"
     \/ /\ cancelled
        /\ loop' = "close"
        /\ UNCHANGED sent
  /\ hand' = Empty
  /\ UNCHANGED <<kind, cancelled, capturing, offset, sourceState, procVars,
                 castVars, mainVars, late>>

(* proc.Close, called by the loop's defer and by Source.Close: it signals,   *)
(* drains both pipes, and calls cmd.Wait.                                   *)
CloseProc ==
  /\ signalled' = TRUE
  /\ drained' = TRUE
  /\ UNCHANGED <<procs, proc, held, turn, pipe, aux, produced>>

(* cmd.Wait of process i.  Of two goroutines that are in it at once, one    *)
(* takes the only result the command's context gives, and the other waits   *)
(* for another for ever; called after that, it returns at once.             *)
WaitReturns(i) ==
  /\ i # reaped /\ proc = "exited"
  /\ reaped' = i

LoopCloses ==
  /\ loop = "close"
  /\ CloseProc
  /\ loop' = IF reaped = procs THEN AfterProcess ELSE "wait"
  /\ UNCHANGED <<kind, cancelled, hand, capturing, offset, sourceState, sent,
                 castVars, mainVars, late>>

LoopWaited ==
  /\ loop = "wait"
  /\ WaitReturns(procs)
  /\ loop' = AfterProcess
  /\ UNCHANGED <<kind, cancelled, hand, capturing, offset, sourceState, sent,
                 procVars, castVars, main, awaited, late>>

(* OnAvailability, the warning in the log and OnRestart.                    *)
Announce ==
  /\ loop = "announce"
  /\ sourceState' = "unavailable"
  /\ Recorded({"unavailable", "log", "restart"})
  /\ loop' = "sleep"
  /\ UNCHANGED <<kind, cancelled, hand, capturing, offset, sent, procVars,
                 castVars, mainVars>>

(* The backoff is over; how long it was makes no difference here.           *)
Sleep ==
  /\ loop = "sleep"
  /\ loop' = "launch"
  /\ UNCHANGED <<kind, cancelled, hand, capturing, offset, sourceState, sent, procVars,
                 castVars, mainVars, late>>

(* The sleep is cut short, the loop's condition fails, or a device that is  *)
(* not there was only waiting for the end: close(out).                      *)
LoopEnds ==
  /\ loop \in {"launch", "sleep", "blocked"} /\ cancelled
  /\ loop' = "over"
  /\ UNCHANGED <<kind, cancelled, hand, capturing, offset, sourceState, sent,
                 procVars, castVars, mainVars, late>>
-----------------------------------------------------------------------------
(* ffmpeg.                                                                  *)

Writes ==
  /\ proc = "running"
  /\ \/ /\ turn = "pcm" /\ produced < MaxUnits /\ ~signalled
        /\ pipe < PipeCap
        /\ pipe' = pipe + 1
        /\ produced' = produced + 1
        /\ turn' = "mp3"
        /\ UNCHANGED aux
     \/ /\ turn = "mp3"
        /\ aux < AuxCap
        /\ aux' = aux + 1
        /\ turn' = "pcm"
        /\ UNCHANGED <<pipe, produced>>
  /\ UNCHANGED <<kind, cancelled, loopVars, procs, proc, held, signalled, drained,
                 castVars, mainVars, late>>

Exit ==
  /\ proc = "running"
  /\ proc' = "exited"
  /\ UNCHANGED <<kind, cancelled, loopVars, procs, held, signalled, drained, turn, pipe,
                 aux, produced, castVars, mainVars, late>>

(* It sees a signal between two writes.                                     *)
ExitsWhenAsked == signalled /\ turn = "pcm" /\ Exit

(* The file is decoded.                                                     *)
FileEnds == kind = "file" /\ turn = "pcm" /\ produced = MaxUnits /\ Exit

(* The device goes away.                                                    *)
DeviceGoes == kind = "device" /\ turn = "pcm" /\ procs < MaxProcs /\ Exit

(* cmd.Cancel, and WaitDelay after it.                                      *)
CancelSignals ==
  /\ cancelled /\ proc = "running" /\ ~signalled
  /\ signalled' = TRUE
  /\ UNCHANGED <<kind, cancelled, loopVars, procs, proc, held, drained, turn, pipe, aux,
                 produced, castVars, mainVars, late>>

WaitDelayKills == cancelled /\ signalled /\ Exit

(* The io.Copy of Close on both pipes.                                      *)
Drains ==
  /\ drained
  /\ pipe + aux > 0
  /\ pipe' = 0 /\ aux' = 0
  /\ UNCHANGED <<kind, cancelled, loopVars, procs, proc, held, signalled, drained, turn,
                 produced, castVars, mainVars, late>>
-----------------------------------------------------------------------------
(* Broadcaster and its listeners.                                           *)

(* publish: to every channel that has room; another one misses the chunk.   *)
Publish ==
  /\ queue' = [l \in Listeners |-> IF l \in subs /\ queue[l] < Backlog THEN queue[l] + 1
                                   ELSE queue[l]]
  /\ panicked' = (panicked \/ \E l \in subs : chan[l] = "closed")

(* Slip: waits for room.                                                    *)
RunReadsWaiting(i) ==
  /\ runs[i] = "read"
  /\ i = procs /\ aux > 0
  /\ \A l \in subs : queue[l] < Backlog
  /\ aux' = aux - 1
  /\ Publish
  /\ runs' = [runs EXCEPT ![i] = IF cancelled THEN "done" ELSE "read"]
  /\ UNCHANGED <<kind, cancelled, loopVars, procs, proc, held, signalled, drained, turn,
                 pipe, produced, subs, closed, chan, listener, mainVars, late>>

(* Run: a read is published; it returns when the session is cancelled.      *)
RunReads(i) ==
  /\ runs[i] = "read"
  /\ i = procs /\ aux > 0
  /\ aux' = aux - 1
  /\ Publish
  /\ runs' = [runs EXCEPT ![i] = IF cancelled THEN "done" ELSE "read"]
  /\ UNCHANGED <<kind, cancelled, loopVars, procs, proc, held, signalled, drained, turn,
                 pipe, produced, subs, closed, chan, listener, mainVars, late>>

(* The end of the stream, which an older process has reached for sure.      *)
RunEnds(i) ==
  /\ runs[i] = "read"
  /\ i < procs \/ (proc = "exited" /\ aux = 0)
  /\ runs' = [runs EXCEPT ![i] = "done"]
  /\ UNCHANGED <<kind, cancelled, loopVars, procVars, subs, closed, queue, chan, panicked,
                 listener, mainVars, late>>

CloseChannel(l) ==
  /\ chan' = [chan EXCEPT ![l] = "closed"]
  /\ panicked' = (panicked \/ chan[l] = "closed")

(* handleAudio: a Broadcaster that is closed hands out a closed channel.    *)
Subscribe(l) ==
  /\ listener[l] = "none" /\ main # "over"
  /\ listener' = [listener EXCEPT ![l] = "wait"]
  /\ chan' = [chan EXCEPT ![l] = IF closed THEN "closed" ELSE "open"]
  /\ subs' = IF closed THEN subs ELSE subs \cup {l}
  /\ UNCHANGED <<kind, cancelled, loopVars, procVars, runs, closed, queue, panicked, mainVars, late>>

(* A chunk leaves the channel and is written to the client, which may take  *)
(* its time.                                                                *)
Receive(l) ==
  /\ listener[l] = "wait" /\ queue[l] > 0
  /\ queue' = [queue EXCEPT ![l] = @ - 1]
  /\ listener' = [listener EXCEPT ![l] = "write"]
  /\ UNCHANGED <<kind, cancelled, loopVars, procVars, runs, subs, closed, chan, panicked, mainVars, late>>

Written(l) ==
  /\ listener[l] = "write"
  /\ listener' = [listener EXCEPT ![l] = "wait"]
  /\ UNCHANGED <<kind, cancelled, loopVars, procVars, runs, subs, closed, queue, chan,
                 panicked, mainVars, late>>

(* The client goes, asked only for the head, or the channel was closed; the *)
(* unsubscribe closes the channel only if it is still in the map.           *)
Unsubscribe(l) ==
  IF l \in subs THEN subs' = subs \ {l} /\ CloseChannel(l)
  ELSE UNCHANGED <<subs, chan, panicked>>

Leaves(l) ==
  /\ listener' = [listener EXCEPT ![l] = "gone"]
  /\ Unsubscribe(l)
  /\ UNCHANGED <<kind, cancelled, loopVars, procVars, runs, closed, queue, mainVars, late>>

ClientLeaves(l) == listener[l] \in {"wait", "write"} /\ Leaves(l)
SeesClosed(l) == listener[l] = "wait" /\ queue[l] = 0 /\ chan[l] = "closed" /\ Leaves(l)
-----------------------------------------------------------------------------
(* The session.                                                             *)
Cancel ==
  /\ ~cancelled
  /\ cancelled' = TRUE
  /\ UNCHANGED <<kind, loopVars, procVars, castVars, mainVars, late>>

(* The engine returns: cancelled, out of frames, or by a PermanentError     *)
(* that leaves ctx alone.  The hub is flushed and shutdown begins.          *)
EngineEnds ==
  /\ main = "run"
  /\ main' = "audio"
  /\ UNCHANGED <<kind, cancelled, loopVars, procVars, castVars, awaited, reaped, late>>

(* Broadcaster.Close.                                                       *)
CloseSubs(left) ==
  /\ main = "audio"
  /\ closed' = TRUE
  /\ subs' = left
  /\ chan' = [l \in Listeners |-> IF l \in subs THEN "closed" ELSE chan[l]]
  /\ panicked' = (panicked \/ \E l \in subs : chan[l] = "closed")
  /\ main' = "source"
  /\ UNCHANGED <<kind, cancelled, loopVars, procVars, runs, queue, listener, awaited, reaped, late>>

(* Slip: leaves the closed channels in the map.                             *)
CloseAudioKeepingSubs == CloseSubs(subs)

CloseAudio == CloseSubs({})

(* Source.Close: the process of that moment, if there ever was one.         *)
CloseSource ==
  /\ main = "source"
  /\ IF held = 0 THEN UNCHANGED procVars ELSE CloseProc
  /\ main' = IF held = reaped THEN "server" ELSE "wait"
  /\ awaited' = held
  /\ UNCHANGED <<kind, cancelled, loopVars, castVars, reaped, late>>

SourceClosed ==
  /\ main = "wait"
  /\ WaitReturns(awaited)
  /\ main' = "server"
  /\ UNCHANGED <<kind, cancelled, loopVars, procVars, castVars, awaited, late>>

(* Server.Shutdown waits for the handlers, at most five seconds; then come  *)
(* SetSTTState(closed), Writer.Flush and Writer.SessionEnd.                 *)
Idle == \A l \in Listeners : listener[l] \in {"none", "gone"}

EndSessionWhen(done) ==
  /\ main = "server"
  /\ done
  /\ main' = "ended"
  /\ UNCHANGED <<kind, cancelled, loopVars, procVars, castVars, awaited, reaped, late>>

(* Slip: waits as long as a handler is busy.                                *)
EndSessionIdle == EndSessionWhen(Idle)

EndSession == EndSessionWhen(TRUE)

CloseWriter ==
  /\ main = "ended"
  /\ main' = "over"
  /\ UNCHANGED <<kind, cancelled, loopVars, procVars, castVars, awaited, reaped, late>>
-----------------------------------------------------------------------------
Init ==
  /\ kind \in Kinds
  /\ cancelled = FALSE
  /\ loop = IF kind = "blocked" THEN "blocked" ELSE "launch"
  /\ hand = Empty /\ capturing = FALSE /\ offset = 0
  /\ sourceState = CASE kind = "blocked" -> "missing" [] kind = "device" -> "starting"
                     [] OTHER -> ""
  /\ sent = [n |-> 0, offset |-> 0]
  /\ procs = 0 /\ proc = "none" /\ held = 0 /\ signalled = FALSE /\ drained = FALSE
  /\ turn = "pcm" /\ pipe = 0 /\ aux = 0 /\ produced = 0
  /\ runs = [i \in 1..MaxProcs |-> "none"]
  /\ subs = {} /\ closed = FALSE /\ queue = [l \in Listeners |-> 0]
  /\ chan = [l \in Listeners |-> "none"] /\ panicked = FALSE
  /\ listener = [l \in Listeners |-> "none"]
  /\ main = "run" /\ awaited = 0 /\ reaped = 0 /\ late = {}

Loop == Launch \/ LaunchFails \/ Read \/ Deliver \/ LoopCloses \/ LoopWaited
        \/ Announce \/ Sleep \/ LoopEnds
FFmpeg == Writes \/ ExitsWhenAsked \/ FileEnds
Shutdown == CloseAudio \/ CloseSource \/ SourceClosed \/ EndSession \/ CloseWriter

Next ==
  /\ main # "over"
  /\ \/ Loop
     \/ FFmpeg
     \/ DeviceGoes
     \/ CancelSignals
     \/ WaitDelayKills
     \/ Drains
     \/ \E i \in 1..MaxProcs : RunReads(i) \/ RunEnds(i)
     \/ \E l \in Listeners : Subscribe(l) \/ Receive(l) \/ Written(l) \/ ClientLeaves(l)
                             \/ SeesClosed(l)
     \/ Cancel
     \/ EngineEnds
     \/ Shutdown

(* Every goroutine goes on, ffmpeg writes and obeys a signal it can see, and *)
(* a pending WaitDelay runs out; a client need not read.                    *)
Fairness ==
  /\ WF_vars(main # "over" /\ Loop) /\ WF_vars(main # "over" /\ FFmpeg)
  /\ WF_vars(main # "over" /\ CancelSignals) /\ WF_vars(main # "over" /\ WaitDelayKills)
  /\ WF_vars(main # "over" /\ Drains) /\ WF_vars(main # "over" /\ Shutdown)
  /\ \A i \in 1..MaxProcs : WF_vars(main # "over" /\ (RunReads(i) \/ RunEnds(i)))

Spec == Init /\ [][Next]_vars /\ Fairness
-----------------------------------------------------------------------------
TypeOK ==
  /\ kind \in Kinds /\ cancelled \in BOOLEAN
  /\ loop \in {"blocked", "launch", "read", "deliver", "close", "wait", "announce", "sleep",
               "over"}
  /\ capturing \in BOOLEAN
  /\ {offset, produced} \subseteq 0..MaxUnits
  /\ sourceState \in {"", "missing", "starting", "capturing", "unavailable"}
  /\ {procs, held, awaited, reaped} \subseteq 0..MaxProcs
  /\ proc \in {"none", "running", "exited"} /\ turn \in {"pcm", "mp3"}
  /\ pipe \in 0..PipeCap /\ aux \in 0..AuxCap
  /\ runs \in [1..MaxProcs -> {"none", "read", "done"}]
  /\ subs \subseteq Listeners
  /\ queue \in [Listeners -> 0..Backlog]
  /\ chan \in [Listeners -> {"none", "open", "closed"}]
  /\ listener \in [Listeners -> {"none", "wait", "write", "gone"}]
  /\ main \in {"run", "audio", "source", "wait", "server", "ended", "over"}

(* Media time has no gap and no overlap, whatever happened to the processes: *)
(* each frame starts where the one before it ended.                         *)
MediaTimeIsContinuous == [][sent' # sent => sent'.offset = sent.offset + sent'.n]_vars

(* Three goroutines close the channel of a listener, and one sends to it: it *)
(* is closed once, nothing is sent to it after that, and whoever is still   *)
(* subscribed has an open one.                                              *)
ChannelsCloseOnce ==
  /\ ~panicked
  /\ \A l \in Listeners : chan[l] = "open" <=> l \in subs

(* All the audio there is gets decoded, although ffmpeg feeds the listeners  *)
(* with the other hand and none of them need ever read: only the end of the *)
(* session or of the processes of the model comes before.                   *)
Stopped == main # "run" \/ cancelled \/ loop \in {"blocked", "over"}
           \/ (loop = "launch" /\ procs = MaxProcs)
ListenersNeverHoldUpAudio == <>(Stopped \/ produced = MaxUnits)

(* A shutdown that began ends, with listeners that do not read, full pipes, *)
(* and a source that is between two processes.  Only one thing can hold it   *)
(* up: the capture loop was in cmd.Wait of the same process at the same     *)
(* time, and the one result went to the loop (ffmpeg.go:160).               *)
ResultTaken == main = "wait" /\ reaped = awaited
ShutdownReturns == (main = "audio") ~> (main = "over" \/ ResultTaken)

(* ffmpeg.go:141: "Close terminates ffmpeg and waits for it"; run.go:393:   *)
(* shutdown "tears everything down", "regardless of how the run ended".     *)
CloseReturns == (main = "wait") ~> (main # "wait")

(* Nothing follows session_end in the audit log: it is "the last complete    *)
(* record of a clean session" (audit.go) and the "final record of a clean    *)
(* shutdown" (usage.md).                                                    *)
SessionEndIsLast == late = {}
=============================================================================
