# A TLA+ verification of livecaption

livecaption turns a live audio source into captions: audio frames go to a
streaming speech recognizer, settled segments of text come back, and a hub
paints them on every connected browser and writes them to a transcript. This
directory holds the TLA+ model of that program, the configurations that
model-check it with TLC, and theorems about it checked by TLAPS. Paths such as
`hub.go:243` are relative to the package they name under `src/internal/`.

## 1. Inventory

The data flow is one pipeline with side doors:

    source -> noise gate -> (monitor, audio stream) -> session driver <-> recognizer
                                                          |  OnTranscript, OnMusic,
                                                          |  OnConnectionEnd, STT state
                                                          v
             admin: clear -> caption hub -> SSE subscribers (viewers)
                                 |  OnFinal, OnMarker
                                 v
                          transcript writer + audit stream <- gate, states, drops, log

| Part | State | Operations | Hard because |
|---|---|---|---|
| **caption hub** `caption/hub.go` | open line (`committed`, `uttStart`, `uttSpeaker`, `uttEnd`), `prevEnd`, `lastSpeaker`, music gate (`music`, `held`, `musicTimer`, `musicToken`, `pendingEnd`, `newestMedia`, `confirmedCutoff`), subscribers | `Publish`, `SetMusic`, `ResetConnection`, `PublishStatus`, `Clear`, `Flush`, `Subscribe`, unsubscribe, timer callback `releaseMusic` | timers that lose races, held segments released later, two clocks (arrival order and media time), lossy channels |
| **session driver** `stt/session.go`, `gate.go`, `ring.go` | ring buffer, silence gate, backoff, one writer and one reader goroutine per connection | drain, dial, retry, pause, resume, write, keepalive, read, polite end, cancel | five goroutines, wake-ups, reconnects, a drain timeout, audio that must not be lost unseen |
| **anchor index** `stt/anchor.go` | recent frames by byte position | `Add`, `At`, `SourceAt` | boundary lookups, eviction, three clocks |
| **transcript writer** `caption/writer.go`, `audit.go` | two buffered files, `lastMarker`, `auditDisabled`, `pendingAuditErr`, `closed` | `Write`, audit records, ticker flush, `Flush`, `SessionEnd`, `Close` | two failure policies under one lock, reporting outside it |
| **session wiring** `cli/run.go` | channels, callbacks | `run`, `shutdown` | order of the end of a session |
| **noise gate** `audio/noise_gate.go` | settings, open, time of the last loud frame | `Wrap`, `Set` | settings change between frames, records of two goroutines |
| **sources** `audio/device.go`, `file.go`, `ffmpeg.go` | capture process, restart state | `Start`, restart with backoff, `Close` | process death, watchdog, stale readers |
| **playback monitor** `audio/monitor.go` | queue, playback process | `Tap`, `Wrap`, `Close` | a stalled speaker must not delay captions; shared buffers |
| **fan-out** `audio/broadcast.go` | listeners, encoder pipe | subscribe, forward, drop | slow listeners must not delay ffmpeg |
| **metrics** `metrics/metrics.go` | counters, states, degraded window | setters, `Health`, `Snapshot` | many writers, wall clock |
| **web server** `web/server.go` | rate limit of latency reports | SSE, audio stream, admin operations | client goroutines that come and go |
| **viewer** `web/static/caption.js` | queue of words, pacing | events, drain | pacing against backlog |
| **provider protocols** `stt/deepgram`, `stt/speechmatics` | per-connection decoder state, count of audio messages | handshake, `Decode`, `SendAudio`, `Finish` | punctuation attachment, speaker runs |
| mock engine, mDNS, terminal, logging, flags, packaging | – | – | not part of the caption logic |

What makes each modelled part correct:

* *hub* – viewers and the transcript say the same thing, once, in arrival order;
  no line mixes voices; music freezes the screen, exactly the speech after it is
  released, and what was discarded stays discarded; music always ends; a viewer
  that misses nothing shows the hub's indicators.
* *session driver* – frames are written in order and once; every frame is
  accounted for; no wake-up is missed; all results of a connection come before
  its end is announced; a clean end is complete; a cancelled session ends.
* *noise gate and monitor* – the recognizer gets every frame, silenced exactly when
  the settings of the moment say so; the operator hears the original; neither
  holds the other up; the audit tells what the gate did.
* *writer* – the audit mirrors the transcript; repeated markers are compacted and
  nothing else is; failures are reported; lines reach the disk.
* *anchor index and reader* – every word, text and music edge keeps its place on the
  source's clock, whatever the ring discarded around it; recent audio can always be
  looked up; what is published never goes back.
* *provider protocols* – a message becomes exactly the runs of its kept words, and no
  word loses the punctuation that closes its line.
* *sources and fan-out* – media time has no gap across processes; listeners hold
  nothing up; channels are closed once; a shutdown ends.
* *metrics* – the badge says what happened, the figures what was measured.

## 2. Modules

| Module | Models | Notes |
|---|---|---|
| `CaptionHub` | `caption/hub.go` | one action per public operation |
| `CaptionStream` | – | the promise to the hub's readers: an append-only screen, a record that follows it, music that freezes both |
| `CaptionFeed` | `stt/session.go` `run`, `cli/run.go` as seen by the hub | EXTENDS `CaptionHub`; calls in the driver's order, advancing media time |
| `RecognizerSession` | `stt/session.go`, `gate.go`, `ring.go` | one action per step of each goroutine |
| `TranscriptWriter` | `caption/writer.go`, `audit.go`, end of `cli/run.go` `shutdown` | one action per locked region |
| `FramePipeline` | `audio/monitor.go`, `audio/noise_gate.go`, their wiring in `cli/run.go` | one action per goroutine step between two channels |
| `AnchorIndex` | `stt/anchor.go` | operators on a record: no state of its own |
| `RecognizerResults` | `writeLoop` and `readLoop` of `stt/session.go` around the index | EXTENDS `AnchorIndex`; one action per lookup |
| `ProviderProtocol` | `stt/speechmatics`, `stt/deepgram` | one action per way a connection opens or fails, and per result of a message |
| `AudioCapture` | `audio/device.go`, `file.go`, `ffmpeg.go`, `broadcast.go`, `handleAudio`, `shutdown` of `cli/run.go` | one action per step of each goroutine and of ffmpeg |
| `MetricsHealth` | `metrics/metrics.go`, `observeLatency` of `cli/run.go` | one action per region under the lock |
| `CaptionHubProofs` | – | types, the record against the screen, who speaks in a line, what viewers show; music and order, `CaptionStream` implemented, what a release paints, the timeline of a live session |
| `RecognizerSessionProofs` | – | types, where every frame is, hook and end of a connection |
| `TranscriptWriterProofs` | – | types, mirroring, compaction, reporting |
| `FramePipelineProofs` | – | types, the gate against its reference, the monitor, the audit of the gate |
| `RecognizerResultsProofs` | – | types, the anchor index, places and order of what is published |
| `ProviderProtocolProofs` | – | types, what Decode returns, what is left of the punctuation |
| `AudioCaptureProofs`, `MetricsHealthProofs` | – | channels and media time; the badge and the figures |
| `MCCaptionHub`, `MCCaptionFeed`, `MCFramePipeline`, `MCMetricsHealth` | – | segments, times, settings and latencies for TLC |

Operators whose comment begins with *Slip* are plausible mistakes in the
operation they stand next to. No specification uses them; substituting one shows
that a property notices the mistake.

### CaptionHub

The hub has two mutexes. `op` is held for the whole of every public operation,
so an operation is one action, broadcast and callbacks included. `mu` only
protects readers inside those operations and is not modelled. `releaseMusic` also
holds `op`, but it publishes a list: `ReleaseMusic` starts it and `ReplayNext`
publishes one segment at a time, with `replay # {}` standing for "`op` is held",
so that clients receive in between. A timer is a token in `armed`; when it
expires the token moves to `fired`, where it waits for `op`; `Stop`
(`CancelMusicEnd`) removes the current token from `armed` but can no longer reach
one in `fired`.

Data: a segment is its words (place, start, end, whether it ends a sentence), its
own start and duration and its speaker; text and its length are counted in
segments, media time in units. Held segments are a set ordered by their arrival
number `n`, which the model adds. `lastMusic` always equals `music`
(hub.go assigns them together) and is left out. History variables: `painted`,
`transcript` and `recorded` (what the callbacks were given), `muted` (the held
segments before trimming), `discarded`, `lost`, and per client `shown`, `seen`.

### CaptionFeed

Restricts the hub's callers to what the program does: connection states in the
order `run` publishes them, `ResetConnection` after every connection that does not
end the session, results and music starts in time order, a music end that may
carry an earlier time than speech already delivered (the reason edges carry a
time at all), the operator's `Clear` at any time. `FeedSegmentsAssumption`: the words of
a timed segment lie inside it in order of their times, so the zeroed words that a failed
lookup leaves are outside of this module.

### RecognizerSession

`drain` is `startDrain`'s goroutine, with the gate and the ring; `run`/`conn` are
the program counter of `run`, `runConnection`, `finish` and `waitResume`;
`writer` and `reader[c]` are the two goroutines of a connection, the reader
indexed because it can outlive its connection. A channel that is closed on a
transition (`Gate.changed`) is the number of transitions at which it was fetched:
it is closed when `edges` has moved on. `conn.Close` and `cancelConn` are
`closed`. The network and the recognizer are external: a link can break, a write
into a broken link may still seem to succeed, the recognizer answers loud frames
in order and, asked to end, closes when it has answered. A dial fails as often as the
environment likes. A connection that was asked to end is `"ending"` until a read finds
that all was answered (`"ended"`); whether it is closed before that is up to `finish`.

Frames have one size, so the ring and the hold count frames; frame offsets
increase, so the gate's re-baselining on a clock that restarts is not reachable.
Anchors and the mapping of times are in `RecognizerResults`.

### TranscriptWriter

Everything between `Lock` and `Unlock` is an action; what a goroutine does
afterwards is queued in `after[t]` (`"pending"`: flushPendingAuditErr,
`"report"`: reportAuditErr, with the log record the report itself produces). A
file is its bufio buffer, its content and bufio's sticky error; a disk may fail at
any time, and writing to a closed file fails. The publishing goroutine is one
thread because the hub's `op` serializes OnFinal and OnMarker.

### FramePipeline

`tap` and `gate` are the goroutines of `Monitor.Wrap` and `NoiseGate.Wrap`: the
frame in hand and the step they are at; an unbuffered channel is a step that both
ends take together. `queue` is `Monitor.ch`, and `playing` the frame the playback
goroutine took last. Frames are numbered in source order, frame *n* ends at time
*n*, and a level is an integer that settings compare with a threshold; `pcm` is the
content of each frame's buffer, which queue and gate may both refer to. `Process`
is the region under the gate's lock, `OnEdge` and `OnSettings` the calls after it,
so that two goroutines' audit records can overtake each other. `judged` is history:
the settings that decided each frame. Sources never restart their offsets, so the
branch of `process` for an offset that went back (noise_gate.go:130) is not
reachable and is left out. If there is no monitor, or its player cannot be started
(run.go:298), the gate reads the source.

### AnchorIndex and RecognizerResults

Positions are counted in samples and times in ticks, `SampleTicks` to a sample, so
that a media time between two samples exists and `BytesFor` rounds it down as the
code does. `Outdated` is the condition of `Add`'s eviction loop for entry *i* once
those before it are gone; `Covering` is what the binary search finds.
`RecognizerResults` interleaves the writer, which notes a chunk (`Record`) before it
sends it (`Send`), with the reader, which looks up one media time per step
(`Resolve`): the index has a lock, but a transcript takes several lookups. `Record`
also stands for the ring: a gap is audio that was discarded before the chunk. The
recognizer is external; it reports words in order inside what it was sent, whose last
end may be rounded past it, and music edges anywhere up to the same bound, where the
lookup clamps (anchor.go:105). No word ends within the first sample: the recognizers' times
are multiples of many samples. `chunks` is history, every anchor of the connection, and
`Position` is computed from it, not from the index.

### ProviderProtocol

A message is built one result at a time, so that every sequence of results up to
`MaxResults` is a behaviour and the locals of the loop (`ts`, `run`) are state. The
two providers share the run bookkeeping (`Opens`, `Extended`, `Flush`): Deepgram's
grouping by index yields the same runs. Result *n* lies between the instants 2n-1 and
2n. Of a connection only its opening and its end are kept, with what the driver may try
again; how the driver reacts to that is in `RecognizerSession`, and where a music edge lies
in `RecognizerResults`. The order of the handshake's messages and the count of audio
messages that `Finish` reports are left out: one goroutine keeps them, and nothing else
reads them.

### AudioCapture

`loop` is the goroutine of `Start`, `runs[i]` the `Broadcaster.Run` of process *i*,
`main` how far `run` and `shutdown` have got, `listener[l]` a `handleAudio`. ffmpeg is
external: it writes PCM and MP3 in turn to two bounded pipes, blocks on a full one and
sees a signal only between writes, which is why `Close` drains (ffmpeg.go:150).
`proc.Close` is two steps, signal and drain (`CloseProc`) and the wait (`WaitReturns`);
both the loop's deferred call and `Source.Close` may be in it. `cmd.Wait` of a command with a
context receives that context's result from a channel that gets it once, so of two waiters
one returns (`reaped` is the process whose result was taken) and the other never does; a call
that comes after that returns at once, because the process state is known by then. A process that never started leaves `s.proc` on its
predecessor, as the code does. `late` is history: the audit records of the source that
come after `session_end`. The reader of an older process has its end of file for sure
(`RunEnds`), because that process was waited for. The monitor and mDNS, which
`shutdown` stops as well, share no state with this part.

### MetricsHealth

The latency series are sequences of samples, `observe`, `trim`, `stats` and
`percentile` operators on them; a sample also says of which transcript it is. Sorting is
modelled by what it is for: `Ranked(samples, k)` is the duration that stands at place *k*
of the sorted ones, the least with *k* samples at or below it.
`degrade` is two steps, the counter (`Count`) and the stamp under the lock (`Stamp`),
and `Snapshot` two: `Copy` under the lock, and `Health` afterwards by the STT state of that
later moment. `observeLatency` is three: the total, with the instant read under its lock
(metrics.go:417); the second reading of the clock, outside any lock (`ReadClock`,
metrics.go:445); the phases. `faults`, `heard` (the totals observed, each with its instant)
and `phased` (the phases, each with its own) are history.

## 3. Runs

| Run | Configuration | Shows |
|---|---|---|
| `caption_hub` | 5 segments, 2 music times, 1 client, 5 operations | 10 properties of the hub, among them the refinement of `CaptionStream` |
| `caption_feed` | 5 segments over 8 time units, 3 music times, 12 operations | `SpeechAndMusicInOrder`; `EndEdgeIsSettled` under fairness |
| `session` | 3 frames, ring of 1, hold of 1, 1 broken link, 3 connections, any number of failed dials | 5 invariants, 1 action property, 3 liveness properties |
| `writer` | 1 line, 2 markers, 1 diagnosing goroutine, buffers of 2 entries, 3 writes, 1 further record | compaction, mirroring, reporting, flushing |
| `frame_pipeline` | 3 frames of 2 levels, 3 settings, 1 change, playback queue of 1 | 3 invariants of gate and monitor, `FramesReachEngine` |
| `results` | chunks of 1 or 3 samples of 2 ticks, gaps of 0 or 2 ticks, window of 2 samples, 2 anchors, 8 ticks of audio, 2 connections | words, texts and edges keep their place and their order; recent audio is anchored |
| `protocol` | 2 speakers and none, 4 marks, 1 message of 5 results | runs and punctuation of every message |
| `capture` | device, file and missing device, 1 listener, pipes of 2 and 1, backlog of 1, 2 processes, 2 chunks | channels, media time, and two liveness properties |
| `metrics` | 2 latency splits, cap of 2, windows of 1, clock to 2, 3 events | badge and figures |
| `timeline`, `stalled_server`, `session_end` | smaller | section 5 |

Every module also has a type invariant `TypeOK` (`FeedTypeOK` in `CaptionFeed`). It
holds in the run of its module, where it can be added to the cfg; in the hub, the session
driver, the writer, the frame pipeline and the results it is a theorem. It is not among the properties of the runs, which ask what could be wrong.

Why the bounds are enough for the cases they are about:

* `caption_hub`: a song needs four calls to freeze, hold a segment, stop and be
  followed by something else; a timer that fires late needs no call at all, so
  five operations contain every race between two edges, a release and a fifth
  operation. Segments cover two words cut by a music edge, no word times, three
  values of speaker, a sentence end and an empty text. `BreakGap` 2,
  `MusicReplayWindow` 3 and `MaxUtterance` 3 are each crossed by these times.
* `caption_feed` starts every behaviour with two calls of the handshake, hence 12.
* `session`: a hold of 1 pauses after two silent frames; a ring of 1 overflows within three
  frames also with a chunk that was admitted after that, so that both kinds of eviction, of
  lost audio and of rotated silence, occur. One broken link and three connections allow a
  failure followed by a pause and a resume; a second broken link only repeats the first.
  Failed dials have no bound: they change no counter.
* `writer`: a marker, a line and the marker again need 3 writes; buffers of 2
  overflow within them.

* `frame_pipeline`: a loud frame and two quiet ones cross a release of 2; loud,
  quiet, loud reopens the gate under a release of 0 or 1; with a queue of 1 and three
  frames the speaker falls behind; one change of settings can fall before, between
  and after any of these steps.

* `results`: with chunks of one and three samples and a gap of one sample, a word can lie
  inside a chunk, across a boundary, and across a gap. After three chunks of one sample the
  first is dropped because there are three, though it is not too old; behind a chunk of one a
  chunk of three makes it too old, though there are only two. A second connection
  starts in the middle of the source.
* `protocol`: five results hold two speakers, a removed word between two marks and a word
  on either side, which is every case of `appendPunctuation`; messages do not share state.
* `capture`: four half chunks give a short last read and a frame of each of two processes; a
  backlog and an MP3 pipe of one are full after two writes, which is when ffmpeg would stall.
  A second listener adds no interleaving with the first, because listeners share nothing
  but the set they are in.
* `metrics`: a window of one tick and a clock to two let a sample and an event grow old,
  a cap of two is exceeded by three transcripts; the clock can tick between a total and its
  phases, so that a window holds one and not the other; one of the splits has a negative
  phase, of which only the total is measured.

`MaxCalls`, `MaxFrames`, `MaxFailures`, `MaxConns`, `MaxWrites`, `MaxRecords`,
`MaxChanges`, `MaxSource`, `MaxResults`, `MaxMessages`, `MaxProcs`, `MaxUnits`,
`MaxClock` and `MaxEvents` bound the model only and appear in guards. Deadlock checking is
off in every run: the bounds end all behaviours, and a session or a writer really does end.

### Fairness

* `CaptionFeed!FairFeedSpec`: an armed `time.AfterFunc` expires, a goroutine
  waiting for a mutex gets it, a loop that was started goes on. No fairness on
  any caller.
* `RecognizerSession!StalledSpec`: every goroutine that can take a step does, a
  dial returns (both providers' handshakes have a timeout), `time.After` fires. A
  read has to return only when the connection is closed or broken, and a write
  not at all. `FairSpec` adds that a write returns; `SessionEnds` needs it, and
  the run `stalled_server` shows what happens without. Nothing says that a dial ever
  succeeds: `run` redials for as long as there is audio in the ring (session.go:150), so
  a session whose source has ended need not end against a server that cannot be reached.
  `SessionEnds` therefore says that a cancelled session ends, and that one whose
  source has ended ends or is back before its next dial: no other place can hold it.
* `FramePipeline!FairSpec`: the goroutines of monitor and gate run and the session's
  drain reads (`startDrain` does nothing else). Nothing is assumed of the speaker,
  the source and the operators.
* `AudioCapture!Fairness`: every goroutine that can go on does, ffmpeg writes while its pipes
  have room and obeys a signal it can see, `WaitDelay` runs out. Nothing is assumed of the
  clients, the device, and of when the session ends.
* `TranscriptWriter!FairSpec`: the ticker ticks until `Close`, a goroutine
  finishes its call.

## 4. Proofs

TLAPS checks the theorems below, for all values of the constants that the
assumptions of each module allow: any segments, frames, levels, settings, lines,
chunks and gaps, any number of clients, connections, failures and calls, and
buffers, windows and rates of any size. The assumptions (`...Assumption`,
`AnchorSizes`, `ResultSizes` and the like) say that sizes and times are natural
numbers, that a buffer which has to hold something is not empty, and what kinds
of elements the sets have; TLC evaluates them in every run of the module.

| Theorem | Module | Property |
|---|---|---|
| `TypeCorrect` | `CaptionHubProofs` | `TypeOK` (in no run) |
| `TranscriptMatchesScreen` | `CaptionHubProofs` | `TranscriptIsWhatWasPainted` |
| `LinesHaveOneVoice` | `CaptionHubProofs` | `OneVoicePerLine` |
| `ViewersCatchUp` | `CaptionHubProofs` | `ViewersAgree` |
| `ScreenFrozen` | `CaptionHubProofs` | `FrozenWhileMusic` |
| `OnlyItsOwnHold` | `CaptionHubProofs` | `OwnHoldElapsed` |
| `ArrivalOrderKept` | `CaptionHubProofs` | `PaintedInArrivalOrder` |
| `HubImplementsStream` | `CaptionHubProofs` | `ImplementsCaptionStream` |
| `GivenUpStaysAway` | `CaptionHubProofs` | `NothingDiscardedReturns` |
| `TrimmingLosesNothing` | `CaptionHubProofs` | `TrimmingIsHarmless` (in no run) |
| `ReleaseTakesAll` | `CaptionHubProofs` | `ReleaseIsExact` |
| `SongStaysOff` | `CaptionHubProofs` | `NoSongWordPainted` |
| `SpeechAndMusicStayInOrder` | `CaptionHubProofs` | `SpeechAndMusicInOrder` |
| `SessionTypeCorrect` | `RecognizerSessionProofs` | `TypeOK` (in no run) |
| `SessionSendsInOrder` | `RecognizerSessionProofs` | `SentInOrder` |
| `SessionLosesTrackOfNothing` | `RecognizerSessionProofs` | `NoFrameVanishes` |
| `SessionCountsLostSpeech` | `RecognizerSessionProofs` | `LostSpeechIsCounted` |
| `SessionHookIsLast` | `RecognizerSessionProofs` | `QuietAfterHook` |
| `SessionEndsComplete` | `RecognizerSessionProofs` | `CleanEndIsComplete` |
| `SessionPoliteEnd` | `RecognizerSessionProofs` | `PoliteEndLosesNothing` |
| `WriterTypeCorrect` | `TranscriptWriterProofs` | `TypeOK` (in no run) |
| `WriterMirrors` | `TranscriptWriterProofs` | `AuditMirrorsTranscript` |
| `WriterCompacts` | `TranscriptWriterProofs` | `CompactionIsExact` |
| `WriterReports` | `TranscriptWriterProofs` | `RetirementIsReported` |
| `PipelineTypeCorrect` | `FramePipelineProofs` | `TypeOK` (in no run) |
| `GateIsItsReference` | `FramePipelineProofs` | `GateMatchesReference` |
| `MonitorPlaysOriginal` | `FramePipelineProofs` | `MonitorHearsOriginal` |
| `AuditTellsTheGate` | `FramePipelineProofs` | `AuditTellsGate` |
| `ResultsTypeCorrect` | `RecognizerResultsProofs` | `TypeOK` (in no run) |
| `IndexAnchorsRecentAudio` | `RecognizerResultsProofs` | `RecentAudioIsAnchored` |
| `ResultsKeepTheirPlace` | `RecognizerResultsProofs` | `WordsKeepTheirPlace` |
| `ResultsInSourceOrder` | `RecognizerResultsProofs` | `PublishedInSourceOrder` |
| `ProtocolTypeCorrect` | `ProviderProtocolProofs` | `TypeOK` (in no run) |
| `RunsAreKeptWords` | `ProviderProtocolProofs` | `RunsAreTheKeptWords` |
| `PunctuationReconciled` | `ProviderProtocolProofs` | `PunctuationIsReconciled` |
| `EachChannelClosedOnce` | `AudioCaptureProofs` | `ChannelsCloseOnce` |
| `MediaTimeHasNoGap` | `AudioCaptureProofs` | `MediaTimeIsContinuous` |
| `BadgeTellsHistory` | `MetricsHealthProofs` | `HealthTellsHistory` |
| `FiguresDescribeWindow` | `MetricsHealthProofs` | `StatsDescribeWindow` |

Most of these properties are not inductive. What a proof adds to one, checked by TLC
before it was proved, is an invariant with a name, at the top of the module or before the
theorem.

The argument, for the hub:

* *Types* first. The only part that is not bookkeeping is that `afterMusic` leaves
  a segment behind: `FirstWord` and `LastWord` are choices, so that they exist
  needs a least and a greatest word (`LeastPlace`, from the well-foundedness of
  the natural numbers).
* *Record and screen.* `LineSteps` says that whatever a step does, it paints one
  segment, closes the open line, or leaves both alone; `PaintKeepsRecord` and
  `ForceCloseKeepsRecord` are then equations between concatenations. The same
  three cases carry `LinesHaveOneVoice`, whose inductive form `VoiceInv` says that
  the open line holds only words of `lastSpeaker` or of nobody known, and is
  stamped with one of them: the property alone is not inductive, because the
  stamp may be 0 when the first words have no speaker.
* *Viewers.* `ViewersAgree` is inductive given the types. What a viewer will show is the
  newest event of a kind in its channel, or what it shows when there is none:
  `LatestAppended` and `LatestTaken` say what an event put in or taken out does to that, so
  a broadcast tells every viewer that does not miss it and a read changes nothing.
* *Music.* `FrozenWhileMusic` is inductive as it stands (given the types) and the
  other theorems rest on it: because nothing is held without music, a segment
  published with the gate open cannot overtake one that is held.
* *Order.* `ArrivalInv` adds to `PaintedInArrivalOrder` that held segments have
  numbers of their own and are newer than the last discard; `QuietStep` and
  `PaintStep` are its two kinds of step. `GivenUpStaysAway` follows from it.
* *Release.* `CutTwice`: cutting a segment at `a` and then at a later `b` is cutting
  it at `b`, also when the first cut leaves one word without an end, which makes
  the rest look like a segment without word times. With it, `TrimmingIsHarmless`
  is inductive, and the released set follows in one step.
* *Timeline of a live session.* Every behaviour of `CaptionFeed` is one of the hub
  (`FeedStepsHub`), so the invariants above hold of it. `TimelineInv` adds that the record is
  in order up to the start of the open line, and that what is held or about to be replayed
  comes after the record and before one another *however much is cut off*: `StartsBy` asks
  it of the last word that a cut can make the first, which is what makes it survive trimming
  and the release (`CutInPlace`, `CutLined`). It needs words that lie in their segment in
  order of time (`FeedSegmentsAssumption`), which is what `ResultsKeepTheirPlace` gives when
  no lookup fails.
* *Refinement.* `StepKinds` says which of `Show`, `Save`, `Freeze`, `Thaw` or a
  stutter a step is; `PaintShows` needs the invariant before and after the step to
  see that the record is one of the three `Show` allows.

and for the others:

* *Session driver.* `ControlInv` says what the place of one goroutine means for the
  others (run goes on without the writer only when it has returned; the writer has a chunk
  in hand exactly while it sends). On it rests `OrderInv`: the ring ascends, the chunk in
  hand is older than all of the ring, what was sent is older than the chunk and the ring,
  and connections ascend among themselves, so that moving a frame from one place to the
  next keeps the order; no property of sent frames alone would be inductive.
  The same places give `NoFrameVanishes`, a frame in exactly one of them. `GateInv` is why lost
  speech is counted and rotated silence is not: a loud frame enters the ring with its
  `active` set, and an eviction looks at that flag and no other. `HookInv`, `EndInv` and
  `AnswerInv` carry what a goroutine knew when it moved on (the reader returned; the ring was
  exhausted; all was answered) to the state in which the property asks for it. For the polite
  end that is not enough, for the property speaks of every connection that was asked to end
  and is closed: `PoliteInv` says that an open one whose reader returned had ended or broken,
  so that `finish`, which closes it only then or after its timeout, never leaves one
  `"ending"`.
* *Transcript writer.* A file is what is on disk and in its buffer (`Written`): flushing
  keeps that, and so writing appends to it whether or not the buffer had to be flushed
  first (`PutFile`). `MarkInv` relates `lastMarker` to the last of what was asked for;
  without it the choice to skip a marker says nothing about the list. `CompactionIsExact`
  asks for a map from what was written into what was asked for, and the proof extends it
  by one at each write. `ReportInv` says who still has to report a retired stream: a
  goroutine past its unlock, or the next call that looks at `pendingAuditErr`.
* *Frame pipeline.* `PlaceInv` counts: frames judged and received follow from where the tap
  and the gate are. `HoldInv` is the heart: `lastAbove` is a loud frame, none after it is,
  and the gate is open exactly when no frame since has exceeded the release in force at
  that frame; with it one comparison per frame is the reference's look at the whole past.
  `AuditInv` says that edges alternate and the last of them is the state of the gate, but
  for the one edge about to be told.
* *Index and results.* `IndexInv` keeps two pictures together: all chunks of the connection,
  which lie one after the other in samples and do not overlap on the source's clock
  (`Laid`), and the index, which is their end (`Suffix`: what was dropped is too old or too
  many chunks back). `CoveringOf` then says that the search finds the chunk that holds the
  sample, and `SourceAtPlaces` that the answer is `Reach`, a function of the chunks alone
  that never falls when the time or the index grows (`ReachGrows`, `ReachStays`). A
  position found earlier is therefore still right, or a lower bound, when the transcript is
  published later (`Located`, `LocatedStays`): that is why lookups may interleave with the
  writer. For the order, `HeardInv` says that what was heard lies before where
  the words still to come can start; a new connection begins at the end of the source, and
  there it starts over with the writer's first chunk.
* *Decode.* `Decoded` is the invariant of the loop over a message's results. A run that ended
  is done with: all its words are `Sealed` by a later kept result, and what is said of the
  marks behind a sealed word no longer depends on what follows (`SealedStays`). Only the
  last word of the open run is `Growing`; for it the invariant says what `suffix` and
  `removed` stand for, which is what `appendPunctuation` decides by: `suffix` is all that
  is left, and a removed word is behind it, as long as the marks so far collide and
  each came after a removal. `GrowsByMark` is the step of a mark (`MeetingMarks`: of marks
  that meet one is left; `SpellsAppend`: without a removal all are there), `OpensRun` and
  `ExtendsRun` are those of a kept word, `NoNewWord` the rest. The properties speak of the
  results by their positions (`MarksAfter` is a set, `Spells` counts in it), not by
  filtering sequences, so that they need no induction.
* *Capture.* `ChannelInv` adds to `ChannelsCloseOnce` that a closed broadcaster has no
  listeners and that a listener in the map has arrived: without them a late `Subscribe`
  could not be told from a second one. `MediaInv` says that the source has counted what it
  sent and the frame in hand, with one exception, the frame dropped at a cancellation,
  after which nothing is sent: only with the place of the loop is that inductive.
* *Badge.* `Tells` relates a stamp and two flags to the history they stand for; `BadgeInv`
  says it of the live fields and of the copy a snapshot took, and `StampTells` that a stamp
  taken under the lock keeps it. A stamp taken before the lock would not.
* *Figures.* The property speaks of one step, a snapshot's; `SeriesInv` is what makes it true
  of every one. `Keeps` accounts for each measured transcript a series was told of: it has a
  sample, or is too old now, or is older than all of a full series. A trim at any instant up
  to now keeps that (`TrimKeeps`), so it does not matter who trimmed when. The total and the
  phases have a history each (`Observed`), because their instants differ; each is in the
  order of time (`Timely`), for the phases because one goroutine observes them: the instant
  it has in hand is not before that of any it observed (`InHand`), though the clock moves on
  before it gets the lock. A series trimmed now holds the latest measured transcripts and no others
  (`KeptIsRecent`, two counts by one-to-one maps), and `Ranked` is a duration with enough
  others at or below it (`RankedIs`; that there is one at all needs `GreatestPlace`).

Out of the prover's reach and left to TLC: liveness (`EndEdgeIsSettled`,
`ResumeIsNoticed`, `WriterHearsAudio`, `SessionEnds`, `LinesReachTheFile`,
`FramesReachEngine`, `ListenersNeverHoldUpAudio`, `ShutdownReturns`), and
whatever needs induction over data. These eight aside, every property of the passing runs
is stated by a theorem.

## 5. Disagreements between code and text

Three runs expect a violation, each of one statement of the repository:

1. `timeline` – a pause after music stamps its silence marker before the music
   marker: `ResetConnection` zeroes `newestMedia` (hub.go:471) first. The
   timestamp specification says transcript timestamps are nondecreasing. Speech
   and music alone are in order (`SpeechAndMusicInOrder` passes).
2. `stalled_server` – session.go:31 says ending a session cannot hang on a stalled
   server; a blocked `SendAudio` can.
3. `session_end` – audit.go:178 and docs/usage.md:283 call `session_end` the last record.
   An engine that gives up for good (`PermanentError`) does not cancel the session's
   context, so the capture loop outlives `Source.Close`: it announces that the source
   is unavailable, warns and counts a restart, and each of these may be written between
   `SessionEnd` and `Close`. After a cancellation the same can happen to a loop that had
   looked at the context just before.

Six more configurations, kept for those who work on that code, each refute one
property the same way; the module says next to it what it quotes:

* `SlowSubscriber.cfg` (`MCCaptionHub`, `SlowSubscriberIsDropped`) – hub.go:707 says a slow
  subscriber is dropped and reconnects; it only misses events, and an indicator it missed
  stays wrong until the next change.
* `LateReader.cfg` (`RecognizerSession`, `OldConnectionIsSilent`) – after a drain timeout the
  old reader may publish after `OnConnectionEnd` (session.go:178), or meet the closed
  transcripts channel (run.go:335). `QuietAfterHook` shows that this is the only way.
* `PausedEnd.cfg` (`RecognizerSession`, `PausedEndIsSilent`) – session.go:260 assumes that the
  ring is silent when a paused session ends; an onset may just have arrived.
* `CloseWait.cfg` (`AudioCapture`, `CloseReturns`) – ffmpeg.go:141 says `Close` waits for
  ffmpeg and run.go:393 that `shutdown` tears everything down however the run ended; after a
  Ctrl-C the capture loop's deferred `Close` (device.go:164) and `Source.Close` (device.go:222)
  can both be in `cmd.Wait`, and if the loop gets its only result, `shutdown` stays there until
  a second Ctrl-C. `ShutdownReturns` shows that this is the only way.
* `AuditReports.cfg` (`TranscriptWriter`, `ReportedOnce`) – one audit failure is reported twice
  (audit.go:255, writer.go:55).
* `LateSettings.cfg` (`MCFramePipeline`, `SettingsToldFirst`) – noise_gate.go:66 and audit.go:213
  say that new settings are recorded ahead of the edges that use them; `Set` records them
  after unlocking, and a frame judged in between is recorded first.

Small differences between a comment and its code, met while modelling and without
consequence for the properties above:

* speechmatics.go:537 says a run's duration never stretches over audio that is not in the
  text; a punctuation mark after a removed word still extends it (speechmatics.go:516).
* metrics.go:274 says a counter and the badge change in one step, and metrics.go:499 that a
  snapshot is a point-in-time copy: a counter is visible before the stamp, and everything
  after line 633 is read without the lock, the paused time included.
* metrics.go:773 says nearest rank; `int(p*n)` is one rank higher where `p*n` is whole.

## 6. What is not modelled, and the plan

In order of importance:

1. *The hub behind the index* – a result older than every anchor is published with zero
   times (session.go:503), and after music the hub's cutoff drops its text although the
   comment says no text is dropped; no module composes the two.
2. *ViewerPacer* – pacing of words in `caption.js`.
3. *Types of `AudioCapture` and `MetricsHealth`* – stated (`TypeOK`), not yet proved.

Left out of modelled parts: the levels shown on the operator's page and the computation of
loudness (noise gate); `Probe`, the arguments of ffmpeg, the deadlines that pace a file and
the parsing of stderr (sources); plain counters, pause accounting and the viewer's latency
(metrics); keepalives and the settings requested of a recognizer (protocols).

Not planned: JSON and URL formats, HTTP pages and authentication, device listing,
mDNS, terminal output, logging, flags, packaging, the mock engine: pure I/O or
presentation, with no state another part relies on.
