---------------------------- MODULE MetricsHealth ----------------------------
(***************************************************************************)
(* What the operator is told (internal/metrics/metrics.go): counters that   *)
(* several goroutines bump, the health badge with its degraded window, the   *)
(* latency series with theirs, and Snapshot, which copies one half of all    *)
(* this under the lock and reads the other half after it.                   *)
(*                                                                         *)
(* The callers are the source's goroutine (SetSourceState, FFmpegRestart),  *)
(* the engine's (SetSTTState, STTReconnect), whoever meets a file error,     *)
(* the consumer of transcripts (observeLatency of cli/run.go), the session's *)
(* end, and a reader of snapshots.  The wall clock moves between any two     *)
(* steps.  Audit events are TranscriptWriter's; a call of the hook changes   *)
(* nothing here.                                                            *)
(***************************************************************************)
EXTENDS Integers, FiniteSets, Sequences, SequencesExt

CONSTANTS
  Splits,        (* upload, recognize and assemble of a transcript           *)
  Live,          (* SourceKind = "live"                                      *)
  LatencyWindow, LatencyCap, DegradedWindow,
  MaxClock,      (* bound of the model: the wall clock                       *)
  MaxEvents      (* bound of the model: transcripts, calls of degrade, errors*)

ASSUME MetricsSizes ==
  /\ Splits \subseteq [upload : Int, recognize : Int, assemble : Int]
  /\ Live \in BOOLEAN
  /\ {LatencyWindow, DegradedWindow} \subseteq Nat
  /\ LatencyCap \in Nat \ {0}

VARIABLES
  clock,
  (* the badge *)
  counters,       (* all that degrade counts                                 *)
  degrading,      (* callers between the counter and the lock, and since when*)
  lastDegradedAt,
  transcriptErr, auditErr,
  faults,         (* history: the events stamped and the errors set          *)
  sourceState, source,  (* source: where its goroutine is                    *)
  sttState, engine,     (* engine: where its goroutine is                    *)
  (* the series *)
  series,         (* per name, the samples: duration, instant, and which     *)
                  (* transcript they are of                                  *)
  consumer,       (* observeLatency: the transcript in hand, and the instant *)
                  (* that ObservePhases has read                             *)
  heard, phased,  (* history: the transcripts whose total, and whose phases,  *)
                  (* were observed, with the instants of that                *)
  (* Snapshot *)
  reader,         (* "idle" or "copied"                                      *)
  copied          (* what it took under the lock, faults with it             *)

badgeVars == <<counters, degrading, lastDegradedAt, transcriptErr, auditErr, faults>>
stateVars == <<sourceState, source, sttState, engine>>
seriesVars == <<series, consumer, heard, phased>>
readerVars == <<reader, copied>>
vars == <<clock, badgeVars, stateVars, seriesVars, readerVars>>

Room == Len(heard) + counters + Cardinality({f \in faults : f.what = "error"}) < MaxEvents

Never == -1
Phases == {"upload", "recognize", "assemble"}
Nobody == [of |-> 0, split |-> 0, now |-> Never]
Nothing == [at |-> Never]
-----------------------------------------------------------------------------
(* latencySeries.                                                           *)

(* Slip: looks at the oldest sample only.                                   *)
TrimOldest(samples, now) ==
  IF samples # <<>> /\ now - samples[1].at > LatencyWindow THEN Tail(samples) ELSE samples

(* trim: the samples before the first that is young enough go, and then as  *)
(* many of the oldest as there are too many.                                *)
Trim(samples, now) ==
  LET young == {i \in 1..Len(samples) : now - samples[i].at <= LatencyWindow}
      aged == IF young = {} THEN Len(samples) ELSE Min(young) - 1
      over == Len(samples) - LatencyCap
  IN  SubSeq(samples, Max({aged, over}) + 1, Len(samples))

Observe(samples, d, now, of) ==
  IF d < 0 THEN samples
  ELSE Trim(Append(samples, [d |-> d, at |-> now, of |-> of]), now)

Durations(samples) == {samples[i].d : i \in 1..Len(samples)}

(* What stands at place k once the durations are sorted.                    *)
Ranked(samples, k) ==
  Min({d \in Durations(samples) : Cardinality({i \in 1..Len(samples) : samples[i].d <= d}) >= k})

(* percentile, p in hundredths: an index of the sorted durations.           *)
Percentile(samples, p) ==
  Ranked(samples, Min({(p * Len(samples)) \div 100, Len(samples) - 1}) + 1)

(* stats of a trimmed series.                                               *)
Stats(samples) ==
  IF samples = <<>> THEN [n |-> 0, last |-> 0, p50 |-> 0, p95 |-> 0, max |-> 0]
  ELSE [n |-> Len(samples), last |-> Last(samples).d,
        p50 |-> Percentile(samples, 50), p95 |-> Percentile(samples, 95),
        max |-> Ranked(samples, Len(samples))]

Total(split) == split.upload + split.recognize

(* observeLatency: ObserveLatency, which reads the clock under the lock.    *)
ObserveLatency(split) ==
  /\ consumer = Nobody
  /\ Room
  /\ LET of == Len(heard) + 1
     IN  /\ series' = [series EXCEPT !["caption"] = Observe(@, Total(split), clock, of)]
         /\ consumer' = [of |-> of, split |-> split, now |-> Never]
         /\ heard' = Append(heard, [of |-> of, split |-> split, at |-> clock])
  /\ UNCHANGED <<clock, badgeVars, stateVars, phased, readerVars>>

(* ObservePhases reads the clock once more, before it takes the lock.       *)
ReadClock ==
  /\ consumer # Nobody /\ consumer.now = Never
  /\ consumer' = [consumer EXCEPT !.now = clock]
  /\ UNCHANGED <<clock, badgeVars, stateVars, series, heard, phased, readerVars>>

(* And observes all three phases under one lock with that instant, or none. *)
ObservePhases ==
  /\ consumer.now # Never
  /\ LET s == consumer.split
     IN  series' = IF \E ph \in Phases : s[ph] < 0 THEN series
                   ELSE [name \in DOMAIN series |->
                           IF name \in Phases
                           THEN Observe(series[name], s[name], consumer.now, consumer.of)
                           ELSE series[name]]
  /\ phased' = Append(phased, [of |-> consumer.of, split |-> consumer.split, at |-> consumer.now])
  /\ consumer' = Nobody
  /\ UNCHANGED <<clock, badgeVars, stateVars, heard, readerVars>>
-----------------------------------------------------------------------------
(* The badge.                                                               *)

Busy(caller) == \E c \in degrading : c.caller = caller

(* degrade: the counter, and then the stamp under the lock.                 *)
Count(caller) ==
  /\ Room
  /\ counters' = counters + 1
  /\ degrading' = degrading \cup {[caller |-> caller, since |-> clock]}
  /\ UNCHANGED <<lastDegradedAt, transcriptErr, auditErr, faults>>

MarkDegraded(what, at) ==
  /\ lastDegradedAt' = at
  /\ faults' = faults \cup {[what |-> what, at |-> clock]}

StampWith(c, at) ==
  /\ degrading' = degrading \ {c}
  /\ MarkDegraded("event", at)
  /\ UNCHANGED <<clock, counters, transcriptErr, auditErr, stateVars, seriesVars, readerVars>>

(* Slip: the clock is read before the lock is taken.                        *)
StampAsCounted(c) == StampWith(c, c.since)

Stamp(c) == StampWith(c, clock)

SetTranscriptError ==
  /\ ~transcriptErr /\ Room
  /\ transcriptErr' = TRUE
  /\ MarkDegraded("error", clock)
  /\ UNCHANGED <<clock, counters, degrading, auditErr, stateVars, seriesVars, readerVars>>

SetAuditError ==
  /\ ~auditErr /\ Room
  /\ auditErr' = TRUE
  /\ MarkDegraded("error", clock)
  /\ UNCHANGED <<clock, counters, degrading, transcriptErr, stateVars, seriesVars, readerVars>>

(* The source's goroutine: the first audio, the end of a process, and the   *)
(* restart that is counted after it (device.go Start).                      *)
Capturing ==
  /\ source = "start"
  /\ source' = "read" /\ sourceState' = "capturing"
  /\ UNCHANGED <<clock, badgeVars, sttState, engine, seriesVars, readerVars>>

Unavailable ==
  /\ source \in {"start", "read"} /\ ~Busy("source") /\ Room
  /\ source' = "lost" /\ sourceState' = "unavailable"
  /\ UNCHANGED <<clock, badgeVars, sttState, engine, seriesVars, readerVars>>

Restart ==
  /\ source = "lost" /\ ~Busy("source")
  /\ Count("source")
  /\ source' = "start"
  /\ UNCHANGED <<clock, sourceState, sttState, engine, seriesVars, readerVars>>

(* The engine's goroutine: Run's loop, fail and the pause.                  *)
SetSTTState(from, to, next) ==
  /\ engine = from /\ ~Busy("stt")
  /\ engine' = next /\ sttState' = to
  /\ UNCHANGED <<clock, badgeVars, sourceState, source, seriesVars, readerVars>>

Fail == SetSTTState("up", "reconnecting", "failed") \/ SetSTTState("dial", "reconnecting", "failed")

Reconnect ==
  /\ engine = "failed" /\ ~Busy("stt")
  /\ Count("stt")
  /\ engine' = "idle"
  /\ UNCHANGED <<clock, sourceState, source, sttState, seriesVars, readerVars>>

Engine ==
  \/ SetSTTState("idle", "connecting", "dial")
  \/ SetSTTState("dial", "connected", "up")
  \/ Fail
  \/ Reconnect
  \/ SetSTTState("up", "paused", "idle")

(* shutdown, once the engine returned.                                      *)
SetClosed ==
  /\ engine \in {"idle", "dial", "up"} /\ ~Busy("stt")
  /\ engine' = "over" /\ sttState' = "closed"
  /\ UNCHANGED <<clock, badgeVars, sourceState, source, seriesVars, readerVars>>
-----------------------------------------------------------------------------
(* Snapshot.                                                                *)

(* Under the lock: every series is trimmed and summed up, the rest copied.  *)
Copy ==
  /\ reader = "idle"
  /\ LET trimmed == [name \in DOMAIN series |-> Trim(series[name], clock)]
     IN  /\ series' = trimmed
         /\ copied' = [at |-> clock,
                       stats |-> [name \in DOMAIN series |-> Stats(trimmed[name])],
                       sourceState |-> sourceState, lastDegradedAt |-> lastDegradedAt,
                       transcriptErr |-> transcriptErr, auditErr |-> auditErr,
                       faults |-> faults]
  /\ reader' = "copied"
  /\ UNCHANGED <<clock, badgeVars, stateVars, consumer, heard, phased>>

InWindow == copied.lastDegradedAt # Never /\ clock - copied.lastDegradedAt <= DegradedWindow
SourceGone == Live /\ copied.sourceState \in {"missing", "unavailable"}

(* After it: the switch at the end of Snapshot, by the STT state of now.    *)
Health ==
  IF sttState = "closed" THEN "closed"
  ELSE IF SourceGone THEN "degraded"
  ELSE IF sttState = "paused" THEN "paused"
  ELSE IF InWindow \/ copied.transcriptErr \/ copied.auditErr THEN "degraded"
  ELSE "ok"

(* Snapshot returns, with Health.                                           *)
Return ==
  /\ reader = "copied"
  /\ reader' = "idle" /\ copied' = Nothing
  /\ UNCHANGED <<clock, badgeVars, stateVars, seriesVars>>
-----------------------------------------------------------------------------
Tick ==
  /\ clock < MaxClock
  /\ clock' = clock + 1
  /\ UNCHANGED <<badgeVars, stateVars, seriesVars, readerVars>>

Init ==
  /\ clock = 0
  /\ counters = 0 /\ degrading = {} /\ lastDegradedAt = Never
  /\ transcriptErr = FALSE /\ auditErr = FALSE /\ faults = {}
  /\ sourceState \in IF Live THEN {"starting", "missing"} ELSE {""}
  /\ source = IF sourceState = "starting" THEN "start" ELSE "none"
  /\ sttState = "idle" /\ engine = "idle"
  /\ series = [name \in Phases \cup {"caption"} |-> <<>>]
  /\ consumer = Nobody /\ heard = <<>> /\ phased = <<>>
  /\ reader = "idle" /\ copied = Nothing

Next ==
  \/ \E split \in Splits : ObserveLatency(split)
  \/ ReadClock \/ ObservePhases
  \/ \E c \in degrading : Stamp(c)
  \/ SetTranscriptError \/ SetAuditError
  \/ Capturing \/ Unavailable \/ Restart
  \/ Engine \/ SetClosed
  \/ Copy \/ Return
  \/ Tick

Spec == Init /\ [][Next]_vars
-----------------------------------------------------------------------------
TypeOK ==
  /\ clock \in 0..MaxClock /\ counters \in 0..MaxEvents
  /\ degrading \subseteq [caller : {"source", "stt"}, since : 0..clock]
  /\ lastDegradedAt \in {Never} \cup 0..clock
  /\ {transcriptErr, auditErr} \subseteq BOOLEAN
  /\ sourceState \in {"", "missing", "starting", "capturing", "unavailable"}
  /\ source \in {"none", "start", "read", "lost"}
  /\ sttState \in {"idle", "connecting", "connected", "reconnecting", "paused", "closed"}
  /\ engine \in {"idle", "dial", "up", "failed", "over"}
  /\ \A name \in DOMAIN series : Len(series[name]) <= LatencyCap
  /\ reader \in {"idle", "copied"}

(* What a snapshot says of the session is what happened to it: it is        *)
(* degraded for as long as the window lasts after the latest event, of      *)
(* whatever caller, whose call was over when the snapshot was taken, for     *)
(* good after an error of a file, and otherwise never; a live source that   *)
(* is away comes before a pause and before all that, the end before that.   *)
(* (degrade, the health switch of Snapshot.)                                *)
HealthTellsHistory ==
  reader = "copied" =>
    LET standing == \E f \in copied.faults :
                      f.what = "error" \/ clock - f.at <= DegradedWindow
        away == Live /\ copied.sourceState \in {"missing", "unavailable"}
    IN  /\ Health = "closed" <=> sttState = "closed"
        /\ Health = "paused" <=> sttState = "paused" /\ ~away
        /\ Health = "degraded" <=>
             sttState # "closed" /\ (away \/ (sttState # "paused" /\ standing))

(* What is measured of a transcript: nothing of a phase if one is negative. *)
Measure(name, t) == IF name = "caption" THEN Total(t.split) ELSE t.split[name]
Measured(name, t) ==
  IF name = "caption" THEN Total(t.split) >= 0 ELSE \A ph \in Phases : t.split[ph] >= 0

(* The measured transcripts of the last LatencyWindow, the latest LatencyCap*)
(* of them.                                                                 *)
InTime(name, now, all) ==
  {i \in 1..Len(all) : Measured(name, all[i]) /\ now - all[i].at <= LatencyWindow}
Recent(name, now, all) ==
  {i \in InTime(name, now, all) :
     Cardinality({k \in InTime(name, now, all) : k > i}) < LatencyCap}

(* st is what those transcripts measured.                                   *)
Describes(st, name, all, recent) ==
  LET AtMost(d) == Cardinality({i \in recent : Measure(name, all[i]) <= d})
  IN  /\ st.n = Cardinality(recent)
      /\ recent # {} =>
           /\ \E i \in recent : st.last = Measure(name, all[i]) /\ \A k \in recent : k <= i
           /\ {st.p50, st.p95, st.max} \subseteq {Measure(name, all[i]) : i \in recent}
           /\ st.p50 <= st.p95 /\ st.p95 <= st.max
           /\ 2 * AtMost(st.p50) >= st.n
           /\ 20 * AtMost(st.p95) >= 19 * st.n
           /\ AtMost(st.max) = st.n

(* The figures of a snapshot are those of the transcripts observed within   *)
(* the window, however long nobody looked and whatever was trimmed when: the *)
(* total has all that were observed, and the three phases have all of which *)
(* the phases were, each by the instant read for it, so the phases stand for *)
(* the same transcripts; and at least half of them, and nineteen in twenty, *)
(* are at or below p50 and p95.  (latencySeries, ObserveLatency,            *)
(* ObservePhases, Snapshot.)                                                *)
Observed(name) == IF name = "caption" THEN heard ELSE phased
StatsDescribeWindow ==
  [][reader = "idle" /\ reader' = "copied" =>
       \A name \in DOMAIN series :
         Describes(copied'.stats[name], name, Observed(name),
                   Recent(name, clock, Observed(name)))]_vars
=============================================================================
