-------------------------- MODULE TranscriptWriter --------------------------
(***************************************************************************)
(* The transcript writer and its audit companion (internal/caption/writer.go *)
(* and audit.go): two buffered files under one mutex, a failure policy each. *)
(*                                                                         *)
(* What a goroutine does under `mu' is one action; what it does after the   *)
(* unlock (flushPendingAuditErr, reportAuditErr) is another.  Lines, markers *)
(* and records are whole entries, written or not.                           *)
(***************************************************************************)
EXTENDS Naturals, Sequences

CONSTANTS
  Lines,      (* the lines OnFinal can hand over                             *)
  Markers,    (* the marker lines: music, silence                            *)
  Diagnostics,(* goroutines that record gate edges, states, drops or logs    *)
  BufCap,     (* bufio.Writer's size, in entries                             *)
  MaxWrites,  (* bound of the model: lines and markers written               *)
  MaxRecords  (* bound of the model: other audit records                     *)

(* Besides the diagnosing goroutines: the one that publishes (the hub's `op' *)
(* serializes it), the flush ticker, and the one that shuts down.           *)
Threads == Diagnostics \cup {"hub", "ticker", "main"}

ASSUME WriterAssumption ==
  /\ Lines \cap Markers = {}
  /\ {"none", "record", "error"} \cap (Lines \cup Markers) = {}
  /\ Diagnostics \cap {"hub", "ticker", "main"} = {}
  /\ BufCap \in Nat \ {0}
  /\ MaxWrites \in Nat
  /\ MaxRecords \in Nat

VARIABLES
  txt, audit,      (* the two files with their bufio writers                 *)
  txtDisk, auditDisk, (* whether a write to that file would succeed          *)
  closed, lastMarker, auditDisabled, pendingAuditErr,
  phase,           (* where shutdown is: "run", "flushed", "ended", "closed" *)
  after,           (* what a goroutine has still to do outside the lock      *)
  asked,           (* history: lines and markers given to an open writer     *)
  records,         (* history: other audit records so far                    *)
  reports          (* history: calls of OnAuditFail                          *)

vars == <<txt, audit, txtDisk, auditDisk, closed, lastMarker, auditDisabled,
          pendingAuditErr, phase, after, asked, records, reports>>
disks == <<txtDisk, auditDisk>>
sink == <<audit, auditDisabled, pendingAuditErr>>

Entries == Lines \cup Markers
-----------------------------------------------------------------------------
(* bufio.Writer over a file: entries move to the file when there is no room *)
(* or on Flush, and the first failed write makes every later one fail.  The *)
(* mirrored entries are remembered; the other records of the audit only     *)
(* take room.                                                               *)
Moved(f, disk) ==
  IF disk THEN [buf |-> <<>>, others |-> 0, file |-> f.file \o f.buf, broken |-> f.broken]
          ELSE [f EXCEPT !.broken = TRUE]

Put(f, disk, entry) ==
  LET room == IF f.broken \/ Len(f.buf) + f.others < BufCap THEN f ELSE Moved(f, disk)
  IN  IF room.broken THEN room
      ELSE IF entry \in Entries THEN [room EXCEPT !.buf = Append(@, entry)]
      ELSE [room EXCEPT !.others = @ + 1]

Flushed(f, disk) ==
  IF f.broken \/ (f.buf = <<>> /\ f.others = 0) THEN f ELSE Moved(f, disk)

(* writeAuditLocked: a failure, of the file or to marshal the record,       *)
(* retires the sink and stashes the error.                                  *)
WriteAuditLocked(entry, marshals) ==
  LET next  == IF auditDisabled \/ ~marshals THEN audit
               ELSE Put(audit, auditDisk, entry)
      fails == ~auditDisabled /\ (next.broken \/ ~marshals)
  IN  /\ audit' = next
      /\ auditDisabled' = (auditDisabled \/ fails)
      /\ pendingAuditErr' = (pendingAuditErr \/ fails)

Idle(t) == after[t] = <<>>
Then(t, todo) == after' = [after EXCEPT ![t] = todo]

(* Write, given whether the line is a repeated marker and what lastMarker   *)
(* becomes.  The audit record comes last; a failed line leaves an error     *)
(* record in its place.                                                     *)
WriteAs(l, repeated, mark) ==
  /\ Idle("hub")
  /\ ~closed
  /\ Len(asked) < MaxWrites
  /\ asked' = Append(asked, l)
  /\ IF repeated
     THEN UNCHANGED <<txt, lastMarker, sink, after>>
     ELSE /\ txt' = Put(txt, txtDisk, l)
          /\ lastMarker' = IF txt'.broken THEN lastMarker ELSE mark
          /\ WriteAuditLocked(IF txt'.broken THEN "error" ELSE l, TRUE)
          /\ Then("hub", <<"pending">>)
  /\ UNCHANGED <<disks, closed, phase, records, reports>>

(* Slips: a line does not end the run of markers before it; a repeated      *)
(* marker is kept out of the transcript only.                               *)
WriteForgetful(l) ==
  WriteAs(l, l = lastMarker, IF l \in Markers THEN l ELSE lastMarker)

WriteAuditsRepeats(l) ==
  IF l = lastMarker
  THEN /\ Idle("hub") /\ ~closed /\ Len(asked) < MaxWrites
       /\ asked' = Append(asked, l)
       /\ WriteAuditLocked(l, TRUE)
       /\ Then("hub", <<"pending">>)
       /\ UNCHANGED <<txt, disks, closed, lastMarker, phase, records, reports>>
  ELSE WriteAs(l, FALSE, IF l \in Markers THEN l ELSE "none")

Write(l) == WriteAs(l, l = lastMarker, IF l \in Markers THEN l ELSE "none")

(* writeAudit, the body of SessionStart, GateEdge, GateConfig, StateEvent,  *)
(* DropEvent, LogRecord and SessionEnd: it does not look at `closed'.  Only *)
(* the free-form attributes of a LogRecord can fail to marshal.             *)
WriteAudit(t, marshals) ==
  /\ Idle(t)
  /\ WriteAuditLocked("record", marshals)
  /\ Then(t, IF auditDisabled' /\ ~auditDisabled THEN <<"report">> ELSE <<>>)
  /\ UNCHANGED <<txt, disks, closed, lastMarker, asked, reports>>

Diagnose(t, marshals) ==
  /\ records < MaxRecords
  /\ records' = records + 1
  /\ WriteAudit(t, marshals)
  /\ UNCHANGED phase

SessionEnd ==
  /\ phase = "flushed"
  /\ phase' = "ended"
  /\ WriteAudit("main", TRUE)
  /\ UNCHANGED records
-----------------------------------------------------------------------------
(* What flush and Close share: the transcript is flushed first, a failure   *)
(* is noted in the audit, then the audit is flushed.  A failure of the note *)
(* is stashed; a failure of the audit's own flush is the caller's to report. *)
Noted ==
  IF Flushed(txt, txtDisk).broken /\ ~auditDisabled
  THEN Put(audit, auditDisk, "error") ELSE audit

Retired == auditDisabled \/ Noted.broken

FlushRetires == ~Retired /\ Flushed(Noted, auditDisk).broken

FlushFiles ==
  /\ txt' = Flushed(txt, txtDisk)
  /\ audit' = Flushed(Noted, auditDisk)
  /\ auditDisabled' = (Retired \/ FlushRetires)
  /\ pendingAuditErr' = (pendingAuditErr \/ (Retired /\ ~auditDisabled))

(* Slip: flushes the audit stream only.                                     *)
FlushAuditOnly ==
  /\ audit' = Flushed(audit, auditDisk)
  /\ auditDisabled' = (auditDisabled \/ audit'.broken)
  /\ UNCHANGED <<txt, pendingAuditErr>>

Report(needed) == IF needed THEN <<"report">> ELSE <<>>

TickWith(files) ==
  /\ Idle("ticker")
  /\ ~closed
  /\ files
  /\ Then("ticker", Report(FlushRetires))
  /\ UNCHANGED <<disks, closed, lastMarker, phase, asked, records, reports>>

(* Slip: the ticker flushes the audit stream only.                          *)
TickAuditOnly == TickWith(FlushAuditOnly)

(* The ticker's flush.                                                      *)
Tick == TickWith(FlushFiles)

(* shutdown: Flush, SessionEnd, Close, in this order.                       *)
FinalFlush ==
  /\ phase = "run" /\ Idle("main")
  /\ phase' = "flushed"
  /\ FlushFiles
  /\ Then("main", Report(FlushRetires))
  /\ UNCHANGED <<disks, closed, lastMarker, asked, records, reports>>

CloseReporting(stashed, cerr) ==
  /\ phase = "ended" /\ Idle("main")
  /\ phase' = "closed"
  /\ closed' = TRUE
  /\ FlushFiles
  /\ txtDisk' = FALSE /\ auditDisk' = FALSE
  /\ Then("main", Report(stashed /\ pendingAuditErr')
                  \o Report(FlushRetires \/ (cerr /\ ~auditDisabled')))
  /\ UNCHANGED <<lastMarker, asked, records, reports>>

(* Slip: leaves a stashed failure to the next Write, which never comes.     *)
CloseForgetful(cerr) == CloseReporting(FALSE, cerr)

(* A stashed failure is reported, and stays stashed; `cerr' is the error of *)
(* closing the audit file.                                                  *)
Close(cerr) == CloseReporting(TRUE, cerr)
-----------------------------------------------------------------------------
(* flushPendingAuditErr.                                                    *)
FlushPending(t) ==
  /\ ~Idle(t) /\ Head(after[t]) = "pending"
  /\ pendingAuditErr' = FALSE
  /\ Then(t, Report(pendingAuditErr) \o Tail(after[t]))
  /\ UNCHANGED <<txt, audit, disks, closed, lastMarker, auditDisabled, phase,
                 asked, records, reports>>

(* reportAuditErr: OnAuditFail logs a warning, and AuditLogHandler gives it *)
(* back to LogRecord: a retired sink ignores it.                            *)
ReportAuditErr(t) ==
  /\ ~Idle(t) /\ Head(after[t]) = "report"
  /\ reports' = reports + 1
  /\ WriteAuditLocked("record", TRUE)
  /\ Then(t, Report(auditDisabled' /\ ~auditDisabled) \o Tail(after[t]))
  /\ UNCHANGED <<txt, disks, closed, lastMarker, phase, asked, records>>

(* External: the disk under one of the files fills up or goes away.         *)
DiskFails ==
  /\ \/ txtDisk /\ txtDisk' = FALSE /\ UNCHANGED auditDisk
     \/ auditDisk /\ auditDisk' = FALSE /\ UNCHANGED txtDisk
  /\ UNCHANGED <<txt, sink, closed, lastMarker, phase, after, asked, records,
                 reports>>
-----------------------------------------------------------------------------
Empty == [buf |-> <<>>, others |-> 0, file |-> <<>>, broken |-> FALSE]

(* NewWriter, when both files could be created.                             *)
Init ==
  /\ txt = Empty /\ audit = Empty /\ txtDisk = TRUE /\ auditDisk = TRUE
  /\ closed = FALSE /\ lastMarker = "none" /\ auditDisabled = FALSE
  /\ pendingAuditErr = FALSE /\ phase = "run"
  /\ after = [t \in Threads |-> <<>>]
  /\ asked = <<>> /\ records = 0 /\ reports = 0

AfterUnlock(t) == FlushPending(t) \/ ReportAuditErr(t)

Next ==
  \/ \E l \in Entries : Write(l)
  \/ \E t \in Diagnostics, marshals \in BOOLEAN : Diagnose(t, marshals)
  \/ Tick \/ FinalFlush \/ SessionEnd
  \/ \E cerr \in BOOLEAN : Close(cerr)
  \/ \E t \in Threads : FlushPending(t)
  \/ \E t \in Threads : ReportAuditErr(t)
  \/ DiskFails

Spec == Init /\ [][Next]_vars

(* The ticker goes on until Close, and every goroutine finishes its call.   *)
FairSpec ==
  /\ Spec
  /\ WF_vars(Tick)
  /\ \A t \in Threads : WF_vars(AfterUnlock(t))
-----------------------------------------------------------------------------
File == [buf : Seq(Entries), others : Nat, file : Seq(Entries), broken : BOOLEAN]

(* Every variable stays in the set of values the Go types allow, and no     *)
(* buffer outgrows its size (Put).                                          *)
TypeOK ==
  /\ txt \in File /\ Len(txt.buf) + txt.others <= BufCap
  /\ audit \in File /\ Len(audit.buf) + audit.others <= BufCap
  /\ txtDisk \in BOOLEAN /\ auditDisk \in BOOLEAN /\ closed \in BOOLEAN
  /\ lastMarker \in Markers \cup {"none"}
  /\ auditDisabled \in BOOLEAN /\ pendingAuditErr \in BOOLEAN
  /\ phase \in {"run", "flushed", "ended", "closed"}
  /\ after \in [Threads -> Seq({"pending", "report"})]
  /\ asked \in Seq(Entries) /\ records \in Nat /\ reports \in Nat

Written(f) == f.file \o f.buf

(* The audit stream repeats the transcript entry by entry, in its order, as *)
(* long as neither file has failed (auditCaptionLine inside Write).         *)
AuditMirrorsTranscript ==
  ~txt.broken /\ ~auditDisabled => Written(audit) = Written(txt)

(* The lines and markers that are to be kept.                               *)
Kept == {i \in 1..Len(asked) :
           i = 1 \/ asked[i] \in Lines \/ asked[i] # asked[i - 1]}

(* Of several equal markers in a row the first is written, whatever came    *)
(* before, and every line is (lastMarker), in the order they were asked     *)
(* for; an audit failure changes nothing.                                   *)
CompactionIsExact ==
  ~txt.broken =>
    \E at \in [1..Len(Written(txt)) -> Kept] :
      /\ \A i, j \in DOMAIN at : i < j => at[i] < at[j]
      /\ \A k \in Kept : \E i \in DOMAIN at : at[i] = k
      /\ \A i \in DOMAIN at : Written(txt)[i] = asked[at[i]]

(* Whoever retires the audit stream, at the latest the end of Close has     *)
(* told the operator.                                                       *)
RetirementIsReported ==
  closed /\ auditDisabled /\ (\A t \in Threads : Idle(t)) => reports > 0

(* A written line reaches the file, or the writer finds out that it cannot: *)
(* it never sits in the buffer for the rest of the session (the ticker).    *)
LinesReachTheFile == txt.buf # <<>> ~> (txt.buf = <<>> \/ txt.broken)

(* audit.go:255: "reporting failure exactly once"; audit_test.go:277:       *)
(* "OnAuditFail called %d times, want exactly 1".                           *)
ReportedOnce == reports <= 1
=============================================================================
