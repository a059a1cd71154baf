----------------------- MODULE TranscriptWriterProofs -----------------------
(***************************************************************************)
(* Theorems about the transcript writer and its audit stream, for any lines, *)
(* buffer, diagnosing goroutines and number of writes.                      *)
(***************************************************************************)
EXTENDS TranscriptWriter, SequenceTheorems, TLAPS

(* The file has failed at the latest when the stream is retired, and Close  *)
(* is the last step of shutdown.                                            *)
ControlInv ==
  /\ audit.broken => auditDisabled
  /\ closed <=> phase = "closed"

(* Somebody has still to tell the operator that the stream was retired.     *)
ReportPending ==
  \E t \in Threads : \E i \in 1..Len(after[t]) : after[t][i] = "report"

ReportInv ==
  auditDisabled => reports > 0 \/ ReportPending \/ (pendingAuditErr /\ ~closed)

(* lastMarker is the marker the transcript ends with, if it ends with one.  *)
MarkInv ==
  ~txt.broken =>
    lastMarker = IF asked # <<>> /\ asked[Len(asked)] \in Markers
                 THEN asked[Len(asked)] ELSE "none"
-----------------------------------------------------------------------------
(* The operators of the buffered files.                                     *)
InRoom(f) == f \in File /\ Len(f.buf) + f.others <= BufCap

LEMMA SingleSeq ==
  ASSUME NEW S, NEW e \in S
  PROVE  <<e>> \in Seq(S)
OBVIOUS

LEMMA WrittenType ==
  ASSUME NEW f \in File
  PROVE  Written(f) \in Seq(Entries)
BY ConcatProperties DEF File, Written

LEMMA MovedFile ==
  ASSUME NEW f, InRoom(f), ~f.broken, NEW disk \in BOOLEAN
  PROVE  /\ InRoom(Moved(f, disk))
         /\ Moved(f, disk).broken <=> ~disk
         /\ disk => /\ Moved(f, disk).buf = <<>> /\ Moved(f, disk).others = 0
                    /\ Written(Moved(f, disk)) = Written(f)
<1>1. f \in File /\ f.file \in Seq(Entries) /\ f.buf \in Seq(Entries)
  BY DEF InRoom, File
<1>2. CASE disk
  <2>2. PICK both \in Seq(Entries), none \in Seq(Entries) :
          both = f.file \o f.buf /\ none = <<>> /\ Len(none) = 0
    BY <1>1, ConcatProperties, EmptySeq
  <2>3. Moved(f, disk) = [buf |-> none, others |-> 0, file |-> both, broken |-> f.broken]
    BY <1>2, <2>2 DEF Moved
  <2>4. /\ Moved(f, disk).file = both /\ Moved(f, disk).buf = none
        /\ Moved(f, disk).others = 0 /\ Moved(f, disk).broken = f.broken
        /\ Moved(f, disk) \in File
    BY <1>1, <2>3 DEF File
  <2>5. Written(Moved(f, disk)) = Written(f)
    BY <2>2, <2>4, ConcatEmptySeq DEF Written
  <2>6. Len(none) + 0 <= BufCap
    BY <2>2, WriterAssumption
  <2>7. InRoom(Moved(f, disk))
    BY <2>4, <2>6 DEF InRoom
  <2> QED
    BY <1>2, <2>2, <2>4, <2>5, <2>7
<1>3. CASE ~disk
  <2>1. Moved(f, disk) = [f EXCEPT !.broken = TRUE]
    BY <1>3 DEF Moved
  <2> QED
    BY <1>1, <1>3, <2>1 DEF InRoom, File
<1> QED
  BY <1>2, <1>3

(* A write either fails for good or is the last entry of what was written.  *)
LEMMA PutFile ==
  ASSUME NEW f, InRoom(f), NEW disk \in BOOLEAN, NEW entry
  PROVE  /\ InRoom(Put(f, disk, entry))
         /\ f.broken => Put(f, disk, entry).broken
         /\ ~Put(f, disk, entry).broken =>
              Written(Put(f, disk, entry)) =
                IF entry \in Entries THEN Append(Written(f), entry) ELSE Written(f)
<1> DEFINE room == IF f.broken \/ Len(f.buf) + f.others < BufCap THEN f ELSE Moved(f, disk)
<1>1. /\ InRoom(room) /\ (f.broken => room.broken)
      /\ ~room.broken => Written(room) = Written(f) /\ Len(room.buf) + room.others < BufCap
  <2>1. CASE f.broken \/ Len(f.buf) + f.others < BufCap
    BY <2>1
  <2>2. CASE ~(f.broken \/ Len(f.buf) + f.others < BufCap)
    <3>1. room = Moved(f, disk)
      BY <2>2
    <3>2. Len(<<>>) + 0 < BufCap
      BY WriterAssumption
    <3> QED
      BY <2>2, <3>1, <3>2, MovedFile
  <2> QED
    BY <2>1, <2>2
<1>2. Put(f, disk, entry) = IF room.broken THEN room
                            ELSE IF entry \in Entries THEN [room EXCEPT !.buf = Append(room.buf, entry)]
                            ELSE [room EXCEPT !.others = room.others + 1]
  BY DEF Put
<1> HIDE DEF room
<1>3. /\ room \in File /\ room.file \in Seq(Entries) /\ room.buf \in Seq(Entries)
      /\ room.others \in Nat /\ Len(room.buf) \in Nat
  BY <1>1, LenProperties DEF InRoom, File
<1>4. CASE room.broken
  BY <1>1, <1>2, <1>4
<1>5. CASE ~room.broken /\ entry \in Entries
  <2>1. Append(room.buf, entry) \in Seq(Entries) /\ Len(Append(room.buf, entry)) = Len(room.buf) + 1
    BY <1>3, <1>5, AppendProperties
  <2>2. Put(f, disk, entry) = [room EXCEPT !.buf = Append(room.buf, entry)]
    BY <1>2, <1>5
  <2>3. /\ Put(f, disk, entry) \in File /\ Put(f, disk, entry).file = room.file
        /\ Put(f, disk, entry).buf = Append(room.buf, entry)
        /\ Put(f, disk, entry).others = room.others
    BY <1>3, <2>1, <2>2 DEF File
  <2>4. room.file \o Append(room.buf, entry) = Append(room.file \o room.buf, entry)
    <3>1. PICK one \in Seq(Entries) : one = <<entry>>
      BY <1>5, SingleSeq
    <3>2. Append(room.buf, entry) = room.buf \o one
      BY <1>3, <1>5, <3>1, AppendIsConcat
    <3>3. room.file \o room.buf \in Seq(Entries)
      BY <1>3, ConcatProperties
    <3>4. Append(room.file \o room.buf, entry) = (room.file \o room.buf) \o one
      BY <1>5, <3>1, <3>3, AppendIsConcat
    <3>5. (room.file \o room.buf) \o one = room.file \o (room.buf \o one)
      <4>1. room.file \in Seq(Entries) /\ room.buf \in Seq(Entries) /\ one \in Seq(Entries)
        BY <1>3, <3>1
      <4>2. \A s, t, u \in Seq(Entries) : (s \o t) \o u = s \o (t \o u)
        BY ConcatAssociative
      <4> QED
        BY <4>1, <4>2, Zenon
    <3> QED
      BY <3>2, <3>4, <3>5
  <2>5. Written(Put(f, disk, entry)) = Append(Written(room), entry)
    BY <2>3, <2>4 DEF Written
  <2>6. InRoom(Put(f, disk, entry))
    BY <1>1, <1>3, <1>5, <2>1, <2>3, WriterAssumption DEF InRoom
  <2> QED
    BY <1>1, <1>5, <2>5, <2>6
<1>6. CASE ~room.broken /\ entry \notin Entries
  <2>1. Put(f, disk, entry) = [room EXCEPT !.others = room.others + 1]
    BY <1>2, <1>6
  <2>2. /\ Put(f, disk, entry) \in File /\ Put(f, disk, entry).file = room.file
        /\ Put(f, disk, entry).buf = room.buf
        /\ Put(f, disk, entry).others = room.others + 1
    BY <1>3, <2>1 DEF File
  <2>3. InRoom(Put(f, disk, entry))
    BY <1>1, <1>3, <1>6, <2>2, WriterAssumption DEF InRoom
  <2> QED
    BY <1>1, <1>6, <2>2, <2>3 DEF Written
<1> QED
  BY <1>4, <1>5, <1>6

LEMMA FlushedFile ==
  ASSUME NEW f, InRoom(f), NEW disk \in BOOLEAN
  PROVE  /\ InRoom(Flushed(f, disk))
         /\ f.broken => Flushed(f, disk).broken
         /\ ~Flushed(f, disk).broken => Written(Flushed(f, disk)) = Written(f)
BY MovedFile DEF Flushed
-----------------------------------------------------------------------------
Todo == {"pending", "report"}

FilesType ==
  /\ InRoom(txt) /\ InRoom(audit)
  /\ txtDisk \in BOOLEAN /\ auditDisk \in BOOLEAN

StateType ==
  /\ closed \in BOOLEAN
  /\ auditDisabled \in BOOLEAN /\ pendingAuditErr \in BOOLEAN

HistoryType ==
  /\ lastMarker \in Markers \cup {"none"}
  /\ phase \in {"run", "flushed", "ended", "closed"}
  /\ after \in [Threads -> Seq(Todo)]
  /\ asked \in Seq(Entries) /\ records \in Nat /\ reports \in Nat

TypeInv == FilesType /\ StateType /\ HistoryType /\ ControlInv

LEMMA TypeInit == Init => TypeInv
<1> SUFFICES ASSUME Init PROVE TypeInv
  OBVIOUS
<1>1. InRoom(Empty) /\ Empty.broken = FALSE
  <2>1. <<>> \in Seq(Entries) /\ Len(<<>>) = 0
    BY EmptySeq
  <2> QED
    BY <2>1, WriterAssumption DEF InRoom, Empty, File
<1>2. FilesType
  BY <1>1, Zenon DEF Init, FilesType
<1>3. StateType
  BY Zenon DEF Init, StateType
<1>4. HistoryType
  BY EmptySeq DEF Init, HistoryType
<1>5. ControlInv
  BY <1>1 DEF Init, ControlInv
<1> QED
  BY <1>2, <1>3, <1>4, <1>5 DEF TypeInv

LEMMA Locked ==
  ASSUME TypeInv, NEW entry, NEW marshals \in BOOLEAN, WriteAuditLocked(entry, marshals)
  PROVE  /\ InRoom(audit') /\ auditDisabled' \in BOOLEAN /\ pendingAuditErr' \in BOOLEAN
         /\ audit'.broken => auditDisabled'
         /\ auditDisabled => auditDisabled'
         /\ pendingAuditErr => pendingAuditErr'
         /\ auditDisabled' /\ ~auditDisabled => pendingAuditErr'
         /\ ~auditDisabled' =>
              Written(audit') = IF entry \in Entries THEN Append(Written(audit), entry)
                                ELSE Written(audit)
<1> DEFINE next == IF auditDisabled \/ ~marshals THEN audit ELSE Put(audit, auditDisk, entry)
           fails == ~auditDisabled /\ (next.broken \/ ~marshals)
<1>1. /\ audit' = next /\ auditDisabled' = (auditDisabled \/ fails)
      /\ pendingAuditErr' = (pendingAuditErr \/ fails)
  BY DEF WriteAuditLocked
<1>2. InRoom(audit) /\ auditDisk \in BOOLEAN /\ (audit.broken => auditDisabled)
  BY DEF TypeInv, FilesType, ControlInv
<1>3. InRoom(next) /\ (~auditDisabled /\ marshals => next = Put(audit, auditDisk, entry))
  BY <1>2, PutFile
<1> HIDE DEF next
<1>4. auditDisabled' \in BOOLEAN /\ pendingAuditErr' \in BOOLEAN
  BY <1>1
<1>5. audit'.broken => auditDisabled'
  BY <1>1
<1>6. /\ auditDisabled => auditDisabled'
      /\ pendingAuditErr => pendingAuditErr'
      /\ auditDisabled' /\ ~auditDisabled => pendingAuditErr'
  BY <1>1
<1>7. ~auditDisabled' => ~auditDisabled /\ marshals /\ ~next.broken
  BY <1>1
<1> QED
  BY <1>1, <1>2, <1>3, <1>4, <1>5, <1>6, <1>7, PutFile

LEMMA FlushedFiles ==
  ASSUME TypeInv, FlushFiles
  PROVE  /\ InRoom(txt') /\ InRoom(audit')
         /\ auditDisabled' \in BOOLEAN /\ pendingAuditErr' \in BOOLEAN
         /\ audit'.broken => auditDisabled'
         /\ auditDisabled => auditDisabled'
         /\ pendingAuditErr => pendingAuditErr'
         /\ auditDisabled' /\ ~auditDisabled => pendingAuditErr' \/ FlushRetires
         /\ txt.broken => txt'.broken
         /\ ~txt'.broken => Written(txt') = Written(txt)
         /\ ~txt'.broken /\ ~auditDisabled' => Written(audit') = Written(audit)
<1>1. /\ InRoom(audit) /\ InRoom(txt) /\ auditDisk \in BOOLEAN /\ txtDisk \in BOOLEAN
      /\ audit.broken => auditDisabled
  BY DEF TypeInv, FilesType, ControlInv
<1>2. /\ txt' = Flushed(txt, txtDisk) /\ audit' = Flushed(Noted, auditDisk)
      /\ auditDisabled' = (Retired \/ FlushRetires)
      /\ pendingAuditErr' = (pendingAuditErr \/ (Retired /\ ~auditDisabled))
  BY DEF FlushFiles
<1>3. InRoom(Noted) /\ (~Flushed(txt, txtDisk).broken => Noted = audit)
  BY <1>1, PutFile DEF Noted
<1>4. InRoom(audit') /\ (~audit'.broken => Written(audit') = Written(Noted))
  BY <1>1, <1>2, <1>3, FlushedFile
<1>5. InRoom(txt') /\ (txt.broken => txt'.broken) /\ (~txt'.broken => Written(txt') = Written(txt))
  BY <1>1, <1>2, FlushedFile
<1>6. audit'.broken => auditDisabled'
  BY <1>2 DEF FlushRetires
<1>7. auditDisabled' \in BOOLEAN /\ pendingAuditErr' \in BOOLEAN /\ (auditDisabled => auditDisabled')
      /\ (pendingAuditErr => pendingAuditErr')
      /\ (auditDisabled' /\ ~auditDisabled => pendingAuditErr' \/ FlushRetires)
  BY <1>2 DEF Retired, FlushRetires
<1> QED
  BY <1>2, <1>3, <1>4, <1>5, <1>6, <1>7

(* What a step does to the files, and to what was asked for.                *)
LEMMA FileSteps ==
  ASSUME TypeInv, [Next]_vars
  PROVE  \/ \E l \in Entries : Write(l)
         \/ FlushFiles /\ UNCHANGED <<asked, lastMarker>>
         \/ /\ \E marshals \in BOOLEAN : WriteAuditLocked("record", marshals)
            /\ UNCHANGED <<txt, asked, lastMarker>>
         \/ UNCHANGED <<txt, audit, auditDisabled, asked, lastMarker>>
<1>1. ASSUME NEW t \in Diagnostics, NEW marshals \in BOOLEAN, Diagnose(t, marshals)
      PROVE  WriteAuditLocked("record", marshals) /\ UNCHANGED <<txt, asked, lastMarker>>
  BY <1>1 DEF Diagnose, WriteAudit
<1>2. CASE Tick \/ FinalFlush
  BY <1>2 DEF Tick, TickWith, FinalFlush
<1>3. CASE SessionEnd
  BY <1>3 DEF SessionEnd, WriteAudit
<1>4. ASSUME NEW cerr \in BOOLEAN, Close(cerr)
      PROVE  FlushFiles /\ UNCHANGED <<asked, lastMarker>>
  BY <1>4 DEF Close, CloseReporting
<1>5. ASSUME NEW t \in Threads, FlushPending(t)
      PROVE  UNCHANGED <<txt, audit, auditDisabled, asked, lastMarker>>
  BY <1>5 DEF FlushPending
<1>6. ASSUME NEW t \in Threads, ReportAuditErr(t)
      PROVE  WriteAuditLocked("record", TRUE) /\ UNCHANGED <<txt, asked, lastMarker>>
  BY <1>6 DEF ReportAuditErr
<1>7. CASE DiskFails \/ UNCHANGED vars
  BY <1>7 DEF DiskFails, sink, vars
<1> QED
  BY <1>1, <1>2, <1>3, <1>4, <1>5, <1>6, <1>7 DEF Next

(* A write: repeated, or the next entry of both files.                      *)
LEMMA WrittenLine ==
  ASSUME TypeInv, NEW l \in Entries, Write(l)
  PROVE  /\ asked' = Append(asked, l)
         /\ InRoom(txt') /\ InRoom(audit') /\ (txt.broken => txt'.broken)
         /\ auditDisabled' \in BOOLEAN /\ pendingAuditErr' \in BOOLEAN
         /\ audit'.broken => auditDisabled'
         /\ \/ l = lastMarker /\ UNCHANGED <<txt, lastMarker, sink, after>>
            \/ /\ l # lastMarker
               /\ ~txt'.broken => /\ Written(txt') = Append(Written(txt), l)
                                  /\ lastMarker' = IF l \in Markers THEN l ELSE "none"
               /\ ~txt'.broken /\ ~auditDisabled' => Written(audit') = Append(Written(audit), l)
               /\ auditDisabled => auditDisabled'
               /\ pendingAuditErr => pendingAuditErr'
               /\ auditDisabled' /\ ~auditDisabled => pendingAuditErr'
<1>1. /\ InRoom(audit) /\ InRoom(txt) /\ auditDisk \in BOOLEAN /\ txtDisk \in BOOLEAN
      /\ audit.broken => auditDisabled
      /\ auditDisabled \in BOOLEAN /\ pendingAuditErr \in BOOLEAN
  BY DEF TypeInv, FilesType, StateType, ControlInv
<1>2. asked' = Append(asked, l)
  BY DEF Write, WriteAs
<1>3. CASE l = lastMarker
  <2>1. UNCHANGED <<txt, lastMarker, sink, after>>
    BY <1>3 DEF Write, WriteAs
  <2> QED
    BY <1>1, <1>2, <1>3, <2>1 DEF sink
<1>4. CASE l # lastMarker
  <2>1. /\ txt' = Put(txt, txtDisk, l)
        /\ lastMarker' = IF txt'.broken THEN lastMarker ELSE IF l \in Markers THEN l ELSE "none"
        /\ WriteAuditLocked(IF txt'.broken THEN "error" ELSE l, TRUE)
    BY <1>4 DEF Write, WriteAs
  <2>2. /\ InRoom(txt') /\ (txt.broken => txt'.broken)
        /\ ~txt'.broken => Written(txt') = Append(Written(txt), l)
    BY <1>1, <2>1, PutFile
  <2> QED
    BY <1>2, <1>4, <2>1, <2>2, Locked
<1> QED
  BY <1>3, <1>4

LEMMA FilesTypeStep == TypeInv /\ [Next]_vars => FilesType' /\ StateType' /\ (audit.broken => auditDisabled)'
<1> SUFFICES ASSUME TypeInv, [Next]_vars
             PROVE  FilesType' /\ StateType' /\ (audit.broken => auditDisabled)'
  OBVIOUS
<1>0. TypeInv /\ FilesType /\ StateType /\ (audit.broken => auditDisabled)
  BY DEF TypeInv, ControlInv
<1>1. closed' \in BOOLEAN /\ txtDisk' \in BOOLEAN /\ auditDisk' \in BOOLEAN
  BY <1>0 DEF FilesType, StateType, Next, Write, WriteAs, Diagnose, WriteAudit, Tick, TickWith,
     FinalFlush, SessionEnd, Close, CloseReporting, FlushPending, ReportAuditErr, DiskFails, disks, vars
<1>2. /\ InRoom(txt') /\ InRoom(audit') /\ auditDisabled' \in BOOLEAN
      /\ audit'.broken => auditDisabled'
  <2>1. ASSUME NEW l \in Entries, Write(l)
        PROVE  /\ InRoom(txt') /\ InRoom(audit') /\ auditDisabled' \in BOOLEAN
               /\ audit'.broken => auditDisabled'
    BY <2>1, WrittenLine
  <2>2. CASE FlushFiles
    BY <2>2, FlushedFiles
  <2>3. ASSUME NEW marshals \in BOOLEAN, WriteAuditLocked("record", marshals), UNCHANGED txt
        PROVE  /\ InRoom(txt') /\ InRoom(audit') /\ auditDisabled' \in BOOLEAN
               /\ audit'.broken => auditDisabled'
    BY <1>0, <2>3, Locked DEF FilesType
  <2>4. CASE UNCHANGED <<txt, audit, auditDisabled>>
    BY <1>0, <2>4 DEF FilesType, StateType
  <2> QED
    BY <2>1, <2>2, <2>3, <2>4, FileSteps
<1>3. pendingAuditErr' \in BOOLEAN
  <2>1. ASSUME NEW l \in Entries, Write(l)
        PROVE  pendingAuditErr' \in BOOLEAN
    BY <2>1, WrittenLine
  <2>2. CASE Tick \/ FinalFlush \/ \E cerr \in BOOLEAN : Close(cerr)
    BY <2>2, FlushedFiles DEF Tick, TickWith, FinalFlush, Close, CloseReporting
  <2>3. ASSUME NEW marshals \in BOOLEAN, WriteAuditLocked("record", marshals)
        PROVE  pendingAuditErr' \in BOOLEAN
    BY <2>3, Locked
  <2>4. CASE \E t \in Threads : FlushPending(t)
    BY <2>4 DEF FlushPending
  <2>5. CASE DiskFails \/ UNCHANGED vars
    BY <1>0, <2>5 DEF StateType, DiskFails, sink, vars
  <2> QED
    BY <2>1, <2>2, <2>3, <2>4, <2>5 DEF Next, Diagnose, SessionEnd, WriteAudit, ReportAuditErr
<1> QED
  BY <1>1, <1>2, <1>3 DEF FilesType, StateType

(* What a goroutine has to do after the unlock.                             *)
LEMMA Todos ==
  ASSUME NEW b \in BOOLEAN, NEW s \in Seq(Todo)
  PROVE  /\ Report(b) \in Seq(Todo) /\ Report(b) \o s \in Seq(Todo)
         /\ b => \E i \in 1..Len(Report(b) \o s) : (Report(b) \o s)[i] = "report"
         /\ (\E i \in 1..Len(s) : s[i] = "report") =>
              \E i \in 1..Len(Report(b) \o s) : (Report(b) \o s)[i] = "report"
<1>1. Report(b) \in Seq(Todo) /\ (b => Len(Report(b)) = 1 /\ Report(b)[1] = "report")
  <2>1. <<>> \in Seq(Todo) /\ <<"report">> \in Seq(Todo)
    BY EmptySeq DEF Todo
  <2> QED
    BY <2>1 DEF Report
<1>2. /\ Len(Report(b)) \in Nat /\ Len(s) \in Nat
      /\ Report(b) \o s \in Seq(Todo)
      /\ Len(Report(b) \o s) = Len(Report(b)) + Len(s)
      /\ \A i \in 1 .. Len(Report(b)) + Len(s) :
           (Report(b) \o s)[i] = IF i <= Len(Report(b)) THEN Report(b)[i] ELSE s[i - Len(Report(b))]
  BY <1>1, ConcatProperties, LenProperties
<1>3. b => \E i \in 1..Len(Report(b) \o s) : (Report(b) \o s)[i] = "report"
  <2> SUFFICES ASSUME b PROVE \E i \in 1..Len(Report(b) \o s) : (Report(b) \o s)[i] = "report"
    OBVIOUS
  <2>1. Len(Report(b)) = 1 /\ Report(b)[1] = "report"
    BY <1>1
  <2>2. 1 \in 1 .. Len(Report(b)) + Len(s) /\ 1 <= Len(Report(b))
    <3>1. \A n, k \in Nat : n = 1 => 1 \in 1 .. n + k /\ 1 <= n
      OBVIOUS
    <3> QED
      BY <1>2, <2>1, <3>1, Zenon
  <2>3. (Report(b) \o s)[1] = "report"
    BY <1>2, <2>1, <2>2
  <2> QED
    BY <1>2, <2>2, <2>3
<1>4. ASSUME NEW i \in 1..Len(s), s[i] = "report"
      PROVE  \E j \in 1..Len(Report(b) \o s) : (Report(b) \o s)[j] = "report"
  <2>1. i + Len(Report(b)) \in 1..Len(Report(b) \o s)
        /\ (Report(b) \o s)[i + Len(Report(b))] = "report"
    BY <1>2, <1>4
  <2> QED
    BY <2>1
<1> QED
  BY <1>1, <1>2, <1>3, <1>4

LEMMA AfterTypeStep == TypeInv /\ [Next]_vars => after' \in [Threads -> Seq(Todo)]
<1> SUFFICES ASSUME TypeInv, [Next]_vars
             PROVE  after' \in [Threads -> Seq(Todo)]
  OBVIOUS
<1>0. after \in [Threads -> Seq(Todo)] /\ pendingAuditErr \in BOOLEAN
  BY DEF TypeInv, HistoryType, StateType
<1>1. ASSUME NEW t \in Threads, NEW todo \in Seq(Todo), Then(t, todo)
      PROVE  after' \in [Threads -> Seq(Todo)]
  BY <1>0, <1>1 DEF Then
<1>2. <<>> \in Seq(Todo) /\ <<"pending">> \in Seq(Todo) /\ <<"report">> \in Seq(Todo)
  BY EmptySeq DEF Todo
<1>3. "hub" \in Threads /\ "ticker" \in Threads /\ "main" \in Threads /\ Diagnostics \subseteq Threads
  BY DEF Threads
<1>4. \A x, y \in BOOLEAN : Report(x) \in Seq(Todo) /\ Report(x) \o Report(y) \in Seq(Todo)
  <2> TAKE x, y \in BOOLEAN
  <2>1. Report(x) \in Seq(Todo) /\ Report(y) \in Seq(Todo)
    BY <1>2, Todos
  <2> QED
    BY <2>1, Todos
<1>5. ASSUME NEW l \in Entries, Write(l)
      PROVE  after' \in [Threads -> Seq(Todo)]
  BY <1>0, <1>1, <1>2, <1>3, <1>5 DEF Write, WriteAs
<1>6. ASSUME NEW t \in Threads, NEW marshals \in BOOLEAN, WriteAudit(t, marshals)
      PROVE  after' \in [Threads -> Seq(Todo)]
  BY <1>1, <1>2, <1>6 DEF WriteAudit
<1>7. CASE Tick \/ FinalFlush
  <2>1. FlushRetires \in BOOLEAN
    BY DEF FlushRetires
  <2> QED
    BY <1>1, <1>3, <1>4, <1>7, <2>1 DEF Tick, TickWith, FinalFlush
<1>8. ASSUME NEW cerr \in BOOLEAN, Close(cerr)
      PROVE  after' \in [Threads -> Seq(Todo)]
  <2>1. (FlushRetires \/ (cerr /\ ~auditDisabled')) \in BOOLEAN /\ (TRUE /\ pendingAuditErr') \in BOOLEAN
    BY DEF FlushRetires
  <2> QED
    BY <1>1, <1>3, <1>4, <1>8, <2>1 DEF Close, CloseReporting
<1>9. ASSUME NEW t \in Threads, FlushPending(t) \/ ReportAuditErr(t)
      PROVE  after' \in [Threads -> Seq(Todo)]
  <2>1. Tail(after[t]) \in Seq(Todo)
    BY <1>0, <1>9, HeadTailProperties DEF FlushPending, ReportAuditErr, Idle
  <2>2. (auditDisabled' /\ ~auditDisabled) \in BOOLEAN
    OBVIOUS
  <2> QED
    BY <1>0, <1>1, <1>9, <2>1, <2>2, Todos DEF FlushPending, ReportAuditErr
<1>10. CASE DiskFails \/ UNCHANGED vars
  BY <1>0, <1>10 DEF DiskFails, vars
<1> QED
  BY <1>3, <1>5, <1>6, <1>7, <1>8, <1>9, <1>10 DEF Next, Diagnose, SessionEnd

LEMMA HistoryTypeStep == TypeInv /\ [Next]_vars => HistoryType' /\ (closed <=> phase = "closed")'
<1> SUFFICES ASSUME TypeInv, [Next]_vars
             PROVE  HistoryType' /\ (closed <=> phase = "closed")'
  OBVIOUS
<1> USE DEF TypeInv, HistoryType, ControlInv
<1>1. ASSUME NEW l \in Entries, Write(l)
      PROVE  HistoryType' /\ (closed <=> phase = "closed")'
  <2>1. asked' \in Seq(Entries)
    BY <1>1, AppendProperties DEF Write, WriteAs
  <2>2. lastMarker' \in Markers \cup {"none"}
    BY <1>1 DEF Write, WriteAs
  <2> QED
    BY <1>1, <2>1, <2>2, AfterTypeStep DEF Write, WriteAs
<1>2. ASSUME NEW t \in Diagnostics, NEW marshals \in BOOLEAN, Diagnose(t, marshals)
      PROVE  HistoryType' /\ (closed <=> phase = "closed")'
  BY <1>2, AfterTypeStep DEF Diagnose, WriteAudit
<1>3. CASE Tick
  BY <1>3, AfterTypeStep DEF Tick, TickWith
<1>31. CASE FinalFlush
  BY <1>31, AfterTypeStep DEF FinalFlush
<1>32. CASE SessionEnd
  BY <1>32, AfterTypeStep DEF SessionEnd, WriteAudit
<1>4. ASSUME NEW cerr \in BOOLEAN, Close(cerr)
      PROVE  HistoryType' /\ (closed <=> phase = "closed")'
  BY <1>4, AfterTypeStep DEF Close, CloseReporting
<1>5. ASSUME NEW t \in Threads, FlushPending(t)
      PROVE  HistoryType' /\ (closed <=> phase = "closed")'
  BY <1>5, AfterTypeStep DEF FlushPending
<1>6. ASSUME NEW t \in Threads, ReportAuditErr(t)
      PROVE  HistoryType' /\ (closed <=> phase = "closed")'
  BY <1>6, AfterTypeStep DEF ReportAuditErr
<1>7. CASE DiskFails \/ UNCHANGED vars
  BY <1>7 DEF DiskFails, vars
<1> QED
  BY <1>1, <1>2, <1>3, <1>31, <1>32, <1>4, <1>5, <1>6, <1>7 DEF Next

LEMMA TypeStep == TypeInv /\ [Next]_vars => TypeInv'
BY FilesTypeStep, HistoryTypeStep DEF TypeInv, ControlInv

(* Every variable keeps its type, and no buffer outgrows its size.          *)
THEOREM WriterTypeCorrect == Spec => []TypeOK
<1>1. TypeInv => TypeOK
  BY DEF TypeInv, FilesType, StateType, HistoryType, InRoom, Todo, TypeOK
<1> QED
  BY <1>1, TypeInit, TypeStep, PTL DEF Spec
-----------------------------------------------------------------------------
(* The transcript and its mirror.                                           *)
LEMMA MirrorStep ==
  TypeInv /\ AuditMirrorsTranscript /\ [Next]_vars => AuditMirrorsTranscript'
<1> SUFFICES ASSUME TypeInv, AuditMirrorsTranscript, [Next]_vars,
                    ~txt'.broken, ~auditDisabled'
             PROVE  Written(audit') = Written(txt')
  BY DEF AuditMirrorsTranscript, Written
<1>1. ASSUME NEW l \in Entries, Write(l)
      PROVE  Written(audit') = Written(txt')
  <2>1. CASE UNCHANGED <<txt, sink>>
    BY <2>1 DEF sink, AuditMirrorsTranscript
  <2>2. CASE /\ ~txt.broken /\ ~auditDisabled
             /\ Written(txt') = Append(Written(txt), l)
             /\ Written(audit') = Append(Written(audit), l)
    BY <2>2 DEF AuditMirrorsTranscript
  <2> QED
    BY <1>1, <2>1, <2>2, WrittenLine DEF TypeInv, StateType
<1>2. CASE FlushFiles
  BY <1>2, FlushedFiles DEF AuditMirrorsTranscript
<1>3. ASSUME NEW marshals \in BOOLEAN, WriteAuditLocked("record", marshals), UNCHANGED txt
      PROVE  Written(audit') = Written(txt')
  <2>1. "record" \notin Entries
    BY WriterAssumption DEF Entries
  <2>2. ~auditDisabled /\ Written(audit') = Written(audit)
    BY <1>3, <2>1, Locked
  <2> QED
    BY <1>3, <2>2 DEF AuditMirrorsTranscript
<1>4. CASE UNCHANGED <<txt, audit, auditDisabled>>
  BY <1>4 DEF AuditMirrorsTranscript
<1> QED
  BY <1>1, <1>2, <1>3, <1>4, FileSteps

(* The audit stream repeats the transcript entry by entry.                  *)
THEOREM WriterMirrors == Spec => []AuditMirrorsTranscript
<1>1. Init => AuditMirrorsTranscript
  BY Zenon DEF Init, AuditMirrorsTranscript
<1> QED
  BY <1>1, TypeInit, TypeStep, MirrorStep, PTL DEF Spec
-----------------------------------------------------------------------------
(* Compaction, of any sequence s of entries into any sequence w.            *)
KeptOf(s) == {i \in 1..Len(s) : i = 1 \/ s[i] \in Lines \/ s[i] # s[i - 1]}

Picks(s, w, at) ==
  /\ at \in [1..Len(w) -> KeptOf(s)]
  /\ \A i, j \in 1..Len(w) : i < j => at[i] < at[j]
  /\ \A k \in KeptOf(s) : \E i \in 1..Len(w) : at[i] = k
  /\ \A i \in 1..Len(w) : w[i] = s[at[i]]

Exact(s, w) == \E at : Picks(s, w, at)

(* Whether the entry that follows s would be compacted away.                *)
Repeats(s, l) == s # <<>> /\ l \notin Lines /\ l = s[Len(s)]

LEMMA KeptOfAppend ==
  ASSUME NEW s \in Seq(Entries), NEW l \in Entries
  PROVE  KeptOf(Append(s, l)) = IF Repeats(s, l) THEN KeptOf(s) ELSE KeptOf(s) \cup {Len(s) + 1}
<1> DEFINE t == Append(s, l)
           n == Len(s)
<1>1. /\ n \in Nat /\ Len(t) = n + 1 /\ t[n + 1] = l
      /\ \A i \in 1..n : t[i] = s[i]
  BY AppendProperties, LenProperties
<1>2. s = <<>> <=> n = 0
  BY EmptySeq
<1> HIDE DEF t, n
<1>3. ASSUME NEW i \in 1..n
      PROVE  i \in KeptOf(t) <=> i \in KeptOf(s)
  <2>1. i \in 1..(n + 1) /\ t[i] = s[i] /\ (i = 1 \/ t[i - 1] = s[i - 1])
    BY <1>1
  <2> QED
    BY <1>1, <2>1 DEF KeptOf, n
<1>4. n + 1 \in KeptOf(t) <=> ~Repeats(s, l)
  <2>1. n + 1 \in KeptOf(t) <=> n + 1 = 1 \/ t[n + 1] \in Lines \/ t[n + 1] # t[n + 1 - 1]
    BY <1>1 DEF KeptOf
  <2>2. CASE n = 0
    BY <1>2, <2>1, <2>2 DEF Repeats
  <2>3. CASE n # 0
    <3>1. n + 1 # 1 /\ n + 1 - 1 = n /\ n \in 1..n
      BY <1>1, <2>3
    <3> QED
      BY <1>1, <1>2, <2>1, <2>3, <3>1 DEF Repeats, n
  <2> QED
    BY <2>2, <2>3
<1>5. KeptOf(t) \subseteq 1..(n + 1) /\ KeptOf(s) \subseteq 1..n
  BY <1>1 DEF KeptOf, n
<1>6. 1..(n + 1) = (1..n) \cup {n + 1} /\ n + 1 \notin 1..n
  BY <1>1
<1>7. CASE Repeats(s, l)
  <2>1. \A i : i \in KeptOf(t) <=> i \in KeptOf(s)
    BY <1>3, <1>4, <1>5, <1>6, <1>7
  <2> QED
    BY <1>7, <2>1 DEF t
<1>8. CASE ~Repeats(s, l)
  <2>1. \A i : i \in KeptOf(t) <=> i \in KeptOf(s) \cup {n + 1}
    BY <1>3, <1>4, <1>5, <1>6, <1>8
  <2> QED
    BY <1>8, <2>1 DEF t, n
<1> QED
  BY <1>7, <1>8

LEMMA ExactAppend ==
  ASSUME NEW s \in Seq(Entries), NEW w \in Seq(Entries), NEW l \in Entries, Exact(s, w)
  PROVE  Exact(Append(s, l), IF Repeats(s, l) THEN w ELSE Append(w, l))
<1> DEFINE t == Append(s, l)
           n == Len(s)
           m == Len(w)
<1>1. PICK at : Picks(s, w, at)
  BY DEF Exact
<1>2. /\ n \in Nat /\ Len(t) = n + 1 /\ t[n + 1] = l
      /\ \A i \in 1..n : t[i] = s[i]
  BY AppendProperties, LenProperties
<1>3. KeptOf(s) \subseteq 1..n
  BY DEF KeptOf
<1>4. KeptOf(t) = IF Repeats(s, l) THEN KeptOf(s) ELSE KeptOf(s) \cup {n + 1}
  BY KeptOfAppend
<1> HIDE DEF t, n, m
<1>5. /\ at \in [1..m -> KeptOf(s)]
      /\ \A i, j \in 1..m : i < j => at[i] < at[j]
      /\ \A k \in KeptOf(s) : \E i \in 1..m : at[i] = k
      /\ \A i \in 1..m : w[i] = s[at[i]]
  BY <1>1 DEF Picks, m
<1>6. CASE Repeats(s, l)
  <2>1. \A i \in 1..m : w[i] = t[at[i]]
    BY <1>2, <1>3, <1>5
  <2>2. Picks(t, w, at)
    BY <1>4, <1>5, <1>6, <2>1 DEF Picks, m
  <2> QED
    BY <1>6, <2>2 DEF Exact, t
<1>7. CASE ~Repeats(s, l)
  <2> DEFINE v  == Append(w, l)
             to == [i \in 1..(m + 1) |-> IF i = m + 1 THEN n + 1 ELSE at[i]]
  <2>1. /\ m \in Nat /\ Len(v) = m + 1 /\ v[m + 1] = l
        /\ \A i \in 1..m : v[i] = w[i]
    BY AppendProperties, LenProperties DEF m
  <2> HIDE DEF v
  <2>2. /\ to[m + 1] = n + 1 /\ \A i \in 1..m : to[i] = at[i]
        /\ \A i \in 1..(m + 1) : i \in 1..m \/ i = m + 1
    BY <2>1
  <2>3. to \in [1..(m + 1) -> KeptOf(t)]
    BY <1>4, <1>5, <1>7, <2>1
  <2> HIDE DEF to
  <2>4. ASSUME NEW i \in 1..(m + 1), NEW j \in 1..(m + 1), i < j
        PROVE  to[i] < to[j]
    <3>1. i \in 1..m
      BY <2>1, <2>4
    <3>2. at[i] \in 1..n
      BY <1>3, <1>5, <3>1
    <3> QED
      BY <1>2, <1>5, <2>2, <2>4, <3>1, <3>2
  <2>5. ASSUME NEW k \in KeptOf(t)
        PROVE  \E i \in 1..(m + 1) : to[i] = k
    <3>1. CASE k = n + 1
      BY <2>1, <2>2, <3>1
    <3>2. CASE k \in KeptOf(s)
      <4>1. PICK i \in 1..m : at[i] = k
        BY <1>5, <3>2
      <4>2. i \in 1..(m + 1) /\ to[i] = k
        BY <2>1, <2>2, <4>1
      <4> QED
        BY <4>2
    <3> QED
      BY <1>4, <1>7, <3>1, <3>2
  <2>6. ASSUME NEW i \in 1..(m + 1)
        PROVE  v[i] = t[to[i]]
    <3>1. CASE i = m + 1
      BY <1>2, <2>1, <2>2, <3>1
    <3>2. CASE i \in 1..m
      <4>1. at[i] \in 1..n /\ to[i] = at[i]
        BY <1>3, <1>5, <2>2, <3>2
      <4> QED
        BY <1>2, <1>5, <2>1, <3>2, <4>1
    <3> QED
      BY <2>2, <3>1, <3>2
  <2>7. Picks(t, v, to)
    BY <2>1, <2>3, <2>4, <2>5, <2>6 DEF Picks
  <2> QED
    BY <1>7, <2>7 DEF Exact, t, v
<1> QED
  BY <1>6, <1>7

CompactionInv ==
  /\ MarkInv
  /\ ~txt.broken => Exact(asked, Written(txt))

LEMMA CompactionInit == Init => CompactionInv
<1> SUFFICES ASSUME Init PROVE CompactionInv
  OBVIOUS
<1>1. txt = Empty /\ asked = <<>> /\ lastMarker = "none"
  BY DEF Init
<1>2. Written(txt) = <<>>
  BY <1>1, ConcatEmptySeq, EmptySeq DEF Written, Empty
<1>3. KeptOf(<<>>) = {} /\ 1..Len(<<>>) = {}
  BY DEF KeptOf
<1>4. Picks(<<>>, <<>>, [i \in {} |-> 0])
  BY <1>3 DEF Picks
<1> QED
  BY <1>1, <1>2, <1>4 DEF CompactionInv, MarkInv, Exact

LEMMA CompactionStep == TypeInv /\ CompactionInv /\ [Next]_vars => CompactionInv'
<1> SUFFICES ASSUME TypeInv, CompactionInv, [Next]_vars, ~txt'.broken
             PROVE  /\ lastMarker' = IF asked' # <<>> /\ asked'[Len(asked')] \in Markers
                                     THEN asked'[Len(asked')] ELSE "none"
                    /\ Exact(asked', Written(txt'))
  BY DEF CompactionInv, MarkInv, Written
<1>1. asked \in Seq(Entries)
  BY DEF TypeInv, HistoryType
<1>2. ASSUME NEW l \in Entries, Write(l)
      PROVE  /\ lastMarker' = IF asked' # <<>> /\ asked'[Len(asked')] \in Markers
                              THEN asked'[Len(asked')] ELSE "none"
             /\ Exact(asked', Written(txt'))
  <2>1. /\ asked' = Append(asked, l) /\ asked' # <<>> /\ asked'[Len(asked')] = l
        /\ ~txt.broken
    <3>1. asked' = Append(asked, l) /\ ~txt.broken
      BY <1>2, WrittenLine
    <3> QED
      BY <1>1, <3>1, AppendProperties
  <2>2. /\ lastMarker = IF asked # <<>> /\ asked[Len(asked)] \in Markers
                        THEN asked[Len(asked)] ELSE "none"
        /\ Exact(asked, Written(txt))
    BY <2>1 DEF CompactionInv, MarkInv
  <2>3. txt \in File /\ Written(txt) \in Seq(Entries)
    BY WrittenType DEF TypeInv, FilesType, InRoom
  <2>4. l # "none" /\ (l \in Lines <=> l \notin Markers)
    BY WriterAssumption DEF Entries
  <2>5. Repeats(asked, l) <=> l = lastMarker
    BY <2>2, <2>4 DEF Repeats
  <2>6. Exact(asked', IF Repeats(asked, l) THEN Written(txt) ELSE Append(Written(txt), l))
    BY <1>1, <2>1, <2>2, <2>3, ExactAppend
  <2>7. CASE l = lastMarker
    <3>1. UNCHANGED <<txt, lastMarker>>
      BY <1>2, <2>7, WrittenLine
    <3>2. l \in Markers
      BY <2>2, <2>4, <2>7
    <3> QED
      BY <2>1, <2>5, <2>6, <2>7, <3>1, <3>2
  <2>8. CASE l # lastMarker
    <3>1. /\ Written(txt') = Append(Written(txt), l)
          /\ lastMarker' = IF l \in Markers THEN l ELSE "none"
      BY <1>2, <2>8, WrittenLine
    <3> QED
      BY <2>1, <2>5, <2>6, <2>8, <3>1
  <2> QED
    BY <2>7, <2>8
<1>3. ASSUME UNCHANGED <<asked, lastMarker>>, ~txt.broken, Written(txt') = Written(txt)
      PROVE  /\ lastMarker' = IF asked' # <<>> /\ asked'[Len(asked')] \in Markers
                              THEN asked'[Len(asked')] ELSE "none"
             /\ Exact(asked', Written(txt'))
  BY <1>3 DEF CompactionInv, MarkInv
<1>4. CASE FlushFiles /\ UNCHANGED <<asked, lastMarker>>
  BY <1>3, <1>4, FlushedFiles
<1>5. CASE UNCHANGED <<txt, asked, lastMarker>>
  BY <1>3, <1>5
<1> QED
  BY <1>2, <1>4, <1>5, FileSteps

(* The transcript holds what was asked for, less the repeated markers.      *)
THEOREM WriterCompacts == Spec => []CompactionIsExact
<1>1. ASSUME TypeInv, CompactionInv
      PROVE  CompactionIsExact
  <2> SUFFICES ASSUME ~txt.broken
               PROVE  \E at \in [1..Len(Written(txt)) -> Kept] :
                        /\ \A i, j \in DOMAIN at : i < j => at[i] < at[j]
                        /\ \A k \in Kept : \E i \in DOMAIN at : at[i] = k
                        /\ \A i \in DOMAIN at : Written(txt)[i] = asked[at[i]]
    BY DEF CompactionIsExact
  <2>1. PICK at : Picks(asked, Written(txt), at)
    BY <1>1 DEF CompactionInv, Exact
  <2>2. Kept = KeptOf(asked)
    BY DEF Kept, KeptOf
  <2>3. at \in [1..Len(Written(txt)) -> Kept] /\ DOMAIN at = 1..Len(Written(txt))
    BY <2>1, <2>2 DEF Picks
  <2> QED
    BY <2>1, <2>2, <2>3 DEF Picks
<1> QED
  BY <1>1, TypeInit, TypeStep, CompactionInit, CompactionStep, PTL DEF Spec
-----------------------------------------------------------------------------
(* Reporting.                                                               *)
Promised(s) == \E i \in 1..Len(s) : s[i] = "report"

LEMMA Promise ==
  ASSUME TypeInv, NEW t \in Threads, NEW todo, Then(t, todo)
  PROVE  /\ Promised(todo) => ReportPending'
         /\ ReportPending /\ (Promised(after[t]) => Promised(todo)) => ReportPending'
<1>1. after \in [Threads -> Seq(Todo)] /\ after' = [after EXCEPT ![t] = todo]
  BY DEF TypeInv, HistoryType, Then
<1>2. after'[t] = todo /\ \A u \in Threads : u # t => after'[u] = after[u]
  BY <1>1
<1>3. \A u \in Threads : Promised(after'[u]) => ReportPending'
  BY DEF Promised, ReportPending
<1>4. ReportPending => \E u \in Threads : Promised(after[u])
  BY DEF Promised, ReportPending
<1> QED
  BY <1>2, <1>3, <1>4

(* A step of a goroutine that had nothing left to do, and whose own failure *)
(* is reported or stashed while the writer is open.                         *)
LEMMA Reported ==
  ASSUME TypeInv, ReportInv, NEW t \in Threads, NEW todo, Idle(t), Then(t, todo),
         reports' = reports,
         auditDisabled' /\ ~auditDisabled => Promised(todo) \/ (pendingAuditErr' /\ ~closed'),
         pendingAuditErr /\ ~closed => Promised(todo) \/ (pendingAuditErr' /\ ~closed')
  PROVE  ReportInv'
<1>1. ~Promised(after[t])
  BY DEF Idle, Promised
<1>2. ReportPending \/ Promised(todo) => ReportPending'
  BY <1>1, Promise
<1> QED
  BY <1>2 DEF ReportInv, TypeInv, StateType

LEMMA ReportStep == TypeInv /\ ReportInv /\ [Next]_vars => ReportInv'
<1> SUFFICES ASSUME TypeInv, ReportInv, [Next]_vars PROVE ReportInv'
  OBVIOUS
<1>0. "hub" \in Threads /\ "ticker" \in Threads /\ "main" \in Threads /\ Diagnostics \subseteq Threads
  BY DEF Threads
<1>1. \A b \in BOOLEAN, s \in Seq(Todo) : (b => Promised(Report(b) \o s)) /\ (Promised(s) => Promised(Report(b) \o s))
  BY Todos DEF Promised
<1>2. /\ \A b \in BOOLEAN : Report(b) \in Seq(Todo) /\ (b => Promised(Report(b)))
      /\ Promised(<<"report">>)
  <2>1. Promised(<<"report">>) /\ <<>> \in Seq(Todo)
    BY EmptySeq DEF Promised
  <2> QED
    BY <2>1, Todos DEF Report
<1>3. /\ auditDisabled \in BOOLEAN /\ pendingAuditErr \in BOOLEAN /\ closed \in BOOLEAN
      /\ reports \in Nat /\ (closed <=> phase = "closed")
      /\ after \in [Threads -> Seq(Todo)]
  BY DEF TypeInv, StateType, HistoryType, ControlInv
<1>4. ASSUME NEW l \in Entries, Write(l)
      PROVE  ReportInv'
  <2>1. CASE UNCHANGED <<sink, after>>
    BY <1>4, <2>1 DEF Write, WriteAs, sink, ReportInv, ReportPending
  <2>2. CASE ~UNCHANGED <<sink, after>>
    <3>1. /\ pendingAuditErr => pendingAuditErr'
          /\ auditDisabled' /\ ~auditDisabled => pendingAuditErr'
      BY <1>4, <2>2, WrittenLine
    <3>2. Idle("hub") /\ ~closed /\ closed' = closed /\ reports' = reports /\ Then("hub", <<"pending">>)
      BY <1>4, <2>2 DEF Write, WriteAs
    <3> QED
      BY <1>0, <3>1, <3>2, Reported
  <2> QED
    BY <2>1, <2>2
<1>5. ASSUME NEW t \in Threads, NEW marshals \in BOOLEAN, WriteAudit(t, marshals)
      PROVE  ReportInv'
  <2>1. /\ pendingAuditErr => pendingAuditErr'
        /\ auditDisabled' \in BOOLEAN
    BY <1>5, Locked DEF WriteAudit
  <2>2. Idle(t) /\ closed' = closed /\ reports' = reports
    BY <1>5 DEF WriteAudit
  <2> DEFINE todo == IF auditDisabled' /\ ~auditDisabled THEN <<"report">> ELSE <<>>
  <2>3. Then(t, todo)
    BY <1>5 DEF WriteAudit
  <2>4. auditDisabled' /\ ~auditDisabled => Promised(todo)
    BY <1>2
  <2> HIDE DEF todo
  <2> QED
    BY <2>1, <2>2, <2>3, <2>4, Reported
<1>6. CASE Tick \/ FinalFlush
  <2>1. PICK t \in Threads : Idle(t) /\ Then(t, Report(FlushRetires))
    BY <1>0, <1>6 DEF Tick, TickWith, FinalFlush
  <2>2. FlushFiles /\ ~closed /\ closed' = closed /\ reports' = reports
    BY <1>3, <1>6 DEF Tick, TickWith, FinalFlush
  <2>3. /\ pendingAuditErr => pendingAuditErr'
        /\ auditDisabled' /\ ~auditDisabled => pendingAuditErr' \/ FlushRetires
    BY <2>2, FlushedFiles
  <2>4. FlushRetires => Promised(Report(FlushRetires))
    BY <1>2 DEF FlushRetires
  <2> QED
    BY <2>1, <2>2, <2>3, <2>4, Reported
<1>7. ASSUME NEW cerr \in BOOLEAN, Close(cerr)
      PROVE  ReportInv'
  <2> DEFINE last == FlushRetires \/ (cerr /\ ~auditDisabled')
  <2>1. /\ Idle("main") /\ FlushFiles /\ reports' = reports
        /\ Then("main", Report(pendingAuditErr') \o Report(last))
    BY <1>7, FlushedFiles DEF Close, CloseReporting
  <2>2. /\ pendingAuditErr => pendingAuditErr'
        /\ pendingAuditErr' \in BOOLEAN
        /\ auditDisabled' /\ ~auditDisabled => pendingAuditErr' \/ last
    BY <2>1, FlushedFiles
  <2>3. last \in BOOLEAN
    BY DEF FlushRetires
  <2> HIDE DEF last
  <2>4. Report(last) \in Seq(Todo) /\ (last => Promised(Report(last)))
    BY <1>2, <2>3
  <2>5. pendingAuditErr' \/ last => Promised(Report(pendingAuditErr') \o Report(last))
    BY <1>1, <2>2, <2>4
  <2> QED
    BY <1>0, <2>1, <2>2, <2>5, Reported
<1>8. ASSUME NEW t \in Threads, FlushPending(t)
      PROVE  ReportInv'
  <2>1. /\ after[t] # <<>> /\ Head(after[t]) = "pending"
        /\ Then(t, Report(pendingAuditErr) \o Tail(after[t]))
        /\ UNCHANGED <<auditDisabled, reports>>
    BY <1>8 DEF FlushPending, Idle
  <2>2. /\ Tail(after[t]) \in Seq(Todo)
        /\ Promised(after[t]) => Promised(Tail(after[t]))
    <3> DEFINE s == after[t]
    <3>1. s \in Seq(Todo) /\ s # <<>> /\ Head(s) = "pending"
      BY <1>3, <2>1
    <3> HIDE DEF s
    <3>2. /\ Tail(s) \in Seq(Todo) /\ Len(Tail(s)) = Len(s) - 1 /\ Len(s) \in Nat
          /\ \A i \in 1..Len(Tail(s)) : Tail(s)[i] = s[i + 1]
      BY <3>1, HeadTailProperties, LenProperties
    <3>3. s[1] = "pending"
      BY <3>1
    <3>4. ASSUME NEW i \in 1..Len(s), s[i] = "report"
          PROVE  \E j \in 1..Len(Tail(s)) : Tail(s)[j] = "report"
      <4>1. i # 1
        BY <3>3, <3>4
      <4>2. i - 1 \in 1..Len(Tail(s)) /\ (i - 1) + 1 = i
        BY <3>2, <4>1
      <4>3. Tail(s)[i - 1] = s[i]
        BY <3>2, <4>2
      <4> QED
        BY <3>4, <4>2, <4>3
    <3> QED
      BY <3>2, <3>4 DEF Promised, s
  <2>3. /\ pendingAuditErr => Promised(Report(pendingAuditErr) \o Tail(after[t]))
        /\ Promised(after[t]) => Promised(Report(pendingAuditErr) \o Tail(after[t]))
    BY <1>1, <1>3, <2>2
  <2>4. /\ pendingAuditErr => ReportPending'
        /\ ReportPending => ReportPending'
    BY <2>1, <2>3, Promise
  <2> QED
    BY <2>1, <2>4 DEF ReportInv
<1>9. ASSUME NEW t \in Threads, ReportAuditErr(t)
      PROVE  ReportInv'
  BY <1>3, <1>9 DEF ReportAuditErr, ReportInv
<1>10. CASE DiskFails \/ UNCHANGED vars
  BY <1>10 DEF DiskFails, sink, vars, ReportInv, ReportPending
<1> QED
  BY <1>0, <1>4, <1>5, <1>6, <1>7, <1>8, <1>9, <1>10 DEF Next, Diagnose, SessionEnd

(* When Close is over and everybody has finished, a retired audit stream    *)
(* has been reported.                                                       *)
THEOREM WriterReports == Spec => []RetirementIsReported
<1>1. Init => ReportInv
  BY DEF Init, ReportInv
<1>2. ASSUME TypeInv, ReportInv
      PROVE  RetirementIsReported
  <2> SUFFICES ASSUME closed, auditDisabled, \A t \in Threads : Idle(t)
               PROVE  reports > 0
    BY DEF RetirementIsReported
  <2>1. ~ReportPending
    BY DEF ReportPending, Idle
  <2> QED
    BY <1>2, <2>1 DEF ReportInv
<1> QED
  BY <1>1, <1>2, TypeInit, TypeStep, ReportStep, PTL DEF Spec
=============================================================================
