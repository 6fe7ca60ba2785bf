------------------------------ MODULE AuditTrail ------------------------------
(***************************************************************************)
(* FileAuditTrail::append, one system call a step: size check, removal of  *)
(* the oldest archive, renames from the oldest to the newest, open, and    *)
(* the two writes of writeln!.  Any call may fail, which ends the append   *)
(* (append_audit_event ignores the error), as does a crash and restart.    *)
(*                                                                         *)
(* A file is a sequence of bytes; here a record's text is its number twice, *)
(* so that a write can be cut inside it, and a newline is one byte.        *)
(***************************************************************************)
EXTENDS Naturals, Sequences, SequencesExt

CONSTANTS
  MaxBytes,    \* AuditRetentionPolicy.max_bytes, in the bytes above
  MaxArchives, \* AuditRetentionPolicy.max_archives, at least 1
  MaxRecords   \* bound: the records made

ASSUME MaxBytesAssumption == MaxBytes \in Nat
ASSUME MaxArchivesAssumption == MaxArchives \in Nat \ {0}
ASSUME MaxRecordsAssumption == MaxRecords \in Nat

Absent  == 0         \* no file of that name, no descriptor
Newline == 0
Names   == 0 .. MaxArchives  \* 0 is audit.ndjson, i is audit.ndjson.i
Files   == 1 .. MaxRecords

VARIABLES
  name,    \* the directory: which file each name stands for
  data,    \* what each file holds
  made,    \* how many records were made
  created, \* how many files were created
  pc,      \* the call the writer makes next
  record,  \* the record it appends
  index,   \* where its renaming loop stands
  handle,  \* the file it holds open
  faulty,  \* history: a call failed or the writer crashed
  acked    \* history: the last record whose append returned Ok, or 0

vars == <<name, data, made, created, pc, record, index, handle, faulty, acked>>

TypeOK ==
  /\ name \in [Names -> Files \union {Absent}]
  /\ data \in [Files -> Seq(0 .. MaxRecords)]
  /\ made \in 0 .. MaxRecords
  /\ created \in 0 .. MaxRecords
  /\ pc \in {"idle", "purge", "shift", "open", "text", "rest", "newline"}
  /\ record \in 0 .. MaxRecords
  /\ index \in 0 .. MaxArchives - 1
  /\ handle \in Files \union {Absent}
  /\ faulty \in BOOLEAN
  /\ acked \in 0 .. MaxRecords

Init ==
  /\ name = [n \in Names |-> Absent]
  /\ data = [f \in Files |-> <<>>]
  /\ made = 0
  /\ created = 0
  /\ pc = "idle"
  /\ record = 0
  /\ index = 0
  /\ handle = Absent
  /\ faulty = FALSE
  /\ acked = 0

Size(n) == IF name[n] = Absent THEN 0 ELSE Len(data[name[n]])

(* Seeded fault: the record about to be written is not counted. *)
FullWithoutIncoming(n) == Size(n) > MaxBytes

(* A record takes three bytes here. *)
Full(n) == Size(n) + 3 > MaxBytes

(* append, up to the size check of rotate_if_needed. *)
CheckSize ==
  /\ pc = "idle"
  /\ made < MaxRecords
  /\ made' = made + 1
  /\ record' = made'
  /\ pc' = IF Full(0) THEN "purge" ELSE "open"
  /\ UNCHANGED <<name, data, created, index, handle, faulty, acked>>

(* Seeded fault: the loop starts at the archive just removed. *)
FirstShiftAtOldest == MaxArchives

FirstShift == MaxArchives - 1

PurgeOldest ==
  /\ pc = "purge"
  /\ name' = [name EXCEPT ![MaxArchives] = Absent]
  /\ index' = FirstShift
  /\ pc' = "shift"
  /\ UNCHANGED <<data, made, created, record, handle, faulty, acked>>

(* Seeded fault: the current file is renamed before the archives. *)
CurrentFirst(round) == IF round = FirstShift THEN 0 ELSE round + 1

(* Which file is renamed when: the archives in descending order, then the   *)
(* current file.                                                            *)
Renamed(round) == round

(* rename replaces what has the new name. *)
Shift ==
  LET i == Renamed(index) IN
  /\ pc = "shift"
  /\ name' = IF name[i] = Absent THEN name
             ELSE [name EXCEPT ![i] = Absent, ![i + 1] = name[i]]
  /\ IF index = 0
     THEN pc' = "open" /\ UNCHANGED index
     ELSE index' = index - 1 /\ UNCHANGED pc
  /\ UNCHANGED <<data, made, created, record, handle, faulty, acked>>

Open ==
  /\ pc = "open"
  /\ IF name[0] = Absent
     THEN /\ created' = created + 1
          /\ name' = [name EXCEPT ![0] = created']
          /\ handle' = created'
     ELSE /\ handle' = name[0]
          /\ UNCHANGED <<name, created>>
  /\ pc' = "text"
  /\ UNCHANGED <<data, made, record, index, faulty, acked>>

(* writeln! hands the text to the file, which may take it in pieces, and    *)
(* then the newline.                                                       *)
WriteText ==
  /\ pc \in {"text", "rest"}
  /\ data' = [data EXCEPT ![handle] = Append(@, record)]
  /\ pc' = IF pc = "text" THEN "rest" ELSE "newline"
  /\ UNCHANGED <<name, made, created, record, index, handle, faulty, acked>>

WriteNewline ==
  /\ pc = "newline"
  /\ data' = [data EXCEPT ![handle] = Append(@, Newline)]
  /\ handle' = Absent
  /\ acked' = record
  /\ pc' = "idle"
  /\ UNCHANGED <<name, made, created, record, index, faulty>>

(* A call fails, or the process ends and starts again. *)
Fail ==
  /\ pc # "idle"
  /\ handle' = Absent
  /\ faulty' = TRUE
  /\ pc' = "idle"
  /\ UNCHANGED <<name, data, made, created, record, index, acked>>

Next ==
  \/ CheckSize \/ PurgeOldest \/ Shift
  \/ Open \/ WriteText \/ WriteNewline
  \/ Fail

Spec == Init /\ [][Next]_vars

-----------------------------------------------------------------------------
Contents(n) == IF name[n] = Absent THEN <<>> ELSE data[name[n]]

(* A line is a record if it is the text of one and nothing else.           *)
IsText(line) == Len(line) = 2 /\ line[1] = line[2]

ReadByte(s, byte) ==
  IF byte # Newline THEN [s EXCEPT !.line = Append(@, byte)]
  ELSE [kept |-> IF IsText(s.line) THEN Append(s.kept, s.line[1]) ELSE s.kept,
        line |-> <<>>]

(* A file read line by line: the records on its lines, and what follows the *)
(* last newline.                                                            *)
Read(bytes) ==
  LET upTo[i \in 0 .. Len(bytes)] ==
        IF i = 0 THEN [kept |-> <<>>, line |-> <<>>]
        ELSE ReadByte(upTo[i - 1], bytes[i])
  IN upTo[Len(bytes)]

(* The records of the whole trail, from the oldest archive to the current   *)
(* file, and those that have a part of its open line.                       *)
Trail ==
  FlattenSeq([i \in 1 .. MaxArchives + 1 |-> Read(Contents(MaxArchives + 1 - i)).kept])

OpenLine == ToSet(Read(Contents(0)).line)

(* Retention holds through failures, torn lines and restarts: no file grows *)
(* past max_bytes unless it holds a single record.                          *)
SizeBounded == \A n \in Names : Size(n) <= MaxBytes \/ Size(n) <= 3

(* A rotation that was not cut short leaves no gap between the archives.    *)
ArchivesContiguous ==
  ~faulty /\ pc = "idle" =>
    \A i \in 1 .. MaxArchives - 1 : name[i + 1] # Absent => name[i] # Absent

Log == INSTANCE AuditLog WITH
  Record <- 1 .. MaxRecords, log <- Trail, line <- OpenLine, acked <- acked

(* Wherever an append fails, the lines of the files are a log that forgets  *)
(* only its oldest records, and a record whose append returned Ok is on a   *)
(* line of its own unless the one before left that line open.               *)
ImplementsLog == Log!Spec
=============================================================================
