------------------------------ MODULE AuditCursor ------------------------------
(***************************************************************************)
(* One audit log of a device on its way to the controller's audit_events:  *)
(* student/lghs-agent reads a chunk of it through                          *)
(* student/lghs-command-executor and sends it with its report,             *)
(* controller/lghs/audit.py stores the chunk and acknowledges it, and the  *)
(* agent moves its cursor.  Meanwhile the log grows and logrotate replaces *)
(* it, and reports or their answers get lost.                              *)
(*                                                                         *)
(* The log's lines are numbered as they are written; offsets count lines.  *)
(* A chunk does not begin or end within a line, and a log that logrotate   *)
(* has moved away but not yet created again gives no chunk at all.         *)
(***************************************************************************)
EXTENDS Integers

CONSTANTS Inodes,       \* inode numbers the log's files can get
          Chunk,        \* lines that fit the read limit of 12288 bytes
          MaxLines,     \* bound: lines written
          MaxRotations, \* bound: rotations of the log
          MaxTrouble    \* bound: reports that end without an answer

ASSUME AuditAssumption ==
  /\ Inodes \subseteq Nat \ {0} /\ Inodes # {}
  /\ Chunk \in Nat \ {0}
  /\ MaxLines \in Nat /\ MaxRotations \in Nat /\ MaxTrouble \in Nat

VARIABLES
  \* the device
  inode,      \* of the log's present file
  base,       \* lines in the files before it
  written,    \* lines written so far
  cursor,     \* audit state of the agent's state.json
  reader,     \* where the reporter stands with this log
  \* the controller
  late,       \* chunks of reports the agent has given up, still on their way
  events,     \* the lines stored in audit_events, by their sequence
  \* history and bounds
  rotations, trouble,
  used,       \* inode numbers of the files so far
  reused,     \* whether a file got the number of an earlier one
  crossed,    \* whether the log was rotated between a chunk's stat and its read
  shadowed    \* lines acknowledged though another chunk had their sequence

log == <<inode, base, written>>
history == <<used, reused, crossed, shadowed>>
bounds == <<rotations, trouble>>
vars == <<log, cursor, reader, late, events, history, bounds>>

Offsets == 0..MaxLines
Size == written - base

\* A chunk: the file it is labelled with, where it begins there, and the lines
\* it was read as.
Lines(c) == c.first..c.last
NextOffset(c) == c.offset + (c.last - c.first + 1)

NoChunk == [inode |-> 0, offset |-> 0, first |-> 1, last |-> 0]
\* The reporter at rest.  Its chunk has no lines before they are read; base is
\* history, the file that was looked at.
Idle == [pc |-> "idle", second |-> FALSE, chunk |-> NoChunk, base |-> 0]

Init ==
  /\ inode \in Inodes /\ base = 0 /\ written = 0
  /\ cursor = [inode |-> 0, offset |-> 0]
  /\ reader = Idle
  /\ late = {}
  /\ events = [o \in Offsets |-> {}]
  /\ rotations = 0 /\ trouble = 0
  /\ used = {inode} /\ reused = FALSE /\ crossed = FALSE /\ shadowed = {}

Stored == UNION {events[o] : o \in Offsets}

-----------------------------------------------------------------------------
(* The log.                                                                *)

Write ==
  /\ written < MaxLines
  /\ written' = written + 1
  /\ UNCHANGED <<inode, base, cursor, reader, late, events, history, bounds>>

\* logrotate renames the file, unless it is empty, and creates another, which
\* never has the number of the one just renamed.
Rotate ==
  /\ rotations < MaxRotations
  /\ Size > 0
  /\ inode' \in Inodes \ {inode}
  /\ base' = written
  /\ rotations' = rotations + 1
  /\ used' = used \cup {inode'}
  /\ reused' = (reused \/ inode' \in used)
  /\ UNCHANGED <<written, cursor, reader, late, events, crossed, shadowed,
                 trouble>>

-----------------------------------------------------------------------------
(* The agent and the executor: audit_batches().                            *)

\* audit_chunk(), until the file is opened: from the start if the file is
\* shorter than the offset asked for.
From(offset) == IF offset > Size THEN 0 ELSE offset

Look(offset, second) ==
  reader' = [pc |-> "read", second |-> second, base |-> base,
             chunk |-> [inode |-> inode, offset |-> From(offset),
                        first |-> 1, last |-> 0]]

Stat ==
  /\ reader.pc = "idle"
  /\ Look(cursor.offset, FALSE)
  /\ UNCHANGED <<log, cursor, late, events, history, bounds>>

\* Where a chunk of the present file ends that begins after line n.
WholeChunk(n) == n + Chunk
Last(n) == IF n + Chunk > written THEN written ELSE n + Chunk

\* Another file than the cursor's is read from its start.
NeverRewinds(c) == FALSE
Rewinds(c) == cursor.inode # 0 /\ c.inode # cursor.inode /\ cursor.offset # 0

Read ==
  /\ reader.pc = "read"
  /\ LET before == base + reader.chunk.offset
         c == [inode |-> reader.chunk.inode, offset |-> reader.chunk.offset,
               first |-> before + 1, last |-> Last(before)]
     IN /\ reader' = IF ~reader.second /\ Rewinds(c)
                       THEN [reader EXCEPT !.pc = "again"]
                     ELSE IF c.last < c.first THEN Idle
                     ELSE [reader EXCEPT !.pc = "sent", !.chunk = c]
        /\ crossed' = (crossed \/ reader.base # base)
  /\ UNCHANGED <<log, cursor, late, events, used, reused, shadowed, bounds>>

StatAgain ==
  /\ reader.pc = "again"
  /\ Look(0, TRUE)
  /\ UNCHANGED <<log, cursor, late, events, history, bounds>>

-----------------------------------------------------------------------------
(* The controller: record_batches().                                       *)

\* A chunk is stored unless its offset is known; it is acknowledged anyway.
Recorded(c) ==
  IF events[c.offset] = {} THEN [events EXCEPT ![c.offset] = Lines(c)] ELSE events

\* The handler of a report the agent waits for.
Record ==
  /\ reader.pc = "sent"
  /\ events' = Recorded(reader.chunk)
  /\ shadowed' = shadowed \cup
       (Lines(reader.chunk) \ UNION {events'[o] : o \in Offsets})
  /\ reader' = [reader EXCEPT !.pc = "recorded"]
  /\ UNCHANGED <<log, cursor, late, used, reused, crossed, bounds>>

\* The handler of a report given up.  record_telemetry() has refused it if a
\* newer one of the same boot was recorded before.
Arrive ==
  \E c \in late :
    /\ late' = late \ {c}
    /\ \/ UNCHANGED events
       \/ events' = Recorded(c)
    /\ UNCHANGED <<log, cursor, reader, history, bounds>>

-----------------------------------------------------------------------------
(* The answer: apply_audit_ack().                                          *)

KeepsInode(c) == [cursor EXCEPT !.offset = NextOffset(c)]
LastLineAgain(c) == [inode |-> c.inode, offset |-> NextOffset(c) - 1]
Acknowledged(c) == [inode |-> c.inode, offset |-> NextOffset(c)]

Answer ==
  /\ reader.pc = "recorded"
  /\ cursor' = Acknowledged(reader.chunk)
  /\ reader' = Idle
  /\ UNCHANGED <<log, late, events, history, bounds>>

\* The answer does not come, in time or at all, or the agent is restarted, or
\* the device: the cursor is in a file and survives.
GiveUp ==
  /\ reader.pc # "idle"
  /\ trouble < MaxTrouble /\ trouble' = trouble + 1
  /\ reader' = Idle
  /\ \/ late' = late
     \/ reader.pc = "sent" /\ late' = late \cup {reader.chunk}
  /\ UNCHANGED <<log, cursor, events, history, rotations>>

-----------------------------------------------------------------------------
Report == Stat \/ Read \/ StatAgain \/ Record \/ Answer

Next == Write \/ Rotate \/ Report \/ Arrive \/ GiveUp

Spec == Init /\ [][Next]_vars

\* The reporter goes on, and reports end with an answer but for MaxTrouble.
Fairness == WF_vars(Report)
FairSpec == Spec /\ Fairness

-----------------------------------------------------------------------------
(* Properties.                                                             *)

Chunks == [inode : Inodes \cup {0}, offset : Offsets,
           first : 1..(2 * MaxLines + 1), last : Offsets]
Readers == [pc : {"idle", "read", "again", "sent", "recorded"},
            second : BOOLEAN, base : 0..MaxLines,
            chunk : Chunks]

\* Every variable keeps its type.
TypeOK ==
  /\ inode \in Inodes /\ inode \in used /\ used \subseteq Inodes
  /\ written \in 0..MaxLines /\ base \in 0..written
  /\ cursor \in [inode : Inodes \cup {0}, offset : Offsets]
  /\ reader \in Readers
  /\ late \subseteq Chunks
  /\ events \in [Offsets -> SUBSET (1..MaxLines)]
  /\ reused \in BOOLEAN /\ crossed \in BOOLEAN
  /\ shadowed \subseteq 1..MaxLines
  /\ rotations \in 0..MaxRotations /\ trouble \in 0..MaxTrouble

\* What the agent's cursor has left behind in the present file is stored at
\* the controller.  Not so for a chunk that found another one's lines under its
\* offset (record_batches()), which takes a rotation, or an answer lost before
\* the log grew; and not once a file has the inode number of an earlier one.
AckedIsStored ==
  /\ (cursor.inode = inode /\ ~reused) =>
       (base + 1)..(base + cursor.offset) \subseteq Stored \cup shadowed
  /\ (rotations = 0 /\ trouble = 0) => shadowed = {}

\* No line is stored twice, however often its report is repeated and however
\* late it comes, unless a rotation between audit_chunk()'s stat() and open()
\* labelled the lines of one file as the other's.
StoredOnce ==
  \A o, p \in Offsets : o # p /\ ~crossed => events[o] \cap events[p] = {}

\* Every line that is not rotated away is in the end stored, or was shadowed,
\* if no inode number is used twice.
Collected ==
  <>[](reused \/ (base + 1)..written \subseteq Stored \cup shadowed)
=============================================================================
