--------------------------- MODULE AuditCursor_proofs ---------------------------
(* What holds of AuditCursor for any number of lines, rotations and lost    *)
(* answers: what is acknowledged is stored, once, but for the exceptions    *)
(* the properties name.                                                     *)
EXTENDS AuditCursor, TLAPS

chunk == reader.chunk

\* A chunk that is read or recorded has lines, and its lines are the log's.
HasLines(c) == c.first <= c.last /\ c.last <= written

\* Types, and the chunks' shape: the offset counts lines of a file, the first
\* line all lines.
ShapeInv ==
  /\ reader.pc \in {"sent", "recorded"} =>
       HasLines(chunk) /\ chunk.offset < chunk.first
  /\ \A c \in late : HasLines(c) /\ c.offset < c.first
  /\ Stored \subseteq 1..written
  /\ cursor.inode \in used \cup {0} /\ chunk.inode \in used \cup {0}
  /\ cursor.inode = 0 => cursor.offset = 0
  /\ reader.pc # "idle" => chunk.inode # 0

Types == TypeOK /\ ShapeInv

-----------------------------------------------------------------------------
(* Acknowledged lines are stored, or shadowed.                             *)

\* A chunk labelled with the present file's number begins where the cursor
\* stands in that file, or at its start.
Follows ==
  chunk.offset # 0 => cursor.inode = chunk.inode /\ cursor.offset = chunk.offset

LabelInv ==
  ~reused =>
    /\ reader.pc = "read" =>
         /\ chunk.inode = inode => reader.base = base
         /\ chunk.offset # 0 => chunk.offset = cursor.offset /\ ~reader.second
    /\ reader.pc \in {"sent", "recorded"} =>
         /\ chunk.inode = inode => chunk.first = base + chunk.offset + 1
         /\ Follows
    /\ reader.pc = "recorded" => Lines(chunk) \subseteq Stored \cup shadowed
    /\ cursor.inode = inode =>
         (base + 1)..(base + cursor.offset) \subseteq Stored \cup shadowed

\* As long as nothing was rotated or lost, the reader's chunk is the one after
\* all that are stored.
QuietInv ==
  (rotations = 0 /\ trouble = 0) =>
    /\ late = {} /\ shadowed = {} /\ base = 0 /\ ~reused
    /\ cursor.inode \in {0, inode} /\ cursor.offset <= written
    /\ reader.pc # "again"
    /\ reader.pc # "idle" => chunk.inode = inode /\ chunk.offset = cursor.offset
    /\ reader.pc \in {"sent", "recorded"} => chunk.first = chunk.offset + 1
    /\ \A o \in Offsets :
         o >= (IF reader.pc = "recorded" THEN NextOffset(chunk) ELSE cursor.offset)
           => events[o] = {}

AckInv == Types /\ LabelInv /\ QuietInv

-----------------------------------------------------------------------------
(* Lines are stored once.                                                  *)

Fresh(c) == events[c.offset] = {}
Current(c) == c.last > base
Busy == reader.pc # "idle"
Sent == reader.pc \in {"sent", "recorded"}
InTransit == late \cup (IF reader.pc = "sent" THEN {chunk} ELSE {})

\* Where lines of the present file may be stored, or underway.
StoredInv ==
  /\ cursor.offset # 0 => events[0] # {}
  /\ cursor.offset = 0 => \A o \in Offsets : o # 0 => events[o] = {}
  /\ \A o \in Offsets : \A n \in events[o] : n > base =>
       /\ n <= base + o + Chunk
       /\ cursor.offset # 0 =>
            /\ cursor.inode = inode /\ cursor.offset <= Size
            /\ o = cursor.offset \/ n <= base + cursor.offset

LateGood(c) ==
  /\ cursor.offset = 0 => c.offset = 0
  /\ Current(c) =>
       /\ c.first = base + c.offset + 1 /\ c.last < c.first + Chunk
       /\ Fresh(c) /\ cursor.offset # 0 =>
            /\ cursor.inode = inode /\ cursor.offset <= Size
            /\ c.offset = cursor.offset

LateInv == \A c \in late : LateGood(c)

\* No line of the present file is stored or may still be.
NothingCurrent ==
  /\ \A o \in Offsets : \A n \in events[o] : n <= base
  /\ \A c \in late : Current(c) => ~Fresh(c)

ReaderInv ==
  /\ Busy /\ cursor.offset = 0 => chunk.offset = 0
  /\ reader.pc = "again" => cursor.offset # 0 /\ NothingCurrent
  /\ reader.pc \in {"read", "sent", "recorded"} =>
       /\ reader.base # base => NothingCurrent
       /\ reader.base = base => chunk.inode = inode
       /\ (reader.base = base /\ chunk.offset = 0 /\ cursor.offset # 0) => NothingCurrent
       /\ chunk.offset # 0 => chunk.offset = cursor.offset
  /\ Busy => reader.base <= base
  /\ reader.pc = "read" =>
       /\ chunk.offset # 0 => ~reader.second
       /\ reader.base = base => chunk.offset <= Size
  /\ Sent =>
       /\ reader.base # base => chunk.last <= base
       /\ reader.base = base =>
            /\ chunk.first = base + chunk.offset + 1
            /\ chunk.last < chunk.first + Chunk
            /\ chunk.offset # 0 => cursor.inode = inode
            /\ \A o \in Offsets : \A n \in events[o] : n <= chunk.last
            /\ \A c \in late : Fresh(c) => c.last <= chunk.last
  /\ reader.pc = "recorded" => ~Fresh(chunk)

ApartInv ==
  /\ \A c \in InTransit : Fresh(c) => Lines(c) \cap Stored = {}
  /\ \A c, d \in InTransit :
       Fresh(c) /\ Fresh(d) /\ c.offset # d.offset => Lines(c) \cap Lines(d) = {}
  /\ \A o, p \in Offsets : o # p => events[o] \cap events[p] = {}

OnceInv == ~crossed => StoredInv /\ LateInv /\ ReaderInv /\ ApartInv
-----------------------------------------------------------------------------
(* Types.                                                                  *)

LEMMA StoredFact ==
  ASSUME NEW n PROVE n \in Stored <=> \E o \in Offsets : n \in events[o]
  BY DEF Stored

LEMMA RecordedFact ==
  ASSUME TypeOK, NEW c, c.offset \in Offsets, Lines(c) \subseteq 1..MaxLines
  PROVE  /\ Recorded(c) \in [Offsets -> SUBSET (1..MaxLines)]
         /\ \A o \in Offsets : Recorded(c)[o] =
              IF o = c.offset /\ Fresh(c) THEN Lines(c) ELSE events[o]
  BY DEF TypeOK, Recorded, Fresh

LEMMA IdleFact == NoChunk \in Chunks /\ Idle \in Readers
  <1>1. NoChunk \in Chunks
    BY AuditAssumption DEF NoChunk, Chunks, Offsets
  <1> QED BY <1>1, AuditAssumption DEF Idle, Readers

LEMMA LookFact ==
  ASSUME TypeOK, NEW offset \in Offsets, NEW second \in BOOLEAN,
         Look(offset, second)
  PROVE  /\ reader' \in Readers
         /\ reader'.pc = "read" /\ reader'.second = second /\ reader'.base = base
         /\ chunk'.inode = inode /\ chunk'.offset = From(offset)
  <1> DEFINE c == [inode |-> inode, offset |-> From(offset), first |-> 1, last |-> 0]
  <1>2. From(offset) \in Offsets /\ 1 \in 1..(2 * MaxLines + 1) /\ 0 \in Offsets
    BY AuditAssumption DEF From, Offsets
  <1>3. c \in Chunks /\ c.inode = inode /\ c.offset = From(offset)
    BY <1>2, Zenon DEF Chunks, TypeOK
  <1>4. base \in 0..MaxLines
    BY AuditAssumption DEF TypeOK
  <1>5. reader' = [pc |-> "read", second |-> second, base |-> base, chunk |-> c]
    BY DEF Look
  <1> HIDE DEF c
  <1> QED BY <1>3, <1>4, <1>5, Zenon DEF Readers, chunk

\* What a read may lead to.
LEMMA ReadFact ==
  ASSUME TypeOK, Read
  PROVE  /\ reader' \in Readers
         /\ \/ /\ reader'.pc = "again" /\ ~reader.second /\ Rewinds(chunk)
               /\ reader' = [reader EXCEPT !.pc = "again"]
            \/ reader' = Idle
            \/ /\ reader'.pc = "sent" /\ (reader.second \/ ~Rewinds(chunk))
               /\ reader'.base = reader.base /\ reader'.second = reader.second
               /\ chunk'.inode = chunk.inode /\ chunk'.offset = chunk.offset
               /\ chunk'.first = base + chunk.offset + 1
               /\ chunk'.last = Last(base + chunk.offset)
               /\ chunk'.first <= chunk'.last
  <1> DEFINE before == base + chunk.offset
             c == [inode |-> chunk.inode, offset |-> chunk.offset,
                   first |-> before + 1, last |-> Last(before)]
  <1> USE AuditAssumption
  <1>1. chunk \in Chunks /\ before \in Nat /\ Last(before) \in Int
    BY DEF TypeOK, Readers, Chunks, Offsets, Last, chunk
  <1>2. /\ c.inode = chunk.inode /\ c.offset = chunk.offset
        /\ c.first = before + 1 /\ c.last = Last(before)
        /\ Rewinds(c) <=> Rewinds(chunk)
    BY <1>1 DEF Chunks, Rewinds
  <1>3. reader' = IF ~reader.second /\ Rewinds(c)
                    THEN [reader EXCEPT !.pc = "again"]
                  ELSE IF c.last < c.first THEN Idle
                  ELSE [reader EXCEPT !.pc = "sent", !.chunk = c]
    BY DEF Read, chunk
  <1>4. c.last >= c.first => c \in Chunks
    <2>2. before + 1 \in 1..(2 * MaxLines + 1)
      BY <1>1 DEF TypeOK, Chunks, Offsets
    <2>3. Last(before) >= before + 1 => Last(before) \in Offsets
      BY <1>1 DEF Last, Offsets, TypeOK
    <2> QED BY <1>1, <1>2, <2>2, <2>3 DEF Chunks
  <1> HIDE DEF c, before
  <1>5. CASE ~reader.second /\ Rewinds(c)
    BY <1>2, <1>3, <1>5 DEF Readers, TypeOK
  <1>6. CASE ~(~reader.second /\ Rewinds(c)) /\ c.last < c.first
    BY <1>3, <1>6, IdleFact
  <1>7. CASE ~(~reader.second /\ Rewinds(c)) /\ c.last >= c.first
    <2>1. reader' = [reader EXCEPT !.pc = "sent", !.chunk = c] /\ c \in Chunks
      BY <1>1, <1>2, <1>3, <1>4, <1>7 DEF before
    <2>2. /\ reader' \in Readers /\ chunk' = c /\ reader'.pc = "sent"
          /\ reader'.base = reader.base /\ reader'.second = reader.second
      BY <2>1 DEF Readers, TypeOK, chunk
    <2> QED BY <2>2, <1>2, <1>7 DEF before
  <1>8. c.last \in Int /\ c.first \in Int
    BY <1>1, <1>2
  <1> QED BY <1>5, <1>6, <1>7, <1>8

LEMMA Numbers ==
  ASSUME TypeOK
  PROVE  /\ base \in Nat /\ written \in Nat /\ Chunk \in Nat \ {0} /\ MaxLines \in Nat
         /\ base <= written /\ written <= MaxLines
         /\ cursor.offset \in Offsets /\ Offsets \subseteq Nat /\ 0 \in Offsets
         /\ chunk \in Chunks /\ reader.second \in BOOLEAN
         /\ reader.pc \in {"idle", "read", "again", "sent", "recorded"}
         /\ \A c \in Chunks : /\ c.offset \in Offsets /\ c.first \in Nat
                              /\ c.last \in Offsets
  BY AuditAssumption DEF TypeOK, Readers, Chunks, Offsets, chunk

LEMMA InitTypes == Init => Types
  <1> SUFFICES ASSUME Init PROVE Types OBVIOUS
  <1> USE AuditAssumption
  <1>1. TypeOK
    <2>1. cursor \in [inode : Inodes \cup {0}, offset : Offsets]
      BY DEF Init, Offsets
    <2>2. events \in [Offsets -> SUBSET (1..MaxLines)]
      BY DEF Init
    <2>3. /\ inode \in Inodes /\ inode \in used /\ used \subseteq Inodes
          /\ written \in 0..MaxLines /\ base \in 0..written
          /\ rotations \in 0..MaxRotations /\ trouble \in 0..MaxTrouble
          /\ late \subseteq Chunks /\ shadowed \subseteq 1..MaxLines
      BY DEF Init
    <2>4. reader \in Readers /\ reused \in BOOLEAN /\ crossed \in BOOLEAN
      BY IdleFact, Zenon DEF Init
    <2> QED BY <2>1, <2>2, <2>3, <2>4, Zenon DEF TypeOK
  <1>2. ShapeInv
    BY DEF Init, ShapeInv, Idle, NoChunk, Stored, HasLines, Offsets, chunk
  <1> QED BY <1>1, <1>2 DEF Types

LEMMA TypesStep == Types /\ [Next]_vars => Types'
  <1> SUFFICES ASSUME Types, [Next]_vars PROVE Types' OBVIOUS
  <1> USE AuditAssumption DEF Types
  <1>1. CASE Write
    <2>1. TypeOK'
      BY <1>1 DEF Write, TypeOK, history, bounds
    <2>2. ShapeInv'
      <3>1. Stored' \subseteq 1..written'
        BY <1>1 DEF Write, TypeOK, ShapeInv, Stored
      <3> QED BY <3>1, <1>1 DEF Write, TypeOK, Readers, Chunks, Offsets, ShapeInv,
                                HasLines, chunk, history, bounds
    <2> QED BY <2>1, <2>2
  <1>2. CASE Rotate
    <2>1. TypeOK'
      BY <1>2 DEF Rotate, TypeOK, Size
    <2>2. ShapeInv'
      BY <1>2 DEF Rotate, TypeOK, ShapeInv, Stored, HasLines, chunk
    <2> QED BY <2>1, <2>2
  <1>3. CASE Stat \/ StatAgain
    <2>1. reader' \in Readers /\ reader'.pc = "read" /\ chunk'.inode = inode
      <3>1. Stat => Look(cursor.offset, FALSE) /\ cursor.offset \in Offsets
        BY DEF Stat, TypeOK
      <3>2. StatAgain => Look(0, TRUE)
        BY Zenon DEF StatAgain
      <3>3. 0 \in Offsets
        BY DEF Offsets
      <3> QED BY <1>3, <3>1, <3>2, <3>3, LookFact
    <2>2. UNCHANGED <<log, cursor, late, events, history, bounds>>
      BY <1>3 DEF Stat, StatAgain
    <2>3. TypeOK'
      BY <2>1, <2>2 DEF TypeOK, log, history, bounds
    <2>4. ShapeInv'
      BY <2>1, <2>2 DEF TypeOK, ShapeInv, Stored, HasLines, log, history, bounds
    <2> QED BY <2>3, <2>4
  <1>4. CASE Read
    <2>1. UNCHANGED <<log, cursor, late, events, used, reused, shadowed, bounds>>
      BY <1>4 DEF Read
    <2>2. crossed' \in BOOLEAN
      BY <1>4 DEF Read, TypeOK
    <2>3. TypeOK'
      BY <1>4, <2>1, <2>2, ReadFact DEF TypeOK, log, bounds
    <2>4. reader'.pc # "idle" => chunk'.inode # 0 /\ chunk'.inode \in used
      BY <1>4, ReadFact DEF Read, TypeOK, ShapeInv, Readers, chunk, Idle
    <2>5. reader'.pc \in {"sent", "recorded"} =>
            HasLines(chunk)' /\ chunk'.offset < chunk'.first
      <3>1. chunk.offset \in Nat /\ base \in Nat /\ written \in Nat
        BY DEF TypeOK, Readers, Chunks, Offsets, chunk
      <3>2. Last(base + chunk.offset) <= written
        BY <3>1 DEF Last
      <3>3. reader'.pc \in {"sent", "recorded"} =>
              /\ chunk'.offset = chunk.offset
              /\ chunk'.first = base + chunk.offset + 1
              /\ chunk'.last = Last(base + chunk.offset)
              /\ chunk'.first <= chunk'.last
        BY <1>4, ReadFact DEF Idle
      <3> QED BY <2>1, <3>1, <3>2, <3>3 DEF HasLines, log
    <2>6. reader'.pc = "idle" => chunk'.inode = 0
      BY <1>4, ReadFact DEF Idle, NoChunk, chunk
    <2>7. ShapeInv'
      BY <2>1, <2>4, <2>5, <2>6 DEF ShapeInv, Stored, HasLines, log, bounds
    <2> QED BY <2>3, <2>7
  <1>5. CASE Record
    <2>1. Lines(chunk) \subseteq 1..written /\ chunk.offset \in Offsets
      BY <1>5, SMTT(20) DEF Record, Lines, TypeOK, Readers, Chunks, ShapeInv, HasLines,
                  Offsets, chunk
    <2>2. events' = Recorded(chunk)
      BY <1>5 DEF Record, chunk
    <2>3. TypeOK'
      BY <1>5, <2>1, <2>2, RecordedFact DEF Record, TypeOK, Readers, chunk, log, bounds
    <2>4. ShapeInv'
      <3>1. Stored' \subseteq 1..written
        BY <2>1, <2>2, RecordedFact DEF TypeOK, ShapeInv, Stored
      <3> QED BY <3>1, <1>5 DEF Record, TypeOK, Readers, ShapeInv, HasLines, chunk,
                                log, bounds
    <2> QED BY <2>3, <2>4
  <1>6. CASE Arrive
    <2>1. PICK c \in late : /\ late' = late \ {c}
                            /\ events' = events \/ events' = Recorded(c)
                            /\ UNCHANGED <<log, cursor, reader, history, bounds>>
      BY <1>6 DEF Arrive
    <2>2. Lines(c) \subseteq 1..written /\ c.offset \in Offsets
      BY DEF Lines, TypeOK, Chunks, ShapeInv, HasLines, Offsets
    <2>3. TypeOK'
      BY <2>1, <2>2, RecordedFact DEF TypeOK, log, history, bounds
    <2>4. ShapeInv'
      <3>1. Stored' \subseteq 1..written
        BY <2>1, <2>2, RecordedFact DEF TypeOK, ShapeInv, Stored
      <3> QED BY <3>1, <2>1 DEF TypeOK, ShapeInv, HasLines, chunk, log, history, bounds
    <2> QED BY <2>3, <2>4
  <1>7. CASE Answer
    <2>1. NextOffset(chunk) \in Offsets
      BY <1>7 DEF Answer, NextOffset, TypeOK, Readers, Chunks, ShapeInv, HasLines,
                  Offsets, chunk
    <2>2. TypeOK'
      BY <1>7, <2>1, IdleFact DEF Answer, Acknowledged, TypeOK, Readers, Chunks,
                                  chunk, log, history, bounds
    <2>3. ShapeInv'
      BY <1>7, <2>1 DEF Answer, Acknowledged, TypeOK, Readers, Chunks, ShapeInv, Idle,
                        NoChunk, Stored, HasLines, Offsets, chunk, log, history, bounds
    <2> QED BY <2>2, <2>3
  <1>8. CASE GiveUp
    <2>1. TypeOK'
      BY <1>8, IdleFact DEF GiveUp, TypeOK, Readers, log, history
    <2>2. ShapeInv'
      BY <1>8 DEF GiveUp, TypeOK, Readers, ShapeInv, Idle, NoChunk, Stored, HasLines,
                  Offsets, chunk, log, history
    <2> QED BY <2>1, <2>2
  <1>9. CASE UNCHANGED vars
    <2>1. TypeOK'
      BY <1>9 DEF TypeOK, vars, log, history, bounds
    <2>2. ShapeInv'
      BY <1>9 DEF ShapeInv, Stored, HasLines, chunk, vars, log, history, bounds
    <2> QED BY <2>1, <2>2
  <1> QED BY <1>1, <1>2, <1>3, <1>4, <1>5, <1>6, <1>7, <1>8, <1>9 DEF Next, Report

LEMMA StoredGrows ==
  ASSUME Types, [Next]_vars
  PROVE  /\ Stored \subseteq Stored' /\ shadowed \subseteq shadowed'
         /\ Record => Lines(chunk) \subseteq Stored' \cup shadowed'
  <1>1. \A c : c.offset \in Offsets /\ Lines(c) \subseteq 1..MaxLines
                /\ events' = Recorded(c) => Stored \subseteq Stored'
    BY RecordedFact DEF Stored, Fresh, Types
  <1>2. \A c \in late \cup {chunk} : reader.pc = "sent" \/ c \in late
          => c.offset \in Offsets /\ Lines(c) \subseteq 1..MaxLines
    BY Numbers DEF Types, ShapeInv, TypeOK, HasLines, Lines, Offsets
  <1>3. ASSUME Record
        PROVE  /\ Stored \subseteq Stored' /\ shadowed \subseteq shadowed'
               /\ Lines(chunk) \subseteq Stored' \cup shadowed'
    <2>1. reader.pc = "sent" /\ events' = Recorded(chunk)
          /\ shadowed' = shadowed \cup (Lines(chunk) \ Stored')
      BY <1>3 DEF Record, Stored, chunk
    <2> QED BY <1>1, <1>2, <2>1
  <1>4. CASE Arrive
    <2>1. PICK c \in late : events' = events \/ events' = Recorded(c)
      BY <1>4 DEF Arrive
    <2>2. Stored \subseteq Stored'
      BY <1>1, <1>2, <2>1 DEF Stored
    <2> QED BY <1>3, <1>4, <2>2 DEF Arrive, history
  <1>5. CASE Write \/ Rotate \/ Stat \/ Read \/ StatAgain \/ Answer \/ GiveUp
    <2>1. UNCHANGED <<events, shadowed>>
      BY <1>5 DEF Write, Rotate, Stat, Read, StatAgain, Answer, GiveUp, history
    <2> QED BY <1>3, <2>1 DEF Stored
  <1>6. CASE UNCHANGED vars
    <2>1. UNCHANGED <<events, shadowed>>
      BY <1>6 DEF vars, history
    <2> QED BY <1>3, <2>1 DEF Stored
  <1> QED BY <1>3, <1>4, <1>5, <1>6 DEF Next, Report

-----------------------------------------------------------------------------
(* Acknowledged lines are stored, or shadowed.                             *)

LEMMA LabelStep == Types /\ LabelInv /\ [Next]_vars => LabelInv'
  <1> SUFFICES ASSUME Types, LabelInv, [Next]_vars, ~reused' PROVE LabelInv'
    BY DEF LabelInv
  <1> USE DEF Types
  <1>1. TypeOK' /\ ~reused
    <2>1. TypeOK'
      BY TypesStep
    <2>2. Rotate => (reused => reused')
      BY DEF Rotate
    <2>3. (Next /\ ~Rotate) \/ UNCHANGED vars => reused' = reused
      BY DEF Next, Report, Write, Stat, StatAgain, Read, Record, Arrive, Answer, GiveUp,
             vars, history
    <2> QED BY <2>1, <2>2, <2>3
  <1>2. Stored \cup shadowed \subseteq Stored' \cup shadowed'
    BY StoredGrows
  <1>3. CASE Write \/ UNCHANGED vars
    BY <1>1, <1>2, <1>3 DEF Write, vars, LabelInv, Follows, log, history, bounds, chunk
  <1>4. CASE Rotate
    <2>1. inode' # cursor.inode /\ inode' # chunk.inode
      BY <1>1, <1>4, AuditAssumption DEF Rotate, ShapeInv, TypeOK
    <2> QED BY <1>1, <1>2, <1>4, <2>1 DEF Rotate, LabelInv, Follows, chunk
  <1>5. CASE Stat
    <2>1. reader'.pc = "read" /\ reader'.base = base /\ reader'.second = FALSE
          /\ chunk'.inode = inode /\ chunk'.offset = From(cursor.offset)
      BY <1>5, LookFact, Numbers DEF Stat
    <2> QED BY <1>1, <1>2, <1>5, <2>1 DEF Stat, From, LabelInv, log
  <1>6. CASE StatAgain
    <2>1. Look(0, TRUE)
      BY <1>6, Zenon DEF StatAgain
    <2>2. reader'.pc = "read" /\ reader'.base = base
          /\ chunk'.inode = inode /\ chunk'.offset = From(0)
      BY <2>1, LookFact, Numbers
    <2> QED BY <1>1, <1>2, <1>6, <2>2 DEF StatAgain, From, LabelInv, log
  <1>7. CASE Read
    <2>1. UNCHANGED <<log, cursor, events, shadowed>>
      BY <1>7 DEF Read
    <2>2. CASE reader'.pc = "sent"
      <3>1. /\ reader.second \/ ~Rewinds(chunk)
            /\ chunk'.inode = chunk.inode /\ chunk'.offset = chunk.offset
            /\ chunk'.first = base + chunk.offset + 1
        BY <1>7, <2>2, ReadFact DEF Idle
      <3>2. chunk.offset # 0 => cursor.inode # 0
        BY <1>1, <1>7 DEF Read, LabelInv, ShapeInv
      <3>3. Follows'
        BY <1>1, <1>7, <2>1, <3>1, <3>2 DEF Read, Follows, Rewinds, LabelInv
      <3> QED BY <1>1, <1>2, <2>1, <2>2, <3>1, <3>3 DEF LabelInv, log
    <2>3. CASE reader'.pc # "sent"
      <3>1. reader'.pc \in {"again", "idle"}
        BY <1>7, <2>3, ReadFact DEF Idle
      <3> QED BY <1>1, <1>2, <2>1, <3>1 DEF LabelInv, log
    <2> QED BY <2>2, <2>3
  <1>8. CASE Record
    <2>1. Lines(chunk) \subseteq Stored' \cup shadowed'
      BY <1>8, StoredGrows
    <2>2. reader'.pc = "recorded" /\ chunk' = chunk /\ reader.pc = "sent"
      BY <1>8 DEF Record, TypeOK, Readers, chunk
    <2> QED BY <1>1, <1>2, <1>8, <2>1, <2>2 DEF Record, LabelInv, Follows, log, Lines
  <1>9. CASE Arrive
    BY <1>1, <1>2, <1>9 DEF Arrive, LabelInv, Follows, log, history, chunk, Lines
  <1>10. CASE Answer
    <2>1. /\ reader.pc = "recorded" /\ reader'.pc = "idle"
          /\ cursor' = [inode |-> chunk.inode, offset |-> NextOffset(chunk)]
          /\ UNCHANGED <<log, events, shadowed>>
      BY <1>10 DEF Answer, Idle, Acknowledged, chunk, history
    <2>2. ASSUME chunk.inode = inode
          PROVE  (base + 1)..(base + NextOffset(chunk)) \subseteq Stored \cup shadowed
      <3>1. chunk.first = base + chunk.offset + 1
        BY <1>1, <2>1, <2>2 DEF LabelInv
      <3>2. base + NextOffset(chunk) = chunk.last
        BY <3>1, Numbers DEF NextOffset
      <3>3. (base + 1)..(base + chunk.offset) \subseteq Stored \cup shadowed
        <4>1. CASE chunk.offset = 0
          BY <4>1, Numbers
        <4>2. CASE chunk.offset # 0
          BY <1>1, <2>1, <2>2, <4>2 DEF LabelInv, Follows
        <4> QED BY <4>1, <4>2
      <3>4. chunk.first..chunk.last \subseteq Stored \cup shadowed
        BY <1>1, <2>1 DEF LabelInv, Lines
      <3> QED BY <3>1, <3>2, <3>3, <3>4, Numbers
    <2> QED BY <1>1, <2>1, <2>2 DEF LabelInv, Stored, log
  <1>11. CASE GiveUp
    BY <1>1, <1>2, <1>11 DEF GiveUp, Idle, LabelInv, log, history
  <1> QED BY <1>3, <1>4, <1>5, <1>6, <1>7, <1>8, <1>9, <1>10, <1>11 DEF Next, Report

LEMMA QuietStep == Types /\ QuietInv /\ [Next]_vars => QuietInv'
  <1> SUFFICES ASSUME Types, QuietInv, [Next]_vars, rotations' = 0, trouble' = 0
               PROVE  QuietInv'
    BY DEF QuietInv
  <1> USE DEF Types
  <1>1. CASE Rotate \/ GiveUp
    BY <1>1, AuditAssumption DEF Rotate, GiveUp, TypeOK
  <1>2. CASE ~Rotate /\ ~GiveUp
    <2>1. rotations = 0 /\ trouble = 0
      BY <1>2 DEF Next, Report, Write, Stat, StatAgain, Read, Record, Arrive, Answer,
                  vars, bounds
    <2>2. late = {} /\ shadowed = {} /\ base = 0 /\ ~reused
          /\ cursor.inode \in {0, inode} /\ cursor.offset <= written
          /\ reader.pc # "again"
      BY <2>1 DEF QuietInv
    <2>3. CASE Write \/ UNCHANGED vars
      BY <2>1, <2>2, <2>3, Numbers DEF Write, vars, QuietInv, NextOffset, log, history,
                                       bounds, chunk
    <2>4. CASE Stat
      <3>1. reader'.pc = "read" /\ chunk'.inode = inode
            /\ chunk'.offset = From(cursor.offset)
        BY <2>4, LookFact, Numbers DEF Stat
      <3>2. From(cursor.offset) = cursor.offset
        BY <2>2, Numbers DEF From, Size
      <3> QED BY <2>1, <2>2, <2>4, <3>1, <3>2 DEF Stat, QuietInv, log, history, bounds
    <2>5. CASE StatAgain
      BY <2>2, <2>5 DEF StatAgain
    <2>6. CASE Read
      <3>1. UNCHANGED <<log, cursor, late, events, reused, shadowed>>
        BY <2>6 DEF Read
      <3>2. chunk.inode = inode /\ chunk.offset = cursor.offset
        BY <2>1, <2>6 DEF Read, QuietInv
      <3>3. ~Rewinds(chunk)
        BY <2>2, <3>2 DEF Rewinds
      <3>4. reader'.pc \in {"idle", "sent"}
        BY <2>6, <3>3, ReadFact DEF Idle
      <3>5. reader'.pc = "sent" => /\ chunk'.inode = inode
                                  /\ chunk'.offset = cursor.offset
                                  /\ chunk'.first = chunk'.offset + 1
        BY <2>2, <2>6, <3>2, ReadFact, Numbers DEF Idle
      <3> QED BY <2>1, <2>2, <2>6, <3>1, <3>4, <3>5 DEF Read, QuietInv, log
    <2>7. CASE Record
      <3>1. /\ reader.pc = "sent" /\ reader'.pc = "recorded" /\ chunk' = chunk
            /\ events' = Recorded(chunk)
            /\ shadowed' = shadowed \cup (Lines(chunk) \ Stored')
            /\ UNCHANGED <<log, cursor, late, reused>>
        BY <2>7 DEF Record, TypeOK, Readers, chunk, Stored
      <3>2. /\ chunk.inode = inode /\ chunk.offset = cursor.offset
            /\ chunk.first = chunk.offset + 1 /\ events[chunk.offset] = {}
        BY <2>1, <3>1, Numbers DEF QuietInv
      <3>3. chunk.first <= chunk.last /\ Lines(chunk) \subseteq 1..MaxLines
        BY <3>1, Numbers DEF ShapeInv, HasLines, Lines, TypeOK, Offsets
      <3>4. \A o \in Offsets :
              events'[o] = IF o = chunk.offset THEN Lines(chunk) ELSE events[o]
        BY <3>1, <3>2, <3>3, RecordedFact, Numbers DEF Fresh
      <3>5. shadowed' = {}
        BY <2>2, <3>1, <3>2, <3>4, Numbers DEF Stored
      <3>6. NextOffset(chunk) > chunk.offset
        BY <3>3, Numbers DEF NextOffset
      <3>7. \A o \in Offsets : o >= NextOffset(chunk)' => events'[o] = {}
        BY <2>1, <3>1, <3>2, <3>4, <3>6, Numbers DEF QuietInv, NextOffset
      <3> QED BY <2>2, <3>1, <3>2, <3>5, <3>7 DEF QuietInv, log
    <2>8. CASE Arrive
      BY <2>2, <2>8 DEF Arrive
    <2>9. CASE Answer
      <3>1. /\ reader.pc = "recorded" /\ reader'.pc = "idle"
            /\ cursor' = [inode |-> chunk.inode, offset |-> NextOffset(chunk)]
            /\ UNCHANGED <<log, late, events, reused, shadowed>>
        BY <2>9 DEF Answer, Idle, Acknowledged, chunk, history
      <3>2. chunk.inode = inode /\ chunk.first = chunk.offset + 1
        BY <2>1, <3>1 DEF QuietInv
      <3>3. NextOffset(chunk) <= written
        BY <3>1, <3>2, Numbers DEF ShapeInv, HasLines, NextOffset
      <3> QED BY <2>1, <2>2, <3>1, <3>2, <3>3 DEF QuietInv, log
    <2> QED BY <1>2, <2>3, <2>4, <2>5, <2>6, <2>7, <2>8, <2>9 DEF Next, Report
  <1> QED BY <1>1, <1>2

\* What the cursor has left behind is stored or shadowed (record_batches(),
\* apply_audit_ack()).
THEOREM AcknowledgedIsStored == Spec => []AckedIsStored
  <1>1. Init => AckInv
    <2> SUFFICES ASSUME Init PROVE LabelInv /\ QuietInv
      BY InitTypes DEF AckInv
    <2>1. LabelInv
      <3>1. cursor.inode # inode
        BY AuditAssumption DEF Init
      <3> QED BY <3>1 DEF Init, LabelInv, Idle
    <2>2. QuietInv
      BY DEF Init, QuietInv, Idle
    <2> QED BY <2>1, <2>2
  <1>2. AckInv /\ [Next]_vars => AckInv'
    BY TypesStep, LabelStep, QuietStep DEF AckInv
  <1>3. AckInv => AckedIsStored
    BY DEF AckInv, LabelInv, QuietInv, AckedIsStored
  <1> QED BY <1>1, <1>2, <1>3, PTL DEF Spec

\* Every variable keeps its type (audit_batches(), record_batches()).
THEOREM TypeCorrect == Spec => []TypeOK
  <1>1. Types => TypeOK
    BY DEF Types
  <1> QED BY <1>1, InitTypes, TypesStep, PTL DEF Spec

-----------------------------------------------------------------------------
(* Lines are stored once.                                                  *)

OnceParts == StoredInv /\ LateInv /\ ReaderInv /\ ApartInv

LEMMA ShapeFact ==
  ASSUME Types
  PROVE  /\ \A c \in InTransit : /\ c \in Chunks /\ c.first <= c.last
                                 /\ c.last <= written /\ c.offset < c.first
         /\ Sent => /\ chunk.first <= chunk.last /\ chunk.last <= written
                    /\ chunk.offset < chunk.first
         /\ \A o \in Offsets : \A n \in events[o] : n \in Nat /\ n <= written
         /\ reader.base \in Nat
  <1>1. \A o \in Offsets : events[o] \subseteq 1..written
    BY DEF Types, ShapeInv, Stored
  <1>2. \A o \in Offsets : \A n \in events[o] : n \in Nat /\ n <= written
    BY <1>1, Numbers DEF Types
  <1>3. chunk \in Chunks /\ late \subseteq Chunks /\ reader.base \in Nat
    BY DEF Types, TypeOK, Readers, chunk
  <1> QED BY <1>2, <1>3 DEF Types, ShapeInv, HasLines, InTransit, Sent

\* The chunk that was sent is as good as one that comes late.
LEMMA SentIsGood ==
  ASSUME Types, OnceParts, Sent
  PROVE  LateGood(chunk)
  <1>1. CASE ~Current(chunk)
    BY <1>1 DEF OnceParts, ReaderInv, LateGood, Busy, Sent
  <1>2. CASE Current(chunk)
    <2>1. reader.base = base
      BY <1>2, ShapeFact, Numbers DEF OnceParts, ReaderInv, Current, Types
    <2>2. chunk.first = base + chunk.offset + 1 /\ chunk.last < chunk.first + Chunk
      BY <2>1 DEF OnceParts, ReaderInv
    <2>3. cursor.offset = 0 => chunk.offset = 0
      BY DEF OnceParts, ReaderInv, Busy, Sent
    <2>4. ASSUME Fresh(chunk), cursor.offset # 0
          PROVE  /\ cursor.inode = inode /\ cursor.offset <= Size
                 /\ chunk.offset = cursor.offset
      <3>1. chunk.offset # 0
        BY <2>4 DEF OnceParts, StoredInv, Fresh
      <3>2. cursor.inode = inode /\ chunk.offset = cursor.offset
        BY <2>1, <3>1 DEF OnceParts, ReaderInv, Sent
      <3>3. cursor.offset <= Size
        BY <2>2, <3>2, ShapeFact, Numbers DEF Size, Types, Chunks
      <3> QED BY <3>2, <3>3
    <2> QED BY <2>2, <2>3, <2>4 DEF LateGood
  <1> QED BY <1>1, <1>2

\* Storing a chunk that was in transit leaves all lines apart.
LEMMA Enters ==
  ASSUME Types, OnceParts, NEW c \in InTransit, LateGood(c), events' = Recorded(c),
         UNCHANGED <<log, cursor>>, InTransit' \subseteq InTransit
  PROVE  /\ StoredInv' /\ ApartInv'
         /\ \A o \in Offsets : events[o] # {} => events'[o] = events[o]
         /\ events'[c.offset] # {}
         /\ \A o \in Offsets : \A n \in events'[o] :
              n \in events[o] \/ (Fresh(c) /\ o = c.offset /\ n <= c.last)
  <1>1. /\ c.offset \in Offsets /\ c.first \in Nat /\ c.last \in Nat
        /\ c.first <= c.last /\ c.last <= written
        /\ Lines(c) \subseteq 1..MaxLines /\ Lines(c) # {}
    <2>1. /\ c.offset \in Offsets /\ c.first \in Nat /\ c.last \in Nat
          /\ c.first <= c.last /\ c.last <= written /\ c.offset < c.first
      BY ShapeFact, Numbers DEF Types
    <2> QED BY <2>1, Numbers DEF Types, Lines
  <1>2. \A o \in Offsets :
          events'[o] = IF o = c.offset /\ Fresh(c) THEN Lines(c) ELSE events[o]
    BY <1>1, RecordedFact DEF Types
  <1>3. \A n \in Lines(c) : n \in Nat /\ n <= c.last
    BY <1>1 DEF Lines
  <1>4. \A o \in Offsets : \A n \in events'[o] :
          n \in events[o] \/ (Fresh(c) /\ o = c.offset /\ n \in Lines(c))
    BY <1>2
  <1>5. events'[c.offset] # {} /\ \A o \in Offsets : events[o] # {} => events'[o] = events[o]
    BY <1>1, <1>2 DEF Fresh
  <1>6. StoredInv'
    <2>1. cursor'.offset # 0 => events'[0] # {}
      BY <1>5, Numbers DEF OnceParts, StoredInv, Types
    <2>2. cursor'.offset = 0 => \A o \in Offsets : o # 0 => events'[o] = {}
      BY <1>2 DEF OnceParts, StoredInv, LateGood
    <2>3. ASSUME NEW o \in Offsets, NEW n \in events'[o], n > base
          PROVE  /\ n <= base + o + Chunk
                 /\ cursor.offset # 0 =>
                      /\ cursor.inode = inode /\ cursor.offset <= Size
                      /\ o = cursor.offset \/ n <= base + cursor.offset
      <3>1. CASE n \in events[o]
        BY <2>3, <3>1 DEF OnceParts, StoredInv
      <3>2. CASE Fresh(c) /\ o = c.offset /\ n \in Lines(c)
        <4>1. n <= c.last /\ n \in Nat /\ Current(c)
          BY <1>1, <1>3, <2>3, <3>2, Numbers DEF Current, Types
        <4>2. c.first = base + c.offset + 1 /\ c.last < c.first + Chunk
          BY <4>1 DEF LateGood
        <4>3. n <= base + o + Chunk
          BY <1>1, <3>2, <4>1, <4>2, Numbers DEF Types
        <4> QED BY <3>2, <4>1, <4>3 DEF LateGood
      <3> QED BY <1>4, <2>3, <3>1, <3>2
    <2> QED BY <2>1, <2>2, <2>3 DEF StoredInv, Size, log
  <1>7. ApartInv'
    <2>1. ASSUME NEW d \in InTransit', Fresh(d)'
          PROVE  d \in InTransit /\ d.offset \in Offsets /\ Fresh(d)
                 /\ (Fresh(c) => d.offset # c.offset)
      <3>1. d \in InTransit /\ d.offset \in Offsets
        BY ShapeFact, Numbers DEF Types
      <3> QED BY <1>5, <2>1, <3>1 DEF Fresh
    <2>2. Stored' \subseteq IF Fresh(c) THEN Stored \cup Lines(c) ELSE Stored
      BY <1>2 DEF Stored
    <2>3. ASSUME NEW d \in InTransit', Fresh(d)'
          PROVE  (Lines(d) \cap Stored)' = {}
      <3>1. Lines(d) \cap Stored = {} /\ (Fresh(c) => Lines(d) \cap Lines(c) = {})
        BY <2>1, <2>3 DEF OnceParts, ApartInv
      <3> QED BY <2>2, <3>1 DEF Lines
    <2>4. ASSUME NEW d \in InTransit', NEW e \in InTransit', Fresh(d)', Fresh(e)',
                 d.offset # e.offset
          PROVE  Lines(d) \cap Lines(e) = {}
      BY <2>1, <2>4 DEF OnceParts, ApartInv
    <2>5. ASSUME NEW o \in Offsets, NEW p \in Offsets, o # p
          PROVE  events'[o] \cap events'[p] = {}
      <3>1. events[o] \cap events[p] = {}
        BY <2>5 DEF OnceParts, ApartInv
      <3>2. Fresh(c) => Lines(c) \cap events[o] = {} /\ Lines(c) \cap events[p] = {}
        BY DEF OnceParts, ApartInv, Stored
      <3> QED BY <1>2, <2>5, <3>1, <3>2
    <2> QED BY <2>3, <2>4, <2>5 DEF ApartInv, Lines
  <1> QED BY <1>3, <1>4, <1>5, <1>6, <1>7
\* What does not change the stores leaves their part; any reader at rest will do.
LEMMA StoresStay ==
  ASSUME Types, OnceParts, UNCHANGED <<log, cursor, late, events>>
  PROVE  StoredInv' /\ LateInv'
  BY DEF OnceParts, StoredInv, LateInv, LateGood, Current, Fresh, Size, log

LEMMA AtRest ==
  ASSUME reader' = Idle
  PROVE  ReaderInv'
  BY DEF Idle, ReaderInv, Busy, Sent

LEMMA ApartStays ==
  ASSUME OnceParts, UNCHANGED events, InTransit' \subseteq InTransit
  PROVE  ApartInv'
  BY DEF OnceParts, ApartInv, Fresh, Lines, Stored

LEMMA OnceWrite ==
  ASSUME Types, OnceParts, Write
  PROVE  OnceParts'
  <1>1. /\ written' = written + 1 /\ UNCHANGED <<inode, base, cursor, reader, late, events>>
        /\ written \in Nat /\ base \in Nat /\ cursor.offset \in Nat /\ chunk.offset \in Nat
    BY Numbers DEF Write, Types, Chunks
  <1>2. Size \in Int /\ Size' = Size + 1
    BY <1>1 DEF Size
  <1>3. StoredInv' /\ LateInv'
    BY <1>1, <1>2 DEF OnceParts, StoredInv, LateInv, LateGood, Current, Fresh
  <1>4. ReaderInv'
    BY <1>1, <1>2 DEF OnceParts, ReaderInv, NothingCurrent, Current, Fresh, Busy, Sent, chunk
  <1>5. ApartInv'
    BY <1>1, ApartStays DEF InTransit, chunk
  <1> QED BY <1>3, <1>4, <1>5 DEF OnceParts

LEMMA OnceRotate ==
  ASSUME Types, OnceParts, Rotate
  PROVE  OnceParts'
  <1>1. /\ base' = written /\ base < written
        /\ UNCHANGED <<written, cursor, reader, late, events>>
    BY Numbers DEF Rotate, Size, Types
  <1>2. /\ \A o \in Offsets : \A n \in events'[o] : ~(n > base')
        /\ \A o \in Offsets : \A n \in events'[o] : n <= base'
        /\ \A c \in late' : ~Current(c)'
    <2>1. \A o \in Offsets : \A n \in events[o] : n \in Nat /\ n <= written
      BY ShapeFact
    <2>2. \A c \in late : c.last \in Nat /\ c.last <= written
      BY ShapeFact, Numbers DEF Types, InTransit
    <2> QED BY <1>1, <2>1, <2>2, Numbers DEF Types, Current
  <1>3. NothingCurrent'
    BY <1>2 DEF NothingCurrent
  <1>4. StoredInv' /\ LateInv'
    BY <1>1, <1>2 DEF OnceParts, StoredInv, LateInv, LateGood
  <1>5. ReaderInv'
    <2>1. Busy => reader.base < base' /\ reader.base <= base' /\ reader.base # base'
      BY <1>1, ShapeFact, Numbers DEF OnceParts, ReaderInv, Types
    <2>2. Sent => chunk.last <= base'
      BY <1>1, ShapeFact
    <2> QED BY <1>1, <1>3, <2>1, <2>2 DEF OnceParts, ReaderInv, Busy, Sent, Fresh, chunk
  <1>6. ApartInv'
    BY <1>1, ApartStays DEF InTransit, chunk
  <1> QED BY <1>4, <1>5, <1>6 DEF OnceParts

\* A look at the file, from the cursor's offset or again from its start.
LEMMA OnceLook ==
  ASSUME Types, OnceParts, Stat \/ StatAgain
  PROVE  OnceParts'
  <1>1. UNCHANGED <<log, cursor, late, events>>
    BY DEF Stat, StatAgain
  <1>2. cursor.offset \in Nat /\ Size \in Nat /\ base \in Nat
    BY Numbers DEF Size, Types
  <1>3. /\ reader'.pc = "read" /\ reader'.base = base /\ chunk'.inode = inode
        /\ chunk'.offset # 0 => chunk'.offset = cursor.offset /\ ~reader'.second
        /\ chunk'.offset <= Size
        /\ cursor.offset = 0 => chunk'.offset = 0
    <2>1. CASE Stat
      <3>1. /\ reader'.pc = "read" /\ reader'.second = FALSE /\ reader'.base = base
            /\ chunk'.inode = inode /\ chunk'.offset = From(cursor.offset)
        BY <2>1, LookFact, Numbers DEF Stat, Types
      <3> QED BY <1>2, <3>1 DEF From
    <2>2. CASE StatAgain
      <3>1. Look(0, TRUE)
        BY <2>2, Zenon DEF StatAgain
      <3>2. /\ reader'.pc = "read" /\ reader'.base = base
            /\ chunk'.inode = inode /\ chunk'.offset = From(0)
        BY <3>1, LookFact, Numbers DEF Types
      <3> QED BY <1>2, <3>2 DEF From
    <2> QED BY <2>1, <2>2
  <1>4. chunk'.offset = 0 /\ cursor.offset # 0 => NothingCurrent
    <2>1. CASE Stat /\ cursor.offset > Size
      <3>1. \A o \in Offsets : \A n \in events[o] : n \in Nat
        BY ShapeFact
      <3> QED BY <1>2, <2>1, <3>1 DEF OnceParts, StoredInv, LateInv, LateGood, NothingCurrent
    <2>2. CASE Stat /\ ~(cursor.offset > Size)
      <3>1. chunk'.offset = From(cursor.offset)
        BY <2>2, LookFact, Numbers DEF Stat, Types
      <3> QED BY <2>2, <3>1 DEF From
    <2>3. CASE StatAgain
      BY <2>3 DEF StatAgain, OnceParts, ReaderInv
    <2> QED BY <2>1, <2>2, <2>3
  <1>5. NothingCurrent => NothingCurrent'
    BY <1>1 DEF NothingCurrent, Current, Fresh, log
  <1>6. ReaderInv'
    BY <1>1, <1>2, <1>3, <1>4, <1>5 DEF ReaderInv, Busy, Sent, Size, log
  <1>7. ApartInv'
    BY <1>1, <1>3, ApartStays DEF InTransit
  <1> QED BY <1>1, <1>6, <1>7, StoresStay DEF OnceParts
\* What a read of the file it looked at may find already stored or underway.
LEMMA Found ==
  ASSUME Types, OnceParts, reader.pc = "read", reader.base = base,
         chunk.offset # 0 => cursor.inode = inode
  PROVE  /\ \A o \in Offsets : \A n \in events[o] : n > base =>
              /\ n <= base + chunk.offset + Chunk
              /\ o = chunk.offset \/ n <= base + chunk.offset
         /\ \A c \in late : Current(c) /\ Fresh(c) =>
              c.offset = chunk.offset /\ c.last <= base + chunk.offset + Chunk
  <1>1. /\ chunk.offset \in Nat /\ base \in Nat /\ cursor.offset \in Offsets
        /\ chunk.offset # 0 => chunk.offset = cursor.offset
        /\ chunk.offset = 0 /\ cursor.offset # 0 => NothingCurrent
        /\ Chunk \in Nat
    BY Numbers DEF Types, Chunks, OnceParts, ReaderInv
  <1>2. ASSUME NEW o \in Offsets, NEW n \in events[o], n > base
        PROVE  /\ n <= base + chunk.offset + Chunk
               /\ o = chunk.offset \/ n <= base + chunk.offset
    <2>1. n \in Nat /\ o \in Nat
      BY ShapeFact, Numbers DEF Types
    <2>2. chunk.offset = 0 => cursor.offset = 0
      BY <1>1, <1>2, <2>1 DEF NothingCurrent
    <2>3. /\ n <= base + o + Chunk
          /\ cursor.offset # 0 => o = cursor.offset \/ n <= base + cursor.offset
          /\ cursor.offset = 0 => o = 0
      BY <1>2 DEF OnceParts, StoredInv
    <2> QED BY <1>1, <2>1, <2>2, <2>3
  <1>3. ASSUME NEW c \in late, Current(c), Fresh(c)
        PROVE  c.offset = chunk.offset /\ c.last <= base + chunk.offset + Chunk
    <2>1. chunk.offset = 0 => cursor.offset = 0
      BY <1>1, <1>3 DEF NothingCurrent
    <2>2. LateGood(c)
      BY DEF OnceParts, LateInv
    <2>3. c.offset = chunk.offset
      BY <1>1, <1>3, <2>1, <2>2 DEF LateGood
    <2>4. c.last < c.first + Chunk /\ c.first = base + c.offset + 1
      BY <1>3, <2>2 DEF LateGood
    <2>5. c.last \in Nat
      BY Numbers DEF Types, TypeOK, Offsets
    <2> QED BY <1>1, <2>3, <2>4, <2>5
  <1> QED BY <1>2, <1>3

LEMMA OnceRead ==
  ASSUME Types, OnceParts, Read, reader.base = base
  PROVE  OnceParts'
  <1>1. UNCHANGED <<log, cursor, late, events>> /\ reader.pc = "read"
    BY DEF Read
  <1>2. chunk.inode = inode
    BY <1>1 DEF OnceParts, ReaderInv
  <1>3. NothingCurrent => NothingCurrent'
    BY <1>1 DEF NothingCurrent, Current, Fresh, log
  <1>4. CASE reader'.pc = "again"
    <2>1. Rewinds(chunk) /\ reader' = [reader EXCEPT !.pc = "again"]
      BY <1>4, ReadFact DEF Types, Idle
    <2>2. cursor.offset # 0 /\ cursor.inode # inode
      BY <1>2, <2>1 DEF Rewinds
    <2>3. NothingCurrent
      <3>1. \A o \in Offsets : \A n \in events[o] : n \in Nat
        BY ShapeFact
      <3> QED BY <2>2, <3>1, Numbers
              DEF OnceParts, StoredInv, LateInv, LateGood, NothingCurrent, Types
    <2>4. chunk' = chunk /\ reader'.base = base
      BY <2>1 DEF Types, TypeOK, Readers, chunk
    <2>5. ReaderInv'
      BY <1>1, <1>3, <1>4, <2>2, <2>3, <2>4, Numbers DEF ReaderInv, Busy, Sent, log, Types
    <2>6. ApartInv'
      BY <1>1, <1>4, ApartStays DEF InTransit
    <2> QED BY <1>1, <2>5, <2>6, StoresStay DEF OnceParts
  <1>5. CASE reader' = Idle
    <2>1. ApartInv'
      BY <1>1, <1>5, ApartStays DEF InTransit, Idle
    <2> QED BY <1>1, <1>5, <2>1, AtRest, StoresStay DEF OnceParts
  <1>6. CASE reader'.pc = "sent"
    <2>1. /\ reader.second \/ ~Rewinds(chunk)
          /\ reader'.base = base /\ reader'.second = reader.second
          /\ chunk'.inode = inode /\ chunk'.offset = chunk.offset
          /\ chunk'.first = base + chunk.offset + 1
          /\ chunk'.last = Last(base + chunk.offset)
          /\ chunk'.first <= chunk'.last
      BY <1>2, <1>6, ReadFact DEF Types, Idle
    <2>2. chunk.offset # 0 => cursor.inode = inode
      BY <1>1, <1>2, <2>1 DEF OnceParts, ReaderInv, Rewinds, Types, ShapeInv
    <2>3. /\ chunk.offset \in Nat /\ base \in Nat /\ written \in Nat
          /\ Chunk \in Nat /\ chunk'.last \in Nat
          /\ chunk'.last <= base + chunk.offset + Chunk
          /\ base < chunk'.first /\ chunk'.first \in Nat
      BY <2>1, Numbers DEF Types, Chunks, Last
    <2>4. /\ \A o \in Offsets : \A n \in events[o] : n > base =>
               /\ n <= base + chunk.offset + Chunk
               /\ o = chunk.offset \/ n <= base + chunk.offset
          /\ \A c \in late : Current(c) /\ Fresh(c) =>
               c.offset = chunk.offset /\ c.last <= base + chunk.offset + Chunk
      BY <1>1, <2>2, Found
    <2>5. \A o \in Offsets : \A n \in events[o] : n \in Nat /\ n <= chunk'.last
      <3>1. \A o \in Offsets : \A n \in events[o] : n \in Nat /\ n <= written
        BY ShapeFact
      <3> QED BY <2>1, <2>3, <2>4, <3>1 DEF Last
    <2>6. \A c \in late : Fresh(c) => c.last <= chunk'.last
      <3>1. \A c \in late : c.last \in Nat /\ c.last <= written
        BY ShapeFact, Numbers DEF Types, InTransit
      <3> QED BY <2>1, <2>3, <2>4, <3>1 DEF Last, Current
    <2>7. ReaderInv'
      <3>1. /\ cursor.offset = 0 => chunk.offset = 0
            /\ chunk.offset = 0 /\ cursor.offset # 0 => NothingCurrent
            /\ chunk.offset # 0 => chunk.offset = cursor.offset
        BY <1>1 DEF OnceParts, ReaderInv, Busy
      <3>2. chunk'.last < chunk'.first + Chunk
        BY <2>1, <2>3
      <3> QED BY <1>1, <1>3, <1>6, <2>1, <2>2, <2>3, <2>5, <2>6, <3>1, <3>2
              DEF ReaderInv, Busy, Sent, Fresh, log
    <2>8. ApartInv'
      <3>1. \A n \in Lines(chunk') : n \in Nat /\ n > base + chunk.offset
        BY <2>1, <2>3 DEF Lines
      <3>2. InTransit' = late \cup {chunk'} /\ late \subseteq InTransit
        BY <1>1, <1>6 DEF InTransit
      <3>3. Fresh(chunk') => Lines(chunk') \cap Stored = {}
        <4> SUFFICES ASSUME Fresh(chunk'), NEW n \in Lines(chunk'), NEW o \in Offsets,
                            n \in events[o]
                     PROVE  FALSE
          BY DEF Stored
        <4>1. o = chunk.offset
          BY <2>3, <2>4, <3>1
        <4> QED BY <2>1, <4>1 DEF Fresh
      <3>4. \A c \in late : Fresh(c) /\ c.offset # chunk'.offset =>
              Lines(c) \cap Lines(chunk') = {}
        <4> SUFFICES ASSUME NEW c \in late, Fresh(c), c.offset # chunk.offset,
                            NEW n \in Lines(c), n \in Lines(chunk')
                     PROVE  FALSE
          BY <2>1
        <4>1. n <= c.last /\ c.last \in Nat
          BY Numbers DEF Lines, Types, TypeOK, Offsets
        <4>2. Current(c)
          BY <2>3, <3>1, <4>1 DEF Current
        <4> QED BY <2>4, <4>2
      <3>5. \A c \in InTransit' : Fresh(c)' => Lines(c) \cap Stored = {}
        BY <1>1, <3>2, <3>3 DEF OnceParts, ApartInv, Fresh
      <3>6. \A c, d \in InTransit' :
              Fresh(c)' /\ Fresh(d)' /\ c.offset # d.offset => Lines(c) \cap Lines(d) = {}
        BY <1>1, <3>2, <3>4 DEF OnceParts, ApartInv, Fresh
      <3>7. Stored' = Stored
        BY <1>1 DEF Stored
      <3> QED BY <1>1, <3>5, <3>6, <3>7 DEF OnceParts, ApartInv, Lines
    <2> QED BY <1>1, <2>7, <2>8, StoresStay DEF OnceParts
  <1> QED BY <1>4, <1>5, <1>6, ReadFact DEF Types

\* A chunk that is stored leaves the chunks on their way and the rest of the
\* reader's part.
LEMMA NothingCurrentStays ==
  ASSUME Types, NothingCurrent, NEW c, Fresh(c) => c.last <= base, c.last \in Nat,
         UNCHANGED log, late' \subseteq late,
         \A o \in Offsets : events[o] # {} => events'[o] = events[o],
         \A o \in Offsets : \A n \in events'[o] :
           n \in events[o] \/ (Fresh(c) /\ o = c.offset /\ n <= c.last /\ n \in Nat)
  PROVE  NothingCurrent'
  <1>1. \A d \in late' : d.offset \in Offsets
    BY Numbers DEF Types, TypeOK
  <1> QED BY <1>1, Numbers DEF NothingCurrent, Current, Fresh, log, Types

LEMMA OnceRecord ==
  ASSUME Types, OnceParts, Record
  PROVE  OnceParts'
  <1>1. /\ reader.pc = "sent" /\ reader'.pc = "recorded" /\ chunk' = chunk
        /\ reader'.base = reader.base /\ events' = Recorded(chunk)
        /\ UNCHANGED <<log, cursor, late>>
    BY DEF Record, Types, TypeOK, Readers, chunk
  <1>2. chunk \in InTransit /\ InTransit' \subseteq InTransit /\ Sent /\ Busy
    BY <1>1 DEF InTransit, Sent, Busy
  <1>3. LateGood(chunk)
    BY <1>2, SentIsGood
  <1>4. /\ StoredInv' /\ ApartInv'
        /\ \A o \in Offsets : events[o] # {} => events'[o] = events[o]
        /\ events'[chunk.offset] # {}
        /\ \A o \in Offsets : \A n \in events'[o] :
             n \in events[o] \/ (Fresh(chunk) /\ o = chunk.offset /\ n <= chunk.last)
    BY <1>1, <1>2, <1>3, Enters
  <1>5. \A o \in Offsets : \A n \in events'[o] : n \in Nat
    <2>1. Types'
      BY TypesStep DEF Next, Report
    <2> QED BY <1>4, <2>1, Numbers DEF Types, TypeOK
  <1>6. \A d \in late : d.offset \in Offsets /\ (Fresh(d)' => Fresh(d))
    BY <1>4, Numbers DEF Types, TypeOK, Fresh
  <1>7. LateInv'
    BY <1>1, <1>6 DEF OnceParts, LateInv, LateGood, Current, Size, log
  <1>8. /\ reader.base # base => NothingCurrent'
        /\ reader.base = base /\ chunk.offset = 0 /\ cursor.offset # 0 => NothingCurrent'
    <2>1. /\ reader.base # base => NothingCurrent /\ chunk.last <= base
          /\ reader.base = base /\ chunk.offset = 0 /\ cursor.offset # 0 => NothingCurrent
          /\ chunk.offset = 0 /\ cursor.offset # 0 => ~Fresh(chunk)
      BY <1>1, <1>2 DEF OnceParts, ReaderInv, StoredInv, Fresh
    <2>2. chunk.last \in Nat
      BY Numbers DEF Types, Offsets
    <2> QED BY <1>1, <1>4, <1>5, <2>1, <2>2, NothingCurrentStays
  <1>9. reader.base = base => \A o \in Offsets : \A n \in events'[o] : n <= chunk.last
    BY <1>1, <1>4, <1>2 DEF OnceParts, ReaderInv
  <1>10. ReaderInv'
    BY <1>1, <1>2, <1>4, <1>6, <1>8, <1>9 DEF OnceParts, ReaderInv, Busy, Sent, Fresh, log
  <1> QED BY <1>4, <1>7, <1>10 DEF OnceParts

LEMMA OnceArrive ==
  ASSUME Types, OnceParts, Arrive
  PROVE  OnceParts'
  <1>1. PICK c \in late : /\ late' = late \ {c}
                          /\ events' = events \/ events' = Recorded(c)
                          /\ UNCHANGED <<log, cursor, reader>>
    BY DEF Arrive
  <1>2. c \in InTransit /\ InTransit' \subseteq InTransit /\ chunk' = chunk
    BY <1>1 DEF InTransit, chunk
  <1>3. LateGood(c) /\ c.last \in Nat /\ c.offset \in Offsets
    BY Numbers DEF OnceParts, LateInv, Types, TypeOK, Offsets
  <1>4. CASE events' = events
    <2>1. StoredInv' /\ LateInv'
      BY <1>1, <1>4 DEF OnceParts, StoredInv, LateInv, LateGood, Current, Fresh, Size, log
    <2>2. NothingCurrent => NothingCurrent'
      BY <1>1, <1>4 DEF NothingCurrent, Current, Fresh, log
    <2>3. ReaderInv'
      BY <1>1, <1>2, <1>4, <2>2 DEF OnceParts, ReaderInv, Busy, Sent, Fresh, Size, log
    <2> QED BY <1>2, <1>4, <2>1, <2>3, ApartStays DEF OnceParts
  <1>5. CASE events' = Recorded(c)
    <2>1. /\ StoredInv' /\ ApartInv'
          /\ \A o \in Offsets : events[o] # {} => events'[o] = events[o]
          /\ \A o \in Offsets : \A n \in events'[o] :
               n \in events[o] \/ (Fresh(c) /\ o = c.offset /\ n <= c.last)
      BY <1>1, <1>2, <1>3, <1>5, Enters
    <2>2. \A o \in Offsets : \A n \in events'[o] : n \in Nat
      <3>1. Types'
        BY TypesStep DEF Next
      <3> QED BY <3>1, Numbers DEF Types, TypeOK
    <2>3. \A d \in late : d.offset \in Offsets /\ (Fresh(d)' => Fresh(d))
      BY <2>1, Numbers DEF Types, TypeOK, Fresh
    <2>4. LateInv'
      BY <1>1, <2>3 DEF OnceParts, LateInv, LateGood, Current, Size, log
    <2>5. NothingCurrent => NothingCurrent'
      <3>1. NothingCurrent => (Fresh(c) => c.last <= base)
        BY <1>3, Numbers DEF NothingCurrent, Current, Types
      <3> QED BY <1>1, <1>3, <2>1, <2>2, <3>1, NothingCurrentStays
    <2>6. Sent /\ reader.base = base =>
            \A o \in Offsets : \A n \in events'[o] : n <= chunk.last
      <3>1. Sent /\ reader.base = base =>
              /\ \A o \in Offsets : \A n \in events[o] : n <= chunk.last
              /\ Fresh(c) => c.last <= chunk.last
        BY DEF OnceParts, ReaderInv
      <3>2. chunk.last \in Nat
        BY Numbers DEF Types, Offsets
      <3> QED BY <1>3, <2>1, <2>2, <3>1, <3>2
    <2>7. reader.pc = "recorded" => ~Fresh(chunk)'
      BY <1>2, <2>1, Numbers DEF OnceParts, ReaderInv, Fresh, Types
    <2>8. ReaderInv'
      BY <1>1, <1>2, <2>3, <2>5, <2>6, <2>7 DEF OnceParts, ReaderInv, Busy, Sent, Size, log
    <2> QED BY <2>1, <2>4, <2>8 DEF OnceParts
  <1> QED BY <1>1, <1>4, <1>5

LEMMA OnceAnswer ==
  ASSUME Types, OnceParts, Answer
  PROVE  OnceParts'
  <1> DEFINE K == NextOffset(chunk)
  <1>1. /\ reader.pc = "recorded" /\ reader' = Idle
        /\ cursor'.inode = chunk.inode /\ cursor'.offset = K
        /\ UNCHANGED <<log, late, events>>
    BY DEF Answer, Acknowledged, chunk
  <1>2. K \in Nat /\ K # 0 /\ K > chunk.offset /\ base \in Nat /\ written \in Nat
    BY <1>1, ShapeFact, Numbers DEF NextOffset, Sent, Types, Chunks
  <1>3. Sent /\ Busy /\ ~Fresh(chunk)
    BY <1>1 DEF Sent, Busy, OnceParts, ReaderInv
  <1>4. events[0] # {}
    BY <1>3 DEF OnceParts, StoredInv, ReaderInv, Fresh
  <1>5. ASSUME NEW c \in late, Current(c), Fresh(c)
        PROVE  FALSE
    <2>1. reader.base = base
      BY <1>1, <1>5 DEF OnceParts, ReaderInv, NothingCurrent
    <2>2. chunk.offset = 0 => cursor.offset = 0
      BY <1>1, <1>5, <2>1 DEF OnceParts, ReaderInv, NothingCurrent
    <2>3. chunk.offset # 0 => chunk.offset = cursor.offset
      BY <1>1 DEF OnceParts, ReaderInv
    <2>4. c.offset = chunk.offset
      BY <1>5, <2>2, <2>3 DEF OnceParts, LateInv, LateGood
    <2> QED BY <1>3, <1>5, <2>4 DEF Fresh
  <1>6. ASSUME NEW o \in Offsets, NEW n \in events[o], n > base
        PROVE  chunk.inode = inode /\ K <= Size /\ n <= base + K
    <2>1. n \in Nat
      BY ShapeFact
    <2>2. reader.base = base
      BY <1>1, <1>2, <1>6, <2>1 DEF OnceParts, ReaderInv, NothingCurrent
    <2>3. /\ chunk.inode = inode /\ chunk.first = base + chunk.offset + 1
          /\ n <= chunk.last
      BY <1>1, <1>3, <2>2 DEF OnceParts, ReaderInv
    <2>4. chunk.last <= written /\ chunk.last \in Nat /\ chunk.offset \in Nat
      BY <1>3, ShapeFact, Numbers DEF Types, Chunks
    <2> QED BY <1>2, <2>1, <2>3, <2>4 DEF NextOffset, Size
  <1> HIDE DEF K
  <1>7. StoredInv'
    BY <1>1, <1>2, <1>4, <1>6 DEF OnceParts, StoredInv, Size, log
  <1>8. LateInv'
    BY <1>1, <1>2, <1>5 DEF OnceParts, LateInv, LateGood, Current, Fresh, Size, log
  <1>9. ApartInv'
    BY <1>1, ApartStays DEF InTransit, Idle
  <1> QED BY <1>1, <1>7, <1>8, <1>9, AtRest DEF OnceParts

LEMMA OnceGiveUp ==
  ASSUME Types, OnceParts, GiveUp
  PROVE  OnceParts'
  <1>1. /\ reader' = Idle /\ UNCHANGED <<log, cursor, events>>
        /\ late' = late \/ (reader.pc = "sent" /\ late' = late \cup {chunk})
    BY DEF GiveUp, chunk
  <1>2. InTransit' \subseteq InTransit
    BY <1>1 DEF InTransit, Idle
  <1>3. \A c \in late' : LateGood(c)
    BY <1>1, SentIsGood DEF OnceParts, LateInv, Sent
  <1>4. StoredInv' /\ LateInv'
    BY <1>1, <1>3 DEF OnceParts, StoredInv, LateInv, LateGood, Current, Fresh, Size, log
  <1> QED BY <1>1, <1>2, <1>4, AtRest, ApartStays DEF OnceParts

LEMMA OnceStep == Types /\ OnceInv /\ [Next]_vars => OnceInv'
  <1> SUFFICES ASSUME Types, OnceInv, [Next]_vars, ~crossed' PROVE OnceParts'
    BY DEF OnceInv, OnceParts
  <1>1. ~crossed
    <2>1. Read => (crossed => crossed')
      BY DEF Read
    <2>2. (Next /\ ~Read) \/ UNCHANGED vars => crossed' = crossed
      BY DEF Next, Report, Write, Rotate, Stat, StatAgain, Record, Arrive, Answer, GiveUp,
             vars, history
    <2> QED BY <2>1, <2>2
  <1>2. OnceParts
    BY <1>1 DEF OnceInv, OnceParts
  <1>3. Read => reader.base = base
    BY DEF Read
  <1>4. CASE UNCHANGED vars
    BY <1>2, <1>4 DEF vars, log, OnceParts, StoredInv, LateInv, LateGood, ReaderInv,
         ApartInv, NothingCurrent, Current, Fresh, Busy, Sent, InTransit, Size, Stored,
         Lines, chunk
  <1> QED BY <1>2, <1>3, <1>4, OnceWrite, OnceRotate, OnceLook, OnceRead, OnceRecord,
             OnceArrive, OnceAnswer, OnceGiveUp DEF Next, Report

\* No line is stored twice, however often and however late its report comes,
\* but for a rotation between stat() and open() (audit_chunk(),
\* record_batches()).
THEOREM LinesStoredOnce == Spec => []StoredOnce
  <1>1. Init => OnceInv
    <2> SUFFICES ASSUME Init PROVE OnceParts
      BY DEF OnceInv, OnceParts
    <2>1. /\ reader.pc = "idle" /\ late = {} /\ cursor.offset = 0
          /\ \A o \in Offsets : events[o] = {}
      BY DEF Init, Idle
    <2>2. Stored = {}
      BY <2>1 DEF Stored
    <2> QED BY <2>1, <2>2 DEF OnceParts, StoredInv, LateInv, ReaderInv, ApartInv, Busy, Sent,
                              InTransit
  <1>2. Types /\ OnceInv /\ [Next]_vars => Types' /\ OnceInv'
    BY TypesStep, OnceStep
  <1>3. OnceInv => StoredOnce
    BY DEF OnceInv, ApartInv, StoredOnce
  <1> QED BY <1>1, <1>2, <1>3, InitTypes, PTL DEF Spec
=============================================================================
