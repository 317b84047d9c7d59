----------------------------- MODULE LogFormat ------------------------------
(***************************************************************************)
(* LevelDB's log files, the write-ahead log and the MANIFEST               *)
(* (src/database/leveldb/db/log_writer.cc, log_reader.cc).  The writer     *)
(* cuts a record into fragments that never cross a block; the reader has   *)
(* to put them together again from a file that a crash cut off anywhere,   *)
(* that a failed append tore, or to which a later run appended.            *)
(*                                                                         *)
(* The file is a list of cells.  A header takes LogHeader cells and names  *)
(* its fragment; the checksum of a fragment is right exactly when its own  *)
(* payload follows it.                                                     *)
(***************************************************************************)
EXTENDS Integers, Sequences, SequencesExt

CONSTANTS LogBlock,     \* kBlockSize, in cells
          LogHeader,    \* kHeaderSize
          LogSizes,     \* sizes of the records
          LogRecords,   \* bound: records
          LogFaults     \* bound: crashes and failed appends

VARIABLES file,         \* the cells
          offset,       \* Writer::block_offset_
          left,         \* what AddRecord has still to emit: [rec, at, size, begin],
                        \* or Nothing
          nRec,         \* records begun
          faults,
          mode,         \* "write", "read"
          buf,          \* Reader: buffer_, as [from, to) positions of the file
          eof,          \* eof_
          inFrag,       \* in_fragmented_record
          scratch,      \* fragments of the record being put together
          out,          \* records the reader returned
          whole,        \* history: records whose last append succeeded, and its end
          clean         \* history: nothing was appended behind a torn record
logWriter == <<offset, left, nRec>>
logReader == <<buf, eof, inFrag, scratch, out>>
logVars == <<file, logWriter, faults, mode, logReader, whole, clean>>

Nothing == [rec |-> 0, at |-> 0, size |-> 0, begin |-> FALSE]

\* Cells: i-th of a header, i-th payload cell of a fragment, and filler.
Fragment(rec, at, len, type) == [rec |-> rec, at |-> at, len |-> len, type |-> type]
Header(f) == [i \in 1 .. LogHeader |-> [kind |-> "header", frag |-> f, i |-> i]]
Payload(f) == [i \in 1 .. f.len |-> [kind |-> "payload", frag |-> f, i |-> i]]
Filler(n) == [i \in 1 .. n |-> [kind |-> "zero", frag |-> Fragment(0, 0, 0, "zero"), i |-> i]]

-----------------------------------------------------------------------------
(* Writer *)

AddRecord(size) ==
    /\ mode = "write" /\ left = Nothing /\ nRec < LogRecords
    /\ nRec' = nRec + 1
    /\ left' = [rec |-> nRec + 1, at |-> 0, size |-> size, begin |-> TRUE]
    /\ UNCHANGED <<file, offset, faults, mode, logReader, whole, clean>>

\* AddRecord leaves no less than a header's room in a block.
NoTrailer == 0    \* Mutant: the rest of a block is not filled.
Trailer == LET leftover == LogBlock - offset IN IF leftover < LogHeader THEN leftover ELSE 0
Start == IF LogBlock - offset < LogHeader THEN 0 ELSE offset

\* The fragment that one turn of AddRecord's loop emits.  Where a block has room
\* for a header only, the first fragment is empty and the next one no first one.
TheFragment ==
    LET avail == LogBlock - Start - LogHeader
        rest == left.size - left.at
        len == IF rest < avail THEN rest ELSE avail
        end == len = rest
    IN  Fragment(left.rec, left.at, len,
                 IF left.begin /\ end THEN "full" ELSE IF left.begin THEN "first"
                 ELSE IF end THEN "last" ELSE "middle")
Emitted(f) == Filler(Trailer) \o Header(f) \o Payload(f)

\* EmitPhysicalRecord
EmitPhysicalRecord ==
    /\ mode = "write" /\ left # Nothing
    /\ LET f == TheFragment IN
        /\ file' = file \o Emitted(f)
        /\ offset' = Start + LogHeader + f.len
        /\ left' = IF f.type \in {"full", "last"} THEN Nothing
                   ELSE [left EXCEPT !.at = @ + f.len, !.begin = FALSE]
        /\ whole' = IF f.type \in {"full", "last"}
                    THEN Append(whole, [rec |-> left.rec, end |-> Len(file')]) ELSE whole
    /\ UNCHANGED <<nRec, faults, mode, logReader, clean>>

\* An append fails part of the way: AddRecord returns the error, and the
\* writer's offset counts the whole fragment.
EmitFails ==
    /\ mode = "write" /\ left # Nothing /\ faults < LogFaults
    /\ LET f == TheFragment IN
        /\ \E n \in 0 .. Len(Emitted(f)) - 1 : file' = file \o SubSeq(Emitted(f), 1, n)
        /\ offset' = Start + LogHeader + f.len
    /\ left' = Nothing
    /\ clean' = FALSE
    /\ faults' = faults + 1
    /\ UNCHANGED <<nRec, mode, logReader, whole>>

\* A crash keeps some prefix of the file; the next run reads it.
Crash ==
    /\ mode = "write" /\ faults < LogFaults
    /\ \E n \in 0 .. Len(file) :
        /\ file' = SubSeq(file, 1, n)
        /\ whole' = SelectSeq(whole, LAMBDA w : w.end <= n)
    /\ mode' = "read" /\ faults' = faults + 1
    /\ offset' = 0 /\ left' = Nothing
    /\ buf' = [from |-> 0, to |-> 0] /\ eof' = FALSE
    /\ inFrag' = FALSE /\ scratch' = <<>> /\ out' = <<>>
    /\ UNCHANGED <<nRec, clean>>

-----------------------------------------------------------------------------
(* Reader *)

Buffered == buf.to - buf.from
Drop == buf' = [buf EXCEPT !.from = buf.to]

\* ReadPhysicalRecord needs a header's worth of cells: it reads the next
\* block; less than a block means the end of the file.
ReadBlock ==
    /\ mode = "read" /\ Buffered < LogHeader /\ ~eof
    /\ LET to == IF Len(file) < buf.to + LogBlock THEN Len(file) ELSE buf.to + LogBlock IN
        /\ buf' = [from |-> buf.to, to |-> to]
        /\ eof' = (to - buf.to < LogBlock)
    /\ UNCHANGED <<file, logWriter, faults, mode, inFrag, scratch, out, whole, clean>>

\* What the cells at buf.from say when they are taken for a header: the
\* length field and whether the checksum agrees.
HeaderAt == SubSeq(file, buf.from + 1, buf.from + LogHeader)
IntactHeader == HeaderAt = Header(HeaderAt[1].frag)
Intact ==
    IF ~IntactHeader THEN FALSE
    ELSE LET f == HeaderAt[1].frag
             at == buf.from + LogHeader
         IN  at + f.len <= buf.to /\ SubSeq(file, at + 1, at + f.len) = Payload(f)

\* kEof: a truncated header, or a record longer than what is left of the
\* file.  Cells that are no header may claim any length.
Claimed == IF IntactHeader THEN {HeaderAt[1].frag.len} ELSE 0 .. LogBlock
ReadEof ==
    /\ mode = "read" /\ eof
    /\ \/ Buffered < LogHeader
       \/ Buffered >= LogHeader /\ \E len \in Claimed : LogHeader + len > Buffered
    /\ mode' = "done"
    /\ inFrag' = FALSE /\ scratch' = <<>>
    /\ Drop
    /\ UNCHANGED <<file, logWriter, faults, eof, out, whole, clean>>

\* kBadRecord: a length past the block, filler, or a wrong checksum drops the
\* rest of the block and the record being put together.
ReadBad ==
    /\ mode = "read" /\ Buffered >= LogHeader
    /\ \E len \in Claimed :
        \/ LogHeader + len > Buffered /\ ~eof
        \/ LogHeader + len <= Buffered /\ ~Intact
    /\ Drop
    /\ inFrag' = FALSE /\ scratch' = <<>>
    /\ UNCHANGED <<file, logWriter, faults, mode, eof, out, whole, clean>>

\* A good fragment, and what ReadRecord does with it.
ReadFragment ==
    /\ mode = "read" /\ Buffered >= LogHeader /\ Intact
    /\ LET f == HeaderAt[1].frag IN
        /\ buf' = [buf EXCEPT !.from = @ + LogHeader + f.len]
        /\ CASE f.type = "full" -> /\ out' = Append(out, <<f>>)
                                   /\ inFrag' = FALSE /\ scratch' = <<>>
             [] f.type = "first" -> scratch' = <<f>> /\ inFrag' = TRUE /\ out' = out
             [] f.type = "middle" -> /\ scratch' = IF inFrag THEN Append(scratch, f) ELSE scratch
                                     /\ UNCHANGED <<inFrag, out>>
             [] f.type = "last" -> /\ out' = IF inFrag THEN Append(out, Append(scratch, f)) ELSE out
                                   /\ inFrag' = FALSE /\ scratch' = <<>>
    /\ UNCHANGED <<file, logWriter, faults, mode, eof, whole, clean>>

\* The file is opened again for appending (reuse_logs, ReuseManifest): the
\* writer starts at the length of the file.
Reopen ==
    /\ mode = "done"
    /\ mode' = "write"
    /\ offset' = Len(file) % LogBlock
    /\ clean' = (clean /\ (whole = <<>> => file = <<>>)
                       /\ (whole # <<>> => Len(file) = Last(whole).end))
    /\ UNCHANGED <<file, left, nRec, faults, logReader, whole>>

-----------------------------------------------------------------------------
LogInit ==
    /\ file = <<>> /\ offset = 0 /\ left = Nothing /\ nRec = 0 /\ faults = 0
    /\ mode = "write"
    /\ buf = [from |-> 0, to |-> 0] /\ eof = FALSE
    /\ inFrag = FALSE /\ scratch = <<>> /\ out = <<>>
    /\ whole = <<>> /\ clean = TRUE

LogNext ==
    \/ \E s \in LogSizes : AddRecord(s)
    \/ EmitPhysicalRecord \/ EmitFails \/ Crash
    \/ ReadBlock \/ ReadEof \/ ReadBad \/ ReadFragment
    \/ Reopen
LogSpec == LogInit /\ [][LogNext]_logVars

-----------------------------------------------------------------------------
(* Properties *)

\* The fragments are those of one record, all of it, in order.
IsWhole(fs) ==
    /\ fs[1].at = 0 /\ fs[Len(fs)].type \in {"full", "last"}
    /\ \A i \in 2 .. Len(fs) : fs[i].rec = fs[1].rec /\ fs[i].at = fs[i - 1].at + fs[i - 1].len

\* The reader makes nothing up: whatever was torn, cut off or appended
\* behind a torn record, what it returns are whole records, each once, in
\* the order in which they were written.
NothingInvented ==
    /\ \A i \in DOMAIN out : IsWhole(out[i])
    /\ \A i, j \in DOMAIN out : i < j => out[i][1].rec < out[j][1].rec

\* In a file with nothing behind a torn record the reader finds every record
\* that is still there to the end: a cut-off tail costs only itself.
WholeRead ==
    mode = "done" /\ clean =>
        [i \in DOMAIN out |-> out[i][1].rec] = [i \in DOMAIN whole |-> whole[i].rec]

\* A log read back has nothing that was not written and all that has to be there.
LogReadsBack == NothingInvented /\ WholeRead
=============================================================================
