---------------------------- MODULE DBImplProofs ----------------------------
(***************************************************************************)
(* Proofs about DBImpl, for any number of clients, readers, keys, batches, *)
(* crashes and failing file operations: a restart finds its files and      *)
(* every write that was answered, shows what was shown before it, and      *)
(* readers and snapshots see one state.                                    *)
(*                                                                         *)
(* The invariant has two halves.  What is on disk is described by Disk, in *)
(* terms of the tables' entries and the logs only, so that it can be said  *)
(* of a MANIFEST that CURRENT does not name yet.  What is in memory is     *)
(* described phase by phase.                                               *)
(***************************************************************************)
EXTENDS DBImpl, NatLemmas, FiniteSetTheorems, SequenceTheorems, TLAPS

Entry == [key : Keys, seq : Nat \ {0}, del : BOOLEAN]
Record == (SUBSET Entry) \cup {Torn}
Group == [entries : SUBSET Entry, sync : BOOLEAN, acked : BOOLEAN, whole : BOOLEAN]
Levels == UNION {[S -> {0, 1}] : S \in SUBSET Nat}
Edits == [add : Levels, del : SUBSET Nat, log : Nat, next : Nat, seq : Nat]

-----------------------------------------------------------------------------
(* The disk *)

\* The tables of the version that a MANIFEST describes, and the logs that a
\* restart with it reads.
Ver(m) == DOMAIN ManifestFiles(m)
KeptLogs(m, lg) == {n \in DOMAIN lg : n >= Last(m).log}

\* The entries of some tables.
Ents(tb, fs) == UNION {tb[f] : f \in fs \cap DOMAIN tb}

\* A sequence number belongs to one entry.
Unique(S) == \A e, f \in S : e.seq = f.seq => e = f

\* Everything in A is older than everything in B.
Below(A, B) == \A e \in A : \A f \in B : e.seq < f.seq

\* An entry outlived by the tables T: there is one of its key that is not
\* older, or none at all since a deletion took them.  In the second case
\* nothing older than the deletion is among the entries L that are not in
\* tables yet, so that nothing comes back.
Old(T, L, seq, gr, e) ==
    \/ \E f \in T : f.key = e.key /\ f.seq >= e.seq
    \/ /\ \A f \in T : f.key # e.key
       /\ \E g \in gr : \E d \in g.entries :
            /\ d.del /\ d.key = e.key /\ d.seq >= e.seq /\ d.seq <= seq
            /\ \A f \in L : f \in T \/ f.seq > d.seq

\* The tables' entries T are covered by the sequence number of the MANIFEST.
TablesNumbered(T, seq) == \A e \in T : e.seq <= seq

\* A kept log is newer than the tables, or all of it is in them: the edit of a
\* flush reached the MANIFEST although it was reported to have failed.
LogsNewer(T, K, lg) ==
    \A n \in K : \/ Below(T, ReadLog(lg[n]))
                 \/ ReadLog(lg[n]) \subseteq T /\ \E k \in K : n < k
LogsOrdered(K, lg) ==
    \A n, k \in K : n < k => Below(ReadLog(lg[n]), ReadLog(lg[k]))
LogEnts(K, lg) == UNION {ReadLog(lg[n]) : n \in K}

\* Deletions in tables are of groups that are known, and so are the records in
\* logs that the tables do not have.
DeletionsKnown(T, gr) == \A e \in T : e.del => \E g \in gr : e \in g.entries
RecordsKnown(T, K, lg, gr) ==
    \A n \in K : \A i \in DOMAIN lg[n] :
        lg[n][i] # Torn => lg[n][i] \subseteq T \/ \E g \in gr : g.entries = lg[n][i]

\* A group is in a kept log, or its entries are outlived by the tables; one
\* that was synced and acknowledged is in the part of the log that is synced.
GroupsSafe(T, K, lg, L, seq, gr) ==
    \A g \in gr : g.whole =>
        \/ \E n \in K : \E i \in DOMAIN lg[n] : lg[n][i] = g.entries
        \/ \A e \in g.entries : Old(T, L, seq, gr, e)
SyncedSafe(T, K, lg, sy, L, seq, gr) ==
    \A g \in gr : g.whole /\ g.acked /\ g.sync =>
        \/ \E n \in K : \E i \in 1 .. sy[n] : lg[n][i] = g.entries
        \/ \A e \in g.entries : Old(T, L, seq, gr, e)

Disk(T, K, lg, sy, L, seq, gr) ==
    /\ TablesNumbered(T, seq)
    /\ LogsNewer(T, K, lg)
    /\ LogsOrdered(K, lg)
    /\ Unique(T \cup LogEnts(K, lg))
    /\ DeletionsKnown(T, gr)
    /\ RecordsKnown(T, K, lg, gr)
    /\ GroupsSafe(T, K, lg, L, seq, gr)
    /\ SyncedSafe(T, K, lg, sy, L, seq, gr)

\* A MANIFEST that a restart can use: its number is n.
Usable(m, n, tb) ==
    /\ m \in Seq(Edits) /\ m # <<>>
    /\ Ver(m) \subseteq DOMAIN tb /\ \A f \in Ver(m) : f < Last(m).next
    /\ n < Last(m).next /\ Last(m).log < Last(m).next

\* The entries of the memtables that writers use and that is being flushed.
MemEnts == UNION {mems[n] : n \in {logNo, immNo} \cap DOMAIN mems}

DiskOf(m) == Disk(Ents(tables, Ver(m)), KeptLogs(m, logs), logs, synced,
                  LogEnts(KeptLogs(m, logs), logs) \cup MemEnts, Last(m).seq, groups)

DiskInv ==
    IF CURRENT = 0 THEN phase = "down" /\ DOMAIN logs = {} /\ groups = {}
    ELSE /\ CURRENT \in DOMAIN manifests
         /\ Usable(manifests[CURRENT], CURRENT, tables)
         /\ DiskOf(manifests[CURRENT])

-----------------------------------------------------------------------------
(* Memory before the database is open *)

NoMaps == [n \in {} |-> 0]

Quiet ==
    phase # "open" =>
        /\ writers = <<>> /\ (\A c \in Clients : call[c] = Idle)
        /\ immNo = 0 /\ bg = "none" /\ comp = {} /\ pending = {} /\ ~bgError
        /\ (\A r \in Readers : reader[r] = NoRead /\ snapshot[r] = NoSnapshot)
        /\ (phase = "down" => DOMAIN mems = {} /\ logNo = 0 /\ todo = {})

TM(m) == Ents(tables, Ver(m))

\* The logs that were replayed are in the tables that job collects, but the
\* last one if it is written on.
Replayed(m) ==
    /\ DOMAIN files = Ver(m) /\ logNumber = Last(m).log /\ files \in Levels
    /\ Last(m).next < nextFile /\ Last(m).seq <= lastSeq
    /\ IF descriptorOpen THEN manifestNo = CURRENT ELSE manifestNo = Last(m).next
    /\ todo \subseteq KeptLogs(m, logs)
    /\ job.table = 0 /\ job.edit \in Levels
    /\ DOMAIN job.edit \subseteq DOMAIN tables
    /\ \A f \in DOMAIN job.edit : Last(m).next <= f /\ f < nextFile
    /\ \A n \in KeptLogs(m, logs) \ todo :
         /\ n < nextFile /\ \A k \in todo : n < k
         /\ \A e \in ReadLog(logs[n]) : e.seq <= lastSeq
         /\ n = logNo \/ ReadLog(logs[n]) \subseteq Ents(tables, DOMAIN job.edit)
    /\ Ents(tables, DOMAIN job.edit) \subseteq
         LogEnts({n \in KeptLogs(m, logs) \ todo : n # logNo}, logs)
    /\ IF logNo = 0 THEN DOMAIN mems = {} /\ phase = "replay"
       ELSE /\ todo = {} /\ logNo \in KeptLogs(m, logs)
            /\ DOMAIN mems = {logNo} /\ mems[logNo] = ReadLog(logs[logNo])
            /\ \A n \in DOMAIN logs : n <= logNo

ReplayInv ==
    phase \in {"replay", "newlog"} => CURRENT # 0 /\ Replayed(manifests[CURRENT])

-----------------------------------------------------------------------------
(* Memory when it is open, or about to be *)

Imm == IF immNo = 0 THEN {} ELSE mems[immNo]
Tab == Ents(tables, DOMAIN files)
Log == ReadLog(logs[logNo])

\* The group that is in the log and not published yet, and whether it is
\* still to be inserted.
InFlight(pcs) == UNION {call[c].group : c \in {d \in Clients : call[d].pc \in pcs}}
Leading == {"log", "insert", "publish", "syncError"}
Pending == InFlight({"insert", "publish", "syncError"})

Ready == phase \in {"opening", "open"}

Numbers ==
    Ready =>
        /\ logNo \in DOMAIN logs /\ logNo \in DOMAIN mems /\ logNo # 0
        /\ logNumber <= logNo /\ logNo < nextFile
        /\ immNo # 0 => /\ immNo \in DOMAIN logs /\ immNo \in DOMAIN mems
                        /\ logNumber <= immNo /\ immNo < logNo
        /\ \A n \in DOMAIN logs : n <= logNo
        /\ \A n \in DOMAIN mems : n < nextFile
        /\ DOMAIN files \subseteq DOMAIN tables /\ \A f \in DOMAIN files : f < nextFile
        /\ manifestNo < nextFile

\* Kept logs belong to a memtable or have nothing in them.
OtherLogs ==
    Ready => \A n \in DOMAIN logs :
        n >= logNumber => n = logNo \/ n = immNo \/ ReadLog(logs[n]) = {}

\* The memtable is newer than the immutable one, which is newer than the
\* tables; what is not published is newer than all.
Layered ==
    Ready =>
        /\ Below(Tab, Imm) /\ Below(Tab, mems[logNo]) /\ Below(Imm, mems[logNo])
        /\ \A e \in Tab \cup Imm : e.seq <= lastSeq
        /\ \A e \in mems[logNo] \cup Log : e.seq <= lastSeq \/ e \in Pending
        /\ Unique(Tab \cup Imm \cup mems[logNo] \cup Log)
        /\ Below(Tab \cup Imm, Log)
        /\ \A e \in Tab \cup Imm \cup mems[logNo] : e.del => \E g \in groups : e \in g.entries

\* A memtable holds what its log holds, and no more if the log is whole.
LogsMatch ==
    Ready =>
        /\ bgError \/ Log \subseteq mems[logNo] \cup InFlight({"insert", "syncError"})
        /\ Torn \in Range(logs[logNo]) \/ mems[logNo] \subseteq Log
        /\ immNo # 0 => /\ ReadLog(logs[immNo]) \subseteq Imm
                        /\ Torn \in Range(logs[immNo]) \/ Imm \subseteq ReadLog(logs[immNo])

Leaders ==
    \A c \in Clients : call[c].pc \in Leading =>
        LET group == call[c].group IN
        /\ phase = "open" /\ writers # <<>> /\ Head(writers) = c
        /\ IsFiniteSet(group) /\ Unique(group)
        /\ \A e \in group : lastSeq < e.seq /\ e.seq <= lastSeq + Cardinality(group)
        /\ call[c].pc # "log" /\ call[c].ok => \E g \in groups : g.entries = group
        /\ call[c].pc = "insert" =>
             call[c].ok /\ (Torn \in Range(logs[logNo]) \/ group \in Range(logs[logNo]))
        /\ call[c].pc # "log" /\ call[c].ok /\ group # {} =>
             \A g \in groups : g.whole /\ g.sync /\ g.entries = group =>
                \E i \in 1 .. synced[logNo] : logs[logNo][i] = group

\* CURRENT's MANIFEST and the version in memory.
NewVersion ==
    phase = "opening" =>
        /\ manifestNo \in DOMAIN manifests /\ manifestNo # 0
        /\ Usable(manifests[manifestNo], manifestNo, tables)
        /\ DiskOf(manifests[manifestNo])
        /\ Ver(manifests[manifestNo]) = DOMAIN files
        /\ Last(manifests[manifestNo]).log = logNumber
        /\ Last(manifests[manifestNo]).next <= nextFile /\ Last(manifests[manifestNo]).seq <= lastSeq

OpenVersion ==
    phase = "open" =>
        LET m == manifests[CURRENT] IN
        /\ CURRENT = manifestNo /\ CURRENT # 0
        /\ Last(m).next <= nextFile /\ Last(m).seq <= lastSeq
        /\ ~bgError => Ver(m) = DOMAIN files /\ Last(m).log = logNumber
        /\ bg # "none" => DOMAIN files \subseteq Ver(m)
        /\ TM(m) \subseteq Tab \cup Imm
        /\ \/ Last(m).log = logNumber
           \/ Last(m).log = logNo /\ immNo # 0 /\ Imm \subseteq TM(m)

\* A number that nothing refers to yet.
Unused(n) ==
    /\ n # 0 /\ n < nextFile /\ n \notin DOMAIN files /\ n \notin Ver(manifests[CURRENT])
    /\ \A r \in Readers : n \notin reader[r].files

Compacting ==
    /\ bg = "merge" => comp # {}
    /\ comp # {} => bg \in {"merge", "build", "manifest", "clean"} /\ phase = "open"
    /\ \A c, d \in comp : c = d
    /\ \A c \in comp :
        /\ c.inputs \subseteq DOMAIN files /\ c.smallest <= lastSeq
        /\ \A r \in Readers : snapshot[r].seq # 0 => c.smallest <= snapshot[r].seq
        /\ Below(Ents(tables, c.inputs),
                 Ents(tables, (Ver(manifests[CURRENT]) \cup DOMAIN files) \ c.inputs))
        /\ c.out # 0 => Unused(c.out) /\ c.out \in pending /\ c.out \in DOMAIN tables

\* The edit to be applied next.
EditFor(edit, out) ==
    /\ edit \in Edits /\ DOMAIN edit.add = {out}
    /\ edit.next <= nextFile /\ out < edit.next /\ manifestNo < edit.next
    /\ Last(manifests[CURRENT]).next <= edit.next /\ edit.log < edit.next
    /\ edit.seq <= lastSeq /\ Last(manifests[CURRENT]).seq <= edit.seq

Jobs ==
    /\ bg \in {"none", "scheduled", "build", "manifest", "merge", "clean"}
    /\ bg = "build" => Unused(job.table) /\ immNo # 0 /\ \A c \in comp : job.table # c.out
    /\ bg = "manifest" /\ Flushing =>
        /\ immNo # 0 /\ Unused(job.table) /\ job.table \in DOMAIN tables
        /\ \A c \in comp : job.table # c.out
        /\ tables[job.table] = mems[immNo]
        /\ EditFor(job.edit, job.table) /\ job.edit.del = {} /\ job.edit.log = logNo
        /\ \A e \in Imm : e.seq <= job.edit.seq
    /\ bg = "manifest" /\ ~Flushing =>
        /\ comp # {}
        /\ \A c \in comp :
            /\ c.out # 0 /\ tables[c.out] = Kept(Ents(tables, c.inputs), c.smallest)
            /\ EditFor(job.edit, c.out)
            /\ job.edit.del = c.inputs /\ job.edit.log = logNumber
    /\ bg # "none" => phase = "open"

Garbage ==
    bg = "clean" =>
        /\ garbage.tables \cap (Ver(manifests[CURRENT]) \cup DOMAIN files) = {}
        /\ \A r \in Readers : garbage.tables \cap reader[r].files = {}
        /\ \A c \in comp : c.out # 0 => c.out \notin garbage.tables
        /\ \A n \in garbage.logs : n < logNumber /\ n < Last(manifests[CURRENT]).log
        /\ \A n \in garbage.manifests : n < manifestNo

Reading ==
    \A r \in Readers :
        /\ snapshot[r].seq <= lastSeq
        /\ \A f \in reader[r].files : f < nextFile
        /\ reader[r].on =>
            /\ reader[r].at <= lastSeq /\ reader[r].files \subseteq DOMAIN tables
            /\ reader[r].mem \in DOMAIN mems
            /\ reader[r].imm # 0 => reader[r].imm \in DOMAIN mems /\ reader[r].imm # logNo

Semantic == /\ DiskInv /\ Quiet /\ ReplayInv /\ Numbers /\ OtherLogs /\ Layered /\ LogsMatch
            /\ Leaders /\ NewVersion /\ OpenVersion /\ Compacting /\ Jobs /\ Garbage /\ Reading

-----------------------------------------------------------------------------
(* Types *)

Op == [key : Keys, del : BOOLEAN]
Writer == [pc : {"idle", "queued", "grouped"} \cup Leading, batch : Seq(Op), sync : BOOLEAN,
           group : SUBSET Entry, ok : BOOLEAN]

LogTypes ==
    /\ DOMAIN logs \subseteq Nat \ {0} /\ \A n \in DOMAIN logs : logs[n] \in Seq(Record)
    /\ DOMAIN synced = DOMAIN logs /\ \A n \in DOMAIN logs : synced[n] \in 0 .. Len(logs[n])
    /\ \E b \in Nat : \A n \in DOMAIN logs : \A e \in ReadLog(logs[n]) : e.seq <= b
    /\ groups \subseteq Group
TableTypes == DOMAIN tables \subseteq Nat /\ \A f \in DOMAIN tables : tables[f] \subseteq Entry
MemTypes == DOMAIN mems \subseteq Nat \ {0} /\ \A n \in DOMAIN mems : mems[n] \subseteq Entry
NumberTypes ==
    /\ phase \in {"down", "replay", "newlog", "opening", "open"}
    /\ CURRENT \in Nat /\ logNo \in Nat /\ immNo \in Nat /\ logNumber \in Nat
    /\ nextFile \in Nat \ {0} /\ lastSeq \in Nat /\ manifestNo \in Nat
    /\ descriptorOpen \in BOOLEAN /\ bgError \in BOOLEAN
    /\ files \in Levels /\ job.table \in Nat
    /\ \A c \in comp : c.inputs \subseteq Nat /\ c.smallest \in Nat /\ c.out \in Nat
CallTypes == writers \in Seq(Clients) /\ call \in [Clients -> Writer]
ReaderTypes ==
    /\ \A r \in Readers : /\ snapshot[r].seq \in Nat /\ reader[r].at \in Nat
                          /\ reader[r].mem \in Nat /\ reader[r].imm \in Nat
                          /\ reader[r].files \subseteq Nat
                          /\ reader[r].on \in BOOLEAN
    /\ DOMAIN reader = Readers /\ DOMAIN snapshot = Readers

Types == LogTypes /\ TableTypes /\ MemTypes /\ NumberTypes /\ CallTypes /\ ReaderTypes

-----------------------------------------------------------------------------
(* Entries, records and logs *)

LEMMA NoEntryIsNone == NoEntry \notin Entry /\ Torn \notin SUBSET Entry
  BY DEF NoEntry, Entry, Torn

LEMMA EntryFields ==
  ASSUME NEW e \in Entry
  PROVE  e.key \in Keys /\ e.seq \in Nat /\ e.seq > 0 /\ e.del \in BOOLEAN
  BY DEF Entry

LEMMA ReadLogMember ==
  ASSUME NEW lg, NEW e
  PROVE  e \in ReadLog(lg) <=> \E i \in DOMAIN lg : lg[i] # Torn /\ e \in lg[i]
  BY DEF ReadLog, Range

LEMMA ReadLogType ==
  ASSUME NEW lg \in Seq(Record)
  PROVE  ReadLog(lg) \subseteq Entry
<1> SUFFICES ASSUME NEW e \in ReadLog(lg) PROVE e \in Entry
  OBVIOUS
<1>1. PICK i \in DOMAIN lg : lg[i] # Torn /\ e \in lg[i]
  BY ReadLogMember
<1>2. DOMAIN lg = 1 .. Len(lg) /\ Len(lg) \in Nat
  OBVIOUS
<1>3. lg[i] \in Record
  BY <1>1, <1>2
<1> QED BY <1>1, <1>3 DEF Record

LEMMA ReadLogEmpty == ReadLog(<< >>) = {}
  BY ReadLogMember

LEMMA ReadLogAppend ==
  ASSUME NEW lg \in Seq(Record), NEW r
  PROVE  /\ DOMAIN Append(lg, r) = 1 .. Len(lg) + 1 /\ DOMAIN lg = 1 .. Len(lg)
         /\ \A i \in DOMAIN lg : Append(lg, r)[i] = lg[i]
         /\ Append(lg, r)[Len(lg) + 1] = r
         /\ ReadLog(Append(lg, r)) = ReadLog(lg) \cup (IF r = Torn THEN {} ELSE r)
<1>1. /\ DOMAIN Append(lg, r) = 1 .. Len(lg) + 1 /\ DOMAIN lg = 1 .. Len(lg)
      /\ \A i \in DOMAIN lg : Append(lg, r)[i] = lg[i]
      /\ Append(lg, r)[Len(lg) + 1] = r /\ Len(lg) \in Nat
  OBVIOUS
<1>2. ASSUME NEW e
      PROVE  e \in ReadLog(Append(lg, r)) <=> e \in ReadLog(lg) \/ (r # Torn /\ e \in r)
  <2>1. e \in ReadLog(Append(lg, r)) <=>
          \E i \in DOMAIN Append(lg, r) : Append(lg, r)[i] # Torn /\ e \in Append(lg, r)[i]
    BY ReadLogMember
  <2>2. e \in ReadLog(lg) <=> \E i \in DOMAIN lg : lg[i] # Torn /\ e \in lg[i]
    BY ReadLogMember
  <2>3. \A i : i \in 1 .. Len(lg) + 1 <=> (i \in 1 .. Len(lg) \/ i = Len(lg) + 1)
    BY <1>1
  <2> QED BY <2>1, <2>2, <2>3, <1>1
<1> QED BY <1>1, <1>2

LEMMA EntsMember ==
  ASSUME NEW tb, NEW fs, NEW e
  PROVE  e \in Ents(tb, fs) <=> \E f \in fs : f \in DOMAIN tb /\ e \in tb[f]
  BY DEF Ents

LEMMA LogEntsMember ==
  ASSUME NEW K, NEW lg, NEW e
  PROVE  e \in LogEnts(K, lg) <=> \E n \in K : e \in ReadLog(lg[n])
  BY DEF LogEnts

-----------------------------------------------------------------------------
(* The MANIFEST *)

LEMMA VerMember ==
  ASSUME NEW m, NEW f
  PROVE  f \in Ver(m) <=> \E i \in DOMAIN m : /\ f \in DOMAIN m[i].add
                                             /\ \A j \in i + 1 .. Len(m) : f \notin m[j].del
  BY DEF Ver, ManifestFiles

\* An edit deletes tables, then adds some.
LEMMA VerAppend ==
  ASSUME NEW m \in Seq(Edits), NEW edit \in Edits
  PROVE  /\ Append(m, edit) \in Seq(Edits) /\ Append(m, edit) # << >>
         /\ Last(Append(m, edit)) = edit
         /\ Ver(Append(m, edit)) = (Ver(m) \ edit.del) \cup DOMAIN edit.add
<1> DEFINE w == Append(m, edit)
<1>1. /\ Len(m) \in Nat /\ Len(w) = Len(m) + 1 /\ DOMAIN w = 1 .. Len(m) + 1
      /\ DOMAIN m = 1 .. Len(m) /\ w[Len(m) + 1] = edit /\ \A i \in 1 .. Len(m) : w[i] = m[i]
  OBVIOUS
<1>2. w \in Seq(Edits) /\ w # << >> /\ Last(w) = edit
  BY <1>1 DEF Last
<1> HIDE DEF w
<1>3. ASSUME NEW f PROVE f \in Ver(w) <=> (f \in Ver(m) /\ f \notin edit.del) \/ f \in DOMAIN edit.add
  <2>1. f \in Ver(w) <=> \E i \in 1 .. Len(m) + 1 :
           f \in DOMAIN w[i].add /\ \A j \in i + 1 .. Len(m) + 1 : f \notin w[j].del
    BY VerMember, <1>1
  <2>2. f \in Ver(m) <=> \E i \in 1 .. Len(m) :
           f \in DOMAIN m[i].add /\ \A j \in i + 1 .. Len(m) : f \notin m[j].del
    BY VerMember, <1>1
  <2>3. ASSUME f \in Ver(w), f \notin DOMAIN edit.add PROVE f \in Ver(m) /\ f \notin edit.del
    <3>1. PICK i \in 1 .. Len(m) + 1 :
             f \in DOMAIN w[i].add /\ \A j \in i + 1 .. Len(m) + 1 : f \notin w[j].del
      BY <2>1, <2>3
    <3>2. i # Len(m) + 1
      BY <3>1, <2>3, <1>1
    <3>3. i \in 1 .. Len(m) /\ Len(m) + 1 \in i + 1 .. Len(m) + 1
      BY <3>2, <1>1
    <3>4. f \notin edit.del
      BY <3>1, <3>3, <1>1
    <3>5. f \in DOMAIN m[i].add
      BY <3>1, <3>3, <1>1
    <3>6. \A j \in i + 1 .. Len(m) : f \notin m[j].del
      <4> TAKE j \in i + 1 .. Len(m)
      <4>1. j \in i + 1 .. Len(m) + 1 /\ j \in 1 .. Len(m)
        BY <1>1
      <4> QED BY <4>1, <3>1, <1>1
    <3> QED BY <3>3, <3>4, <3>5, <3>6, <2>2
  <2>4. ASSUME f \in DOMAIN edit.add PROVE f \in Ver(w)
    <3>1. Len(m) + 1 \in 1 .. Len(m) + 1 /\ Len(m) + 1 + 1 .. Len(m) + 1 = {}
      BY <1>1
    <3> QED BY <3>1, <2>1, <2>4, <1>1
  <2>5. ASSUME f \in Ver(m), f \notin edit.del PROVE f \in Ver(w)
    <3>1. PICK i \in 1 .. Len(m) :
             f \in DOMAIN m[i].add /\ \A j \in i + 1 .. Len(m) : f \notin m[j].del
      BY <2>2, <2>5
    <3>2. f \in DOMAIN w[i].add /\ i \in 1 .. Len(m) + 1
      BY <3>1, <1>1
    <3>3. \A j \in i + 1 .. Len(m) + 1 : f \notin w[j].del
      <4> TAKE j \in i + 1 .. Len(m) + 1
      <4>1. j = Len(m) + 1 \/ (j \in i + 1 .. Len(m) /\ j \in 1 .. Len(m))
        BY <1>1
      <4> QED BY <4>1, <3>1, <2>5, <1>1
    <3> QED BY <3>2, <3>3, <2>1
  <2> QED BY <2>3, <2>4, <2>5
<1>4. Ver(w) = (Ver(m) \ edit.del) \cup DOMAIN edit.add
  BY <1>3
<1> QED BY <1>2, <1>4 DEF w

LEMMA VerFirst ==
  ASSUME NEW edit \in Edits
  PROVE  << edit >> \in Seq(Edits) /\ << edit >> # << >> /\ Last(<< edit >>) = edit
         /\ Ver(<< edit >>) = DOMAIN edit.add
<1>1. << edit >> \in Seq(Edits) /\ << edit >> # << >> /\ Last(<< edit >>) = edit
  BY DEF Last
<1>2. ASSUME NEW f PROVE f \in Ver(<< edit >>) <=> f \in DOMAIN edit.add
  BY VerMember
<1> QED BY <1>1, <1>2

-----------------------------------------------------------------------------
(* What a reader sees *)

Seen(S, key, snap) == {e \in S : e.key = key /\ e.seq <= snap}
Top(seen) == IF seen = {} THEN NoEntry ELSE CHOOSE e \in seen : \A f \in seen : f.seq <= e.seq

\* A set of entries has a newest one among those a reader sees.
LEMMA NewestSeen ==
  ASSUME NEW S \in SUBSET Entry, NEW key, NEW snap \in Nat
  PROVE  /\ Seen(S, key, snap) = {} => Newest(S, key, snap) = NoEntry
         /\ Seen(S, key, snap) # {} =>
              /\ Newest(S, key, snap) \in Seen(S, key, snap) /\ Newest(S, key, snap) # NoEntry
              /\ \A f \in Seen(S, key, snap) : f.seq <= Newest(S, key, snap).seq
<1> DEFINE seen == Seen(S, key, snap)
<1>1. Newest(S, key, snap) =
        IF seen = {} THEN NoEntry ELSE CHOOSE e \in seen : \A f \in seen : f.seq <= e.seq
  BY DEF Newest, Seen
<1>2. seen \in SUBSET Entry /\ \A e \in seen : e.seq <= snap /\ e.seq \in Nat
  BY DEF Seen, Entry
<1> HIDE DEF seen
<1>3. ASSUME seen # {} PROVE \E e \in seen : \A f \in seen : f.seq <= e.seq
  <2> DEFINE T == {e.seq : e \in seen}
  <2>1. T \in SUBSET Nat /\ T # {} /\ \A x \in T : x <= snap
    BY <1>2, <1>3
  <2>2. PICK x \in T : \A y \in T : y <= x
    BY <2>1, GreatestElement
  <2> QED BY <2>2
<1>4. ASSUME seen # {}
      PROVE  /\ Newest(S, key, snap) \in seen
             /\ \A f \in seen : f.seq <= Newest(S, key, snap).seq
  <2> DEFINE x == CHOOSE e \in seen : \A f \in seen : f.seq <= e.seq
  <2>1. x \in seen /\ \A f \in seen : f.seq <= x.seq
    BY <1>3, <1>4
  <2> HIDE DEF x
  <2>2. Newest(S, key, snap) = x
    BY <1>1, <1>4 DEF x
  <2> QED BY <2>1, <2>2
<1>5. seen # {} => Newest(S, key, snap) # NoEntry
  BY <1>4, <1>2, NoEntryIsNone
<1> QED BY <1>1, <1>4, <1>5 DEF seen

\* What is seen of a set is all that counts.
LEMMA NewestSame ==
  ASSUME NEW S, NEW R, NEW key, NEW snap, Seen(S, key, snap) = Seen(R, key, snap)
  PROVE  Newest(S, key, snap) = Newest(R, key, snap)
<1>1. \A Q : Newest(Q, key, snap) = Top(Seen(Q, key, snap))
  BY DEF Newest, Seen, Top
<1> QED BY <1>1

\* The entries that are shown.
Vis(S, snap) == {e \in {Newest(S, k, snap) : k \in Keys} : ~e.del}

\* With one entry per sequence number they are the newest of their keys.
LEMMA VisMember ==
  ASSUME NEW S \in SUBSET Entry, Unique(S), NEW snap \in Nat, NEW e
  PROVE  e \in Vis(S, snap) <=>
           /\ e \in S /\ ~e.del /\ e.seq <= snap
           /\ \A f \in S : f.key = e.key /\ f.seq <= snap => f.seq <= e.seq
<1>1. ASSUME e \in Vis(S, snap)
      PROVE  /\ e \in S /\ ~e.del /\ e.seq <= snap
             /\ \A f \in S : f.key = e.key /\ f.seq <= snap => f.seq <= e.seq
  <2>1. PICK k \in Keys : e = Newest(S, k, snap) /\ ~e.del
    BY <1>1 DEF Vis
  <2>2. Seen(S, k, snap) # {}
    BY <2>1, NewestSeen DEF NoEntry
  <2>3. e \in Seen(S, k, snap) /\ \A f \in Seen(S, k, snap) : f.seq <= e.seq
    BY <2>1, <2>2, NewestSeen
  <2> QED BY <2>1, <2>3 DEF Seen
<1>2. ASSUME e \in S, ~e.del, e.seq <= snap,
             \A f \in S : f.key = e.key /\ f.seq <= snap => f.seq <= e.seq
      PROVE  e \in Vis(S, snap)
  <2>1. e.key \in Keys /\ e \in Seen(S, e.key, snap) /\ e.seq \in Nat
    BY <1>2, EntryFields DEF Seen
  <2> DEFINE x == Newest(S, e.key, snap)
  <2>2. x \in Seen(S, e.key, snap) /\ \A f \in Seen(S, e.key, snap) : f.seq <= x.seq
    BY <2>1, NewestSeen
  <2>3. x \in S /\ x.key = e.key /\ x.seq <= snap /\ x.seq \in Nat
    BY <2>2, EntryFields DEF Seen
  <2>4. e.seq <= x.seq /\ x.seq <= e.seq
    BY <2>1, <2>2, <2>3, <1>2
  <2>5. x = e
    BY <2>1, <2>3, <2>4, <1>2 DEF Unique
  <2> QED BY <2>1, <2>5, <1>2 DEF Vis
<1> QED BY <1>1, <1>2

\* Looking in a newer set first makes no difference.
LEMMA NewestFirst ==
  ASSUME NEW A \in SUBSET Entry, NEW B \in SUBSET Entry, Below(B, A),
         NEW key, NEW snap \in Nat
  PROVE  Newest(A \cup B, key, snap) =
           IF Newest(A, key, snap) # NoEntry THEN Newest(A, key, snap) ELSE Newest(B, key, snap)
<1>1. CASE Seen(A, key, snap) = {}
  <2>1. Seen(A \cup B, key, snap) = Seen(B, key, snap)
    BY <1>1 DEF Seen
  <2>2. Newest(A, key, snap) = NoEntry
    BY <1>1, NewestSeen
  <2> QED BY <2>1, <2>2, NewestSame
<1>2. CASE Seen(A, key, snap) # {}
  <2> DEFINE SA == Seen(A, key, snap)
             SAB == Seen(A \cup B, key, snap)
             P == {e \in SA : \A f \in SA : f.seq <= e.seq}
             Q == {e \in SAB : \A f \in SAB : f.seq <= e.seq}
  <2>1. SA \subseteq SAB /\ SAB \subseteq Entry
    BY DEF Seen
  <2>2. \A f \in SAB : f \in SA \/ f \in B
    BY DEF Seen
  <2>3. \A e \in SA : e \in A /\ e.seq \in Nat
    BY EntryFields DEF Seen
  <2>4. \A f \in B : f.seq \in Nat /\ \A e \in SA : f.seq < e.seq
    BY <2>3, EntryFields DEF Below
  <2> HIDE DEF SA, SAB
  <2>5. P = Q
    BY <2>1, <2>2, <2>3, <2>4, <1>2 DEF SA
  <2>6. Newest(A, key, snap) = CHOOSE e : e \in P
    BY <1>2 DEF Newest, Seen, SA
  <2>7. Newest(A \cup B, key, snap) = CHOOSE e : e \in Q
    BY <1>2, <2>1 DEF Newest, Seen, SAB, SA
  <2>8. Newest(A, key, snap) # NoEntry
    BY <1>2, NewestSeen
  <2> QED BY <2>5, <2>6, <2>7, <2>8
<1> QED BY <1>1, <1>2

\* Merging tables changes nothing for a reader that is not older than the
\* smallest snapshot.
LEMMA VisMerge ==
  ASSUME NEW X \in SUBSET Entry, NEW Y \in SUBSET Entry, Unique(X \cup Y), Below(X, Y),
         NEW smallest \in Nat, NEW snap \in Nat, smallest <= snap
  PROVE  Vis(Kept(X, smallest) \cup Y, snap) = Vis(X \cup Y, snap)
<1> DEFINE Z == Kept(X, smallest)
<1>1. Z \subseteq X /\ \A e \in X : e \in Z <=>
        /\ \A f \in X : f.key = e.key /\ f.seq > e.seq => f.seq > smallest
        /\ ~(e.del /\ e.seq <= smallest)
  BY DEF Kept
<1>2. Z \cup Y \in SUBSET Entry /\ Unique(Z \cup Y)
  BY <1>1 DEF Unique
<1>3. \A e \in X \cup Y : e.seq \in Nat /\ e.del \in BOOLEAN
  BY EntryFields
<1>4. \A e \in X, f \in Y : e.seq < f.seq
  BY DEF Below
<1> HIDE DEF Z
<1>5. ASSUME NEW e \in Vis(X \cup Y, snap) PROVE e \in Vis(Z \cup Y, snap)
  <2>1. /\ e \in X \cup Y /\ ~e.del /\ e.seq <= snap
        /\ \A f \in X \cup Y : f.key = e.key /\ f.seq <= snap => f.seq <= e.seq
    BY <1>5, VisMember
  <2>2. e \in Z \cup Y
    BY <2>1, <1>1, <1>3
  <2>3. \A f \in Z \cup Y : f.key = e.key /\ f.seq <= snap => f.seq <= e.seq
    BY <2>1, <1>1
  <2> QED BY <2>1, <2>2, <2>3, <1>2, VisMember
<1>6. ASSUME NEW e \in Vis(Z \cup Y, snap) PROVE e \in Vis(X \cup Y, snap)
  <2>1. /\ e \in Z \cup Y /\ ~e.del /\ e.seq <= snap
        /\ \A f \in Z \cup Y : f.key = e.key /\ f.seq <= snap => f.seq <= e.seq
    BY <1>6, <1>2, VisMember
  <2>2. e \in X \cup Y /\ e.seq \in Nat
    BY <2>1, <1>1, <1>3
  <2>3. \A f \in Y : f.key = e.key /\ f.seq <= snap => f.seq <= e.seq
    BY <2>1
  <2>4. ASSUME NEW f \in X, f.key = e.key, f.seq <= snap, ~(f.seq <= e.seq) PROVE FALSE
    <3>1. e \in X /\ e \in Z
      BY <2>1, <2>2, <2>4, <1>3, <1>4
    <3> DEFINE C == {g \in X : g.key = e.key /\ g.seq <= snap}
               T == {g.seq : g \in C}
    <3>2. T \in SUBSET Nat /\ T # {} /\ \A x \in T : x <= snap
      BY <2>4, <1>3
    <3>3. PICK x \in T : \A y \in T : y <= x
      BY <3>2, GreatestElement
    <3>4. PICK g \in C : g.seq = x
      BY <3>3
    <3>5. \A h \in C : h.seq <= g.seq
      BY <3>3, <3>4
    <3>6. g \in X /\ g.key = e.key /\ g.seq <= snap /\ g.seq > e.seq /\ g.seq \in Nat
      BY <3>4, <3>5, <2>4, <2>2, <1>3
    <3>7. g.seq > smallest
      BY <3>1, <3>6, <1>1
    <3>8. \A h \in X : h.key = g.key /\ h.seq > g.seq => h.seq > smallest
      BY <3>6, <3>7, <1>3
    <3>9. g \in Z
      BY <3>6, <3>7, <3>8, <1>1
    <3> QED BY <3>9, <3>6, <2>1, <2>2
  <2> QED BY <2>1, <2>2, <2>3, <2>4, VisMember, <1>3
<1> QED BY <1>5, <1>6 DEF Z

-----------------------------------------------------------------------------
(* How the steps of the program change what is on disk *)

DiskTypes(T, K, lg, sy, L, seq, gr) ==
    /\ T \subseteq Entry /\ K \subseteq Nat /\ L \subseteq Entry /\ seq \in Nat /\ gr \subseteq Group
    /\ \A n \in K : lg[n] \in Seq(Record) /\ sy[n] \in 0 .. Len(lg[n])

LEMMA GroupFields ==
  ASSUME NEW g \in Group
  PROVE  /\ g.entries \subseteq Entry /\ g.entries # Torn
         /\ g.sync \in BOOLEAN /\ g.acked \in BOOLEAN /\ g.whole \in BOOLEAN
<1>1. g.entries \in SUBSET Entry /\ g.sync \in BOOLEAN /\ g.acked \in BOOLEAN /\ g.whole \in BOOLEAN
  BY DEF Group
<1> QED BY <1>1, NoEntryIsNone

\* What a log lets a reader see is among the entries of the kept logs.
LEMMA InLogEnts ==
  ASSUME NEW K, NEW lg, NEW n \in K, NEW i \in DOMAIN lg[n], lg[n][i] # Torn
  PROVE  lg[n][i] \subseteq ReadLog(lg[n]) /\ lg[n][i] \subseteq LogEnts(K, lg)
<1>1. \A e \in lg[n][i] : e \in ReadLog(lg[n])
  BY ReadLogMember
<1> QED BY <1>1, LogEntsMember

\* Fewer entries outside the tables, or more that are newer than the MANIFEST.
LEMMA OldOther ==
  ASSUME NEW T, NEW L, NEW L1 \in SUBSET Entry, NEW seq \in Nat, NEW gr, NEW gr1, NEW e,
         Old(T, L, seq, gr, e), \A f \in L1 : f \in L \/ f.seq > seq,
         gr \subseteq Group, NEW seq1 \in Nat, seq <= seq1,
         \A g \in gr : \E h \in gr1 : h.entries = g.entries
  PROVE  Old(T, L1, seq1, gr1, e)
<1>1. CASE \E f \in T : f.key = e.key /\ f.seq >= e.seq
  BY <1>1 DEF Old
<1>2. CASE ~(\E f \in T : f.key = e.key /\ f.seq >= e.seq)
  <2>1. PICK g \in gr : \E d \in g.entries :
            /\ d.del /\ d.key = e.key /\ d.seq >= e.seq /\ d.seq <= seq
            /\ \A f \in L : f \in T \/ f.seq > d.seq
    BY <1>2 DEF Old
  <2>2. PICK d \in g.entries :
            /\ d.del /\ d.key = e.key /\ d.seq >= e.seq /\ d.seq <= seq
            /\ \A f \in L : f \in T \/ f.seq > d.seq
    BY <2>1
  <2>3. d \in Entry /\ d.seq \in Nat
    BY <2>1, <2>2, GroupFields, EntryFields
  <2>4. \A f \in L1 : f.seq \in Nat
    BY EntryFields
  <2>5. \A f \in L1 : f \in T \/ f.seq > d.seq
    BY <2>2, <2>3, <2>4
  <2>6. PICK h \in gr1 : h.entries = g.entries
    BY <2>1
  <2>7. d \in h.entries /\ d.seq <= seq1
    BY <2>2, <2>3, <2>6
  <2>8. \A f \in T : f.key # e.key
    BY <1>2 DEF Old
  <2> QED BY <2>2, <2>5, <2>7, <2>8 DEF Old
<1> QED BY <1>1, <1>2

\* Only the kept logs matter, and only what is newer than the MANIFEST is new
\* outside the tables.
LEMMA DiskOther ==
  ASSUME NEW T, NEW K, NEW lg, NEW sy, NEW L, NEW seq, NEW gr,
         DiskTypes(T, K, lg, sy, L, seq, gr), Disk(T, K, lg, sy, L, seq, gr),
         NEW lg1, NEW sy1, \A n \in K : lg1[n] = lg[n] /\ sy1[n] = sy[n],
         NEW L1 \in SUBSET Entry, \A f \in L1 : f \in L \/ f.seq > seq,
         NEW seq1 \in Nat, seq <= seq1
  PROVE  Disk(T, K, lg1, sy1, L1, seq1, gr)
<1> USE DEF DiskTypes
<1>1. \A e : Old(T, L, seq, gr, e) => Old(T, L1, seq1, gr, e)
  BY OldOther
<1>2. TablesNumbered(T, seq1)
  <2>1. \A e \in T : e.seq \in Nat
    BY EntryFields
  <2> QED BY <2>1 DEF Disk, TablesNumbered
<1>3. LogsNewer(T, K, lg1) /\ LogsOrdered(K, lg1)
  BY DEF Disk, LogsNewer, LogsOrdered
<1>4. LogEnts(K, lg1) = LogEnts(K, lg)
  BY DEF LogEnts
<1>5. Unique(T \cup LogEnts(K, lg1)) /\ DeletionsKnown(T, gr) /\ RecordsKnown(T, K, lg1, gr)
  BY <1>4 DEF Disk, RecordsKnown
<1>6. GroupsSafe(T, K, lg1, L1, seq1, gr)
  BY <1>1 DEF Disk, GroupsSafe
<1>7. SyncedSafe(T, K, lg1, sy1, L1, seq1, gr)
  BY <1>1 DEF Disk, SyncedSafe
<1> QED BY <1>2, <1>3, <1>5, <1>6, <1>7 DEF Disk

\* A record is written to the newest log.
Appends(K, lg, sy, L, seq, gr, n0, r, lg1, sy1, gr1, L1) ==
    /\ n0 \in K /\ (\A k \in K : k <= n0) /\ r \in Record
    /\ lg1[n0] = Append(lg[n0], r) /\ \A n \in K : n # n0 => lg1[n] = lg[n]
    /\ \A n \in K : sy1[n] \in Nat /\ sy[n] <= sy1[n]
    /\ gr1 \in SUBSET Group /\ gr \subseteq gr1
    /\ \A g \in gr1 \ gr : ~g.acked /\ (g.whole => g.entries = r)
    /\ r # Torn => /\ Unique(r) /\ \E g \in gr1 : g.entries = r
                   /\ \A e \in r : seq < e.seq /\ \A f \in LogEnts(K, lg) : f.seq < e.seq
    /\ L1 \in SUBSET Entry /\ \A f \in L1 : f \in L \/ f.seq > seq

LEMMA DiskAppend ==
  ASSUME NEW T, NEW K, NEW lg, NEW sy, NEW L, NEW seq, NEW gr,
         DiskTypes(T, K, lg, sy, L, seq, gr), Disk(T, K, lg, sy, L, seq, gr),
         NEW n0, NEW r, NEW lg1, NEW sy1, NEW gr1, NEW L1,
         Appends(K, lg, sy, L, seq, gr, n0, r, lg1, sy1, gr1, L1)
  PROVE  Disk(T, K, lg1, sy1, L1, seq, gr1)
<1> USE DEF DiskTypes, Appends
<1> DEFINE R == IF r = Torn THEN {} ELSE r
<1>0. lg[n0] \in Seq(Record)
  OBVIOUS
<1>1. /\ DOMAIN lg1[n0] = 1 .. Len(lg[n0]) + 1 /\ DOMAIN lg[n0] = 1 .. Len(lg[n0])
      /\ \A i \in DOMAIN lg[n0] : lg1[n0][i] = lg[n0][i]
      /\ lg1[n0][Len(lg[n0]) + 1] = r /\ Len(lg[n0]) \in Nat
      /\ ReadLog(lg1[n0]) = ReadLog(lg[n0]) \cup R
  BY <1>0, ReadLogAppend
<1>2. R \subseteq Entry
  BY DEF Record
<1>3. \A n \in K : ReadLog(lg[n]) \subseteq Entry /\ ReadLog(lg[n]) \subseteq LogEnts(K, lg)
  BY ReadLogType, LogEntsMember
<1>4. /\ \A e \in R : e.seq \in Nat /\ seq < e.seq /\ \A f \in LogEnts(K, lg) : f.seq < e.seq
      /\ Unique(R)
  BY <1>2, EntryFields DEF Unique
<1>5. \A n \in K : \A i \in DOMAIN lg[n] : i \in DOMAIN lg1[n] /\ lg1[n][i] = lg[n][i]
  <2> TAKE n \in K
  <2> TAKE i \in DOMAIN lg[n]
  <2>1. CASE n = n0
    <3>1. i \in 1 .. Len(lg[n0]) + 1
      BY <2>1, <1>1
    <3> QED BY <2>1, <3>1, <1>1
  <2>2. CASE n # n0
    BY <2>2
  <2> QED BY <2>1, <2>2
<1>6. \A n \in K : n # n0 => ReadLog(lg1[n]) = ReadLog(lg[n])
  OBVIOUS
<1>7. \A e \in T : e.seq \in Nat /\ e.seq <= seq
  BY EntryFields DEF Disk, TablesNumbered
<1>8. \A e : Old(T, L, seq, gr, e) => Old(T, L1, seq, gr1, e)
  BY OldOther
<1>9. Below(T, R)
  BY <1>4, <1>7 DEF Below
<1>10. \A n \in K : Below(ReadLog(lg[n]), R)
  BY <1>3, <1>4 DEF Below
<1> HIDE DEF R
<1>11. \A e \in LogEnts(K, lg1) : e \in LogEnts(K, lg) \/ e \in R
  <2> TAKE e \in LogEnts(K, lg1)
  <2>1. PICK n \in K : e \in ReadLog(lg1[n])
    BY LogEntsMember
  <2>2. e \in ReadLog(lg[n]) \/ e \in R
    BY <2>1, <1>1, <1>6
  <2> QED BY <2>2, LogEntsMember
<1>12. LogsNewer(T, K, lg1)
  <2> SUFFICES ASSUME NEW n \in K
               PROVE  \/ Below(T, ReadLog(lg1[n]))
                      \/ ReadLog(lg1[n]) \subseteq T /\ \E k \in K : n < k
    BY DEF LogsNewer
  <2>1. CASE n # n0
    BY <2>1, <1>6 DEF Disk, LogsNewer
  <2>2. CASE n = n0
    <3>1. Below(T, ReadLog(lg[n0]))
      BY DEF Disk, LogsNewer
    <3> QED BY <3>1, <2>2, <1>1, <1>9 DEF Below
  <2> QED BY <2>1, <2>2
<1>13. LogsOrdered(K, lg1)
  <2> SUFFICES ASSUME NEW n \in K, NEW k \in K, n < k
               PROVE  Below(ReadLog(lg1[n]), ReadLog(lg1[k]))
    BY DEF LogsOrdered
  <2>1. n # n0
    OBVIOUS
  <2>2. Below(ReadLog(lg[n]), ReadLog(lg[k]))
    BY DEF Disk, LogsOrdered
  <2> QED BY <2>1, <2>2, <1>1, <1>6, <1>10 DEF Below
<1>14. Unique(T \cup LogEnts(K, lg1))
  <2>1. Unique(T \cup LogEnts(K, lg))
    BY DEF Disk
  <2>2. \A e \in LogEnts(K, lg) : e.seq \in Nat
    BY <1>3, LogEntsMember, EntryFields
  <2>3. \A e \in R : \A f \in T \cup LogEnts(K, lg) : f.seq < e.seq /\ f.seq \in Nat
    BY <1>4, <1>7, <2>2
  <2> QED BY <2>1, <2>3, <1>4, <1>11 DEF Unique
<1>15. DeletionsKnown(T, gr1)
  BY DEF Disk, DeletionsKnown
<1>16. RecordsKnown(T, K, lg1, gr1)
  <2> SUFFICES ASSUME NEW n \in K, NEW i \in DOMAIN lg1[n], lg1[n][i] # Torn
               PROVE  lg1[n][i] \subseteq T \/ \E g \in gr1 : g.entries = lg1[n][i]
    BY DEF RecordsKnown
  <2>1. CASE i \in DOMAIN lg[n]
    BY <2>1, <1>5 DEF Disk, RecordsKnown
  <2>2. CASE i \notin DOMAIN lg[n]
    <3>1. n = n0 /\ i = Len(lg[n0]) + 1
      BY <2>2, <1>1
    <3> QED BY <3>1, <1>1
  <2> QED BY <2>1, <2>2
<1>17. GroupsSafe(T, K, lg1, L1, seq, gr1)
  <2> SUFFICES ASSUME NEW g \in gr1, g.whole
               PROVE  \/ \E n \in K : \E i \in DOMAIN lg1[n] : lg1[n][i] = g.entries
                      \/ \A e \in g.entries : Old(T, L1, seq, gr1, e)
    BY DEF GroupsSafe
  <2>1. CASE g \in gr
    <3>1. CASE \E n \in K : \E i \in DOMAIN lg[n] : lg[n][i] = g.entries
      BY <3>1, <1>5
    <3>2. CASE \A e \in g.entries : Old(T, L, seq, gr, e)
      BY <3>2, <1>8
    <3> QED BY <2>1, <3>1, <3>2 DEF Disk, GroupsSafe
  <2>2. CASE g \notin gr
    <3>1. g.entries = r /\ Len(lg[n0]) + 1 \in DOMAIN lg1[n0]
      BY <2>2, <1>1
    <3> QED BY <3>1, <1>1
  <2> QED BY <2>1, <2>2
<1>18. SyncedSafe(T, K, lg1, sy1, L1, seq, gr1)
  <2> SUFFICES ASSUME NEW g \in gr1, g.whole, g.acked, g.sync
               PROVE  \/ \E n \in K : \E i \in 1 .. sy1[n] : lg1[n][i] = g.entries
                      \/ \A e \in g.entries : Old(T, L1, seq, gr1, e)
    BY DEF SyncedSafe
  <2>1. g \in gr
    OBVIOUS
  <2>2. CASE \E n \in K : \E i \in 1 .. sy[n] : lg[n][i] = g.entries
    <3>1. PICK n \in K : \E i \in 1 .. sy[n] : lg[n][i] = g.entries
      BY <2>2
    <3>2. PICK i \in 1 .. sy[n] : lg[n][i] = g.entries
      BY <3>1
    <3>a. /\ sy[n] \in 0 .. Len(lg[n]) /\ lg[n] \in Seq(Record)
          /\ sy1[n] \in Nat /\ sy[n] <= sy1[n]
      OBVIOUS
    <3>b. Len(lg[n]) \in Nat
      BY <3>a
    <3>3. i \in 1 .. sy1[n] /\ i \in 1 .. Len(lg[n])
      BY <3>2, <3>a, <3>b
    <3>4. i \in DOMAIN lg[n]
      BY <3>3
    <3> QED BY <3>2, <3>3, <3>4, <1>5
  <2>3. CASE \A e \in g.entries : Old(T, L, seq, gr, e)
    BY <2>3, <1>8
  <2> QED BY <2>1, <2>2, <2>3 DEF Disk, SyncedSafe
<1> QED BY <1>7, <1>12, <1>13, <1>14, <1>15, <1>16, <1>17, <1>18 DEF Disk, TablesNumbered

\* A group gets its answer.
AnsweredIn(gr, group, ok) ==
  {IF g.entries = group THEN Answered(g, ok) ELSE g : g \in gr}

LEMMA DiskAnswer ==
  ASSUME NEW T, NEW K, NEW lg, NEW sy, NEW L, NEW seq, NEW gr,
         DiskTypes(T, K, lg, sy, L, seq, gr), Disk(T, K, lg, sy, L, seq, gr),
         NEW group, NEW ok \in BOOLEAN,
         ok /\ group # {} => \A g \in gr : g.whole /\ g.sync /\ g.entries = group =>
            \E n \in K : \E i \in 1 .. sy[n] : lg[n][i] = group,
         NEW gr1, gr1 = AnsweredIn(gr, group, ok)
  PROVE  gr1 \subseteq Group /\ Disk(T, K, lg, sy, L, seq, gr1)
<1> USE DEF DiskTypes
<1>1. \A g \in gr : LET h == IF g.entries = group THEN Answered(g, ok) ELSE g IN
        /\ h \in gr1 /\ h \in Group /\ h.entries = g.entries /\ h.whole = g.whole
        /\ h.sync = g.sync
        /\ h.acked = IF g.entries = group THEN ok ELSE g.acked
  BY DEF Answered, AnsweredIn, Group
<1>2. \A g \in gr : \E h \in gr1 : h.entries = g.entries
  BY <1>1
<1>3. \A h \in gr1 : \E g \in gr :
        /\ h \in Group /\ h.entries = g.entries /\ h.whole = g.whole /\ h.sync = g.sync
        /\ h.acked = IF g.entries = group THEN ok ELSE g.acked
  <2> TAKE h \in gr1
  <2>1. PICK g \in gr : h = IF g.entries = group THEN Answered(g, ok) ELSE g
    BY DEF AnsweredIn
  <2> WITNESS g \in gr
  <2> QED BY <2>1, <1>1
<1>4. gr1 \subseteq Group
  BY <1>3
<1>5. \A e : Old(T, L, seq, gr, e) => Old(T, L, seq, gr1, e)
  <2>1. L \in SUBSET Entry /\ seq \in Nat /\ seq <= seq /\ gr \subseteq Group
    OBVIOUS
  <2> QED BY <1>2, <2>1, OldOther
<1>6. TablesNumbered(T, seq) /\ LogsNewer(T, K, lg) /\ LogsOrdered(K, lg)
      /\ Unique(T \cup LogEnts(K, lg))
  BY DEF Disk
<1>7. DeletionsKnown(T, gr1) /\ RecordsKnown(T, K, lg, gr1)
  <2>1. DeletionsKnown(T, gr) /\ RecordsKnown(T, K, lg, gr)
    BY DEF Disk
  <2>2. DeletionsKnown(T, gr1)
    <3> SUFFICES ASSUME NEW e \in T, e.del PROVE \E g \in gr1 : e \in g.entries
      BY DEF DeletionsKnown
    <3>1. PICK g \in gr : e \in g.entries
      BY <2>1 DEF DeletionsKnown
    <3>2. PICK h \in gr1 : h.entries = g.entries
      BY <1>2
    <3> QED BY <3>1, <3>2
  <2> QED BY <2>1, <2>2, <1>2 DEF RecordsKnown
<1>8. GroupsSafe(T, K, lg, L, seq, gr1)
  <2> SUFFICES ASSUME NEW h \in gr1, h.whole
               PROVE  \/ \E n \in K : \E i \in DOMAIN lg[n] : lg[n][i] = h.entries
                      \/ \A e \in h.entries : Old(T, L, seq, gr1, e)
    BY DEF GroupsSafe
  <2>1. PICK g \in gr : h.entries = g.entries /\ h.whole = g.whole
    BY <1>3
  <2> QED BY <2>1, <1>5 DEF Disk, GroupsSafe
<1>9. SyncedSafe(T, K, lg, sy, L, seq, gr1)
  <2> SUFFICES ASSUME NEW h \in gr1, h.whole, h.acked, h.sync
               PROVE  \/ \E n \in K : \E i \in 1 .. sy[n] : lg[n][i] = h.entries
                      \/ \A e \in h.entries : Old(T, L, seq, gr1, e)
    BY DEF SyncedSafe
  <2>1. PICK g \in gr : /\ h.entries = g.entries /\ h.whole = g.whole /\ h.sync = g.sync
                        /\ h.acked = IF g.entries = group THEN ok ELSE g.acked
    BY <1>3
  <2>2. CASE g.entries = group
    <3>1. ok
      BY <2>1, <2>2
    <3> QED BY <2>1, <2>2, <3>1
  <2>3. CASE g.entries # group
    <3>1. g.whole /\ g.acked /\ g.sync
      BY <2>1, <2>3
    <3> QED BY <3>1, <2>1, <1>5 DEF Disk, SyncedSafe
  <2> QED BY <2>2, <2>3
<1> QED BY <1>4, <1>6, <1>7, <1>8, <1>9 DEF Disk

\* A new log.
LEMMA DiskNewLog ==
  ASSUME NEW T, NEW K, NEW lg, NEW sy, NEW L, NEW seq, NEW gr,
         DiskTypes(T, K, lg, sy, L, seq, gr), Disk(T, K, lg, sy, L, seq, gr),
         NEW n0, n0 \notin K, NEW lg1, NEW sy1, lg1[n0] = << >>,
         \A n \in K : lg1[n] = lg[n] /\ sy1[n] = sy[n],
         NEW L1 \in SUBSET Entry, L1 \subseteq L
  PROVE  /\ LogEnts(K \cup {n0}, lg1) = LogEnts(K, lg)
         /\ Disk(T, K \cup {n0}, lg1, sy1, L1, seq, gr)
<1>1. Disk(T, K, lg1, sy1, L1, seq, gr)
  <2>1. seq \in Nat /\ seq <= seq /\ \A f \in L1 : f \in L \/ f.seq > seq
    BY DEF DiskTypes
  <2> QED BY <2>1, DiskOther
<1>2. ReadLog(lg1[n0]) = {} /\ DOMAIN lg1[n0] = {}
  BY ReadLogEmpty
<1>3. LogEnts(K \cup {n0}, lg1) = LogEnts(K, lg1) /\ LogEnts(K, lg1) = LogEnts(K, lg)
  <2>1. \A e : e \in LogEnts(K \cup {n0}, lg1) <=> \E n \in K \cup {n0} : e \in ReadLog(lg1[n])
    BY LogEntsMember
  <2>2. \A e : e \in LogEnts(K, lg1) <=> \E n \in K : e \in ReadLog(lg1[n])
    BY LogEntsMember
  <2>3. \A e : e \in LogEnts(K, lg) <=> \E n \in K : e \in ReadLog(lg[n])
    BY LogEntsMember
  <2>4. \A e : e \in LogEnts(K \cup {n0}, lg1) <=> e \in LogEnts(K, lg1)
    BY <2>1, <2>2, <1>2
  <2>5. \A e : e \in LogEnts(K, lg) <=> e \in LogEnts(K, lg1)
    BY <2>3, <2>2
  <2> QED BY <2>4, <2>5
<1>4. LogsNewer(T, K \cup {n0}, lg1)
  <2> SUFFICES ASSUME NEW n \in K \cup {n0}
               PROVE  \/ Below(T, ReadLog(lg1[n]))
                      \/ ReadLog(lg1[n]) \subseteq T /\ \E k \in K \cup {n0} : n < k
    BY DEF LogsNewer
  <2>1. CASE n \in K
    BY <2>1, <1>1 DEF Disk, LogsNewer
  <2>2. CASE n = n0
    BY <2>2, <1>2 DEF Below
  <2> QED BY <2>1, <2>2
<1>5. LogsOrdered(K \cup {n0}, lg1)
  <2> SUFFICES ASSUME NEW n \in K \cup {n0}, NEW k \in K \cup {n0}, n < k
               PROVE  Below(ReadLog(lg1[n]), ReadLog(lg1[k]))
    BY DEF LogsOrdered
  <2>1. CASE n = n0 \/ k = n0
    BY <2>1, <1>2 DEF Below
  <2>2. CASE n \in K /\ k \in K
    BY <2>2, <1>1 DEF Disk, LogsOrdered
  <2> QED BY <2>1, <2>2
<1>6. RecordsKnown(T, K \cup {n0}, lg1, gr)
  BY <1>1, <1>2 DEF Disk, RecordsKnown
<1>7. GroupsSafe(T, K \cup {n0}, lg1, L1, seq, gr)
  BY <1>1 DEF Disk, GroupsSafe
<1>8. SyncedSafe(T, K \cup {n0}, lg1, sy1, L1, seq, gr)
  BY <1>1 DEF Disk, SyncedSafe
<1> QED BY <1>1, <1>3, <1>4, <1>5, <1>6, <1>7, <1>8 DEF Disk

\* Tables are added that hold all of the logs that are no longer kept.
LEMMA DiskAddTables ==
  ASSUME NEW T, NEW K, NEW lg, NEW sy, NEW L, NEW seq, NEW gr,
         DiskTypes(T, K, lg, sy, L, seq, gr), Disk(T, K, lg, sy, L, seq, gr),
         NEW A \in SUBSET L, NEW K1 \in SUBSET K, NEW seq1 \in Nat, seq <= seq1,
         \A e \in A : e.seq <= seq1,
         \A n \in K \ K1 : ReadLog(lg[n]) \subseteq T \cup A,
         \A n \in K1 : Below(T \cup A, ReadLog(lg[n])),
         Unique(T \cup A \cup LogEnts(K1, lg)), DeletionsKnown(A, gr),
         NEW L1 \in SUBSET L
  PROVE  Disk(T \cup A, K1, lg, sy, L1, seq1, gr)
<1> USE DEF DiskTypes
<1>1. \A e \in T \cup A : e.seq \in Nat
  BY EntryFields
<1>2. TablesNumbered(T \cup A, seq1)
  BY <1>1 DEF Disk, TablesNumbered
<1>3. LogsNewer(T \cup A, K1, lg)
  BY DEF LogsNewer
<1>4. LogsOrdered(K1, lg)
  BY DEF Disk, LogsOrdered
<1>5. DeletionsKnown(T \cup A, gr)
  BY DEF Disk, DeletionsKnown
<1>6. RecordsKnown(T \cup A, K1, lg, gr)
  BY DEF Disk, RecordsKnown
<1>7. ASSUME NEW e \in Entry, Old(T, L, seq, gr, e) PROVE Old(T \cup A, L1, seq1, gr, e)
  <2>1. CASE \E f \in T \cup A : f.key = e.key /\ f.seq >= e.seq
    BY <2>1 DEF Old
  <2>2. CASE ~ \E f \in T \cup A : f.key = e.key /\ f.seq >= e.seq
    <3>1. PICK g \in gr : \E d \in g.entries :
            /\ d.del /\ d.key = e.key /\ d.seq >= e.seq /\ d.seq <= seq
            /\ \A f \in L : f \in T \/ f.seq > d.seq
      BY <1>7, <2>2 DEF Old
    <3>2. PICK d \in g.entries :
            /\ d.del /\ d.key = e.key /\ d.seq >= e.seq /\ d.seq <= seq
            /\ \A f \in L : f \in T \/ f.seq > d.seq
      BY <3>1
    <3>3. d.seq \in Nat /\ e.seq \in Nat
      BY <3>1, <3>2, GroupFields, EntryFields
    <3>4. \A f \in T : f.key # e.key
      BY <1>7, <2>2 DEF Old
    <3>5. \A f \in A : f.key # e.key
      BY <2>2, <3>2, <3>3, <3>4, <1>1
    <3>6. d.seq <= seq1 /\ \A f \in L1 : f \in T \cup A \/ f.seq > d.seq
      BY <3>2, <3>3
    <3> QED BY <3>2, <3>4, <3>5, <3>6 DEF Old
  <2> QED BY <2>1, <2>2
<1>8. ASSUME NEW e \in T \cup A PROVE Old(T \cup A, L1, seq1, gr, e)
  BY <1>1 DEF Old
<1>9. ASSUME NEW g \in gr, NEW n \in K, NEW i \in DOMAIN lg[n], lg[n][i] = g.entries, n \notin K1
      PROVE  \A e \in g.entries : Old(T \cup A, L1, seq1, gr, e)
  <2>1. g.entries # Torn
    BY GroupFields
  <2>2. g.entries \subseteq ReadLog(lg[n])
    BY <2>1, <1>9, InLogEnts
  <2> QED BY <2>2, <1>8, <1>9
<1>10. GroupsSafe(T \cup A, K1, lg, L1, seq1, gr)
  <2> SUFFICES ASSUME NEW g \in gr, g.whole,
                      ~ \E n \in K1 : \E i \in DOMAIN lg[n] : lg[n][i] = g.entries
               PROVE  \A e \in g.entries : Old(T \cup A, L1, seq1, gr, e)
    BY DEF GroupsSafe
  <2>1. CASE \E n \in K : \E i \in DOMAIN lg[n] : lg[n][i] = g.entries
    BY <2>1, <1>9
  <2>2. CASE \A e \in g.entries : Old(T, L, seq, gr, e)
    BY <2>2, <1>7, GroupFields
  <2> QED BY <2>1, <2>2 DEF Disk, GroupsSafe
<1>11. SyncedSafe(T \cup A, K1, lg, sy, L1, seq1, gr)
  <2> SUFFICES ASSUME NEW g \in gr, g.whole, g.acked, g.sync,
                      ~ \E n \in K1 : \E i \in 1 .. sy[n] : lg[n][i] = g.entries
               PROVE  \A e \in g.entries : Old(T \cup A, L1, seq1, gr, e)
    BY DEF SyncedSafe
  <2>1. CASE \E n \in K : \E i \in 1 .. sy[n] : lg[n][i] = g.entries
    <3>1. PICK n \in K : \E i \in 1 .. sy[n] : lg[n][i] = g.entries
      BY <2>1
    <3>2. PICK i \in 1 .. sy[n] : lg[n][i] = g.entries
      BY <3>1
    <3>3. lg[n] \in Seq(Record) /\ sy[n] \in 0 .. Len(lg[n])
      OBVIOUS
    <3>4. i \in DOMAIN lg[n]
      BY <3>2, <3>3
    <3>5. n \notin K1
      BY <3>1
    <3> QED BY <3>2, <3>4, <3>5, <1>9
  <2>2. CASE \A e \in g.entries : Old(T, L, seq, gr, e)
    BY <2>2, <1>7, GroupFields
  <2> QED BY <2>1, <2>2 DEF Disk, SyncedSafe
<1> QED BY <1>2, <1>3, <1>4, <1>5, <1>6, <1>10, <1>11 DEF Disk

\* Tables are merged, and logs whose entries are all in the other tables are
\* kept again.
LEMMA DiskCompact ==
  ASSUME NEW X, NEW Y, NEW K, NEW lg, NEW sy, NEW L, NEW seq, NEW gr,
         DiskTypes(X \cup Y, K, lg, sy, L, seq, gr), Disk(X \cup Y, K, lg, sy, L, seq, gr),
         Below(X, Y), NEW smallest \in Nat,
         NEW K1 \in SUBSET Nat, K \subseteq K1, NEW seq1 \in Nat, seq <= seq1,
         \A n \in K1 : \/ Below(X \cup Y, ReadLog(lg[n]))
                       \/ ReadLog(lg[n]) \subseteq Y /\ \E k \in K1 : n < k,
         LogsOrdered(K1, lg), \A n \in K1 \ K : ReadLog(lg[n]) \subseteq Y,
         NEW L1 \in SUBSET L, \A f \in L1 : f \in Y \/ \A x \in X : x.seq < f.seq
  PROVE  Disk(Kept(X, smallest) \cup Y, K1, lg, sy, L1, seq1, gr)
<1> USE DEF DiskTypes
<1> DEFINE Z == Kept(X, smallest)
<1>1. Z \subseteq X /\ \A e \in X : e \in Z <=>
        /\ \A f \in X : f.key = e.key /\ f.seq > e.seq => f.seq > smallest
        /\ ~(e.del /\ e.seq <= smallest)
  BY DEF Kept
<1> HIDE DEF Z
<1>2. \A e \in X \cup Y : e \in Entry /\ e.seq \in Nat /\ e.seq <= seq /\ e.del \in BOOLEAN
  BY EntryFields DEF Disk, TablesNumbered
<1>3. TablesNumbered(Z \cup Y, seq1)
  BY <1>1, <1>2 DEF TablesNumbered
<1>4. LogsNewer(Z \cup Y, K1, lg)
  <2> SUFFICES ASSUME NEW n \in K1
               PROVE  \/ Below(Z \cup Y, ReadLog(lg[n]))
                      \/ ReadLog(lg[n]) \subseteq Z \cup Y /\ \E k \in K1 : n < k
    BY DEF LogsNewer
  <2>1. CASE Below(X \cup Y, ReadLog(lg[n]))
    BY <2>1, <1>1 DEF Below
  <2>2. CASE ReadLog(lg[n]) \subseteq Y /\ \E k \in K1 : n < k
    BY <2>2
  <2> QED BY <2>1, <2>2
<1>5. \A e \in LogEnts(K1, lg) : e \in LogEnts(K, lg) \/ e \in Y
  <2> TAKE e \in LogEnts(K1, lg)
  <2>1. PICK n \in K1 : e \in ReadLog(lg[n])
    BY LogEntsMember
  <2> QED BY <2>1, LogEntsMember
<1>6. Unique(Z \cup Y \cup LogEnts(K1, lg))
  <2>1. Unique(X \cup Y \cup LogEnts(K, lg))
    BY DEF Disk
  <2>2. \A e \in Z \cup Y \cup LogEnts(K1, lg) : e \in X \cup Y \cup LogEnts(K, lg)
    BY <1>1, <1>5
  <2> QED BY <2>1, <2>2 DEF Unique
<1>7. DeletionsKnown(Z \cup Y, gr)
  BY <1>1 DEF Disk, DeletionsKnown
<1>8. RecordsKnown(Z \cup Y, K1, lg, gr)
  <2> SUFFICES ASSUME NEW n \in K1, NEW i \in DOMAIN lg[n], lg[n][i] # Torn
               PROVE  lg[n][i] \subseteq Z \cup Y \/ \E g \in gr : g.entries = lg[n][i]
    BY DEF RecordsKnown
  <2>1. lg[n][i] \subseteq ReadLog(lg[n])
    BY InLogEnts
  <2>2. CASE ReadLog(lg[n]) \subseteq Y
    BY <2>1, <2>2
  <2>3. CASE Below(X \cup Y, ReadLog(lg[n])) /\ n \in K
    <3>1. lg[n][i] \subseteq X \cup Y \/ \E g \in gr : g.entries = lg[n][i]
      BY <2>3 DEF Disk, RecordsKnown
    <3>2. ASSUME NEW e \in lg[n][i], e \in X \cup Y PROVE FALSE
      <4>1. e \in ReadLog(lg[n])
        BY <2>1
      <4>2. e.seq < e.seq
        BY <4>1, <3>2, <2>3 DEF Below
      <4> QED BY <4>2, <3>2, <1>2
    <3> QED BY <3>1, <3>2
  <2> QED BY <2>2, <2>3
<1>9. ASSUME NEW e \in Entry, Old(X \cup Y, L, seq, gr, e)
      PROVE  Old(Z \cup Y, L1, seq1, gr, e)
  <2>0. e.seq \in Nat
    BY EntryFields
  <2>1. CASE \E f \in Z \cup Y : f.key = e.key /\ f.seq >= e.seq
    BY <2>1 DEF Old
  <2>2. CASE /\ ~ \E f \in Z \cup Y : f.key = e.key /\ f.seq >= e.seq
             /\ \E f \in X \cup Y : f.key = e.key /\ f.seq >= e.seq
    <3>1. PICK f \in X : f.key = e.key /\ f.seq >= e.seq
      BY <2>2
    <3> DEFINE C == {g \in X : g.key = e.key}
               S == {g.seq : g \in C}
    <3>2. S \in SUBSET Nat /\ S # {} /\ \A x \in S : x <= seq
      BY <3>1, <1>2
    <3>3. PICK x \in S : \A y \in S : y <= x
      BY <3>2, GreatestElement
    <3>4. PICK d \in C : d.seq = x
      BY <3>3
    <3>5. \A h \in C : h.seq <= d.seq
      BY <3>3, <3>4
    <3>6. d \in X /\ d.key = e.key /\ d.seq \in Nat /\ d.seq <= seq /\ d.seq >= f.seq
      BY <3>1, <3>4, <3>5, <1>2
    <3>7. d.seq >= e.seq
      BY <3>1, <3>6, <2>0, <1>2
    <3> HIDE DEF C, S
    <3>8. d \notin Z
      BY <2>2, <3>6, <3>7
    <3>9. \A h \in X : h.key = e.key => h.seq <= d.seq
      BY <3>5 DEF C
    <3>10. d.del /\ d.seq <= smallest
      BY <3>6, <3>8, <3>9, <1>1, <1>2
    <3>11. ASSUME NEW h \in Z, h.key = e.key PROVE FALSE
      <4>1. h \in X /\ h.seq <= d.seq /\ h # d /\ h.seq \in Nat
        BY <3>8, <3>9, <3>11, <1>1, <1>2
      <4>2. h.seq # d.seq
        BY <4>1, <3>6 DEF Disk, Unique
      <4> QED BY <4>1, <4>2, <3>6, <3>10, <3>11, <1>1
    <3>12. ASSUME NEW h \in Y, h.key = e.key PROVE FALSE
      <4>1. d.seq < h.seq
        BY <3>6 DEF Below
      <4> QED BY <4>1, <3>6, <3>7, <3>12, <2>0, <2>2, <1>2
    <3>13. PICK g \in gr : d \in g.entries
      BY <3>6, <3>10 DEF Disk, DeletionsKnown
    <3>14. \A h \in L1 : h \in Z \cup Y \/ h.seq > d.seq
      <4> TAKE h \in L1
      <4>1. h.seq \in Nat
        BY EntryFields
      <4> QED BY <4>1, <3>6
    <3>15. d.seq <= seq1
      BY <3>6
    <3> QED BY <3>6, <3>7, <3>10, <3>11, <3>12, <3>13, <3>14, <3>15 DEF Old
  <2>3. CASE ~ \E f \in X \cup Y : f.key = e.key /\ f.seq >= e.seq
    <3>1. PICK g \in gr : \E d \in g.entries :
            /\ d.del /\ d.key = e.key /\ d.seq >= e.seq /\ d.seq <= seq
            /\ \A f \in L : f \in X \cup Y \/ f.seq > d.seq
      BY <1>9, <2>3 DEF Old
    <3>2. PICK d \in g.entries :
            /\ d.del /\ d.key = e.key /\ d.seq >= e.seq /\ d.seq <= seq
            /\ \A f \in L : f \in X \cup Y \/ f.seq > d.seq
      BY <3>1
    <3>3. d.seq \in Nat
      BY <3>1, <3>2, GroupFields, EntryFields
    <3>4. \A f \in Z \cup Y : f.key # e.key
      BY <1>9, <2>3, <1>1 DEF Old
    <3>5. \A f \in L1 : f \in Z \cup Y \/ f.seq > d.seq
      <4> TAKE f \in L1
      <4>1. CASE f \in X
        <5>1. ~(f.seq < f.seq)
          BY <4>1, <1>2
        <5> QED BY <5>1, <4>1
      <4>2. CASE f \notin X
        BY <4>2, <3>2
      <4> QED BY <4>1, <4>2
    <3>6. d.seq <= seq1
      BY <3>2, <3>3
    <3> QED BY <3>2, <3>4, <3>5, <3>6 DEF Old
  <2> QED BY <2>1, <2>2, <2>3
<1>10. GroupsSafe(Z \cup Y, K1, lg, L1, seq1, gr)
  <2> SUFFICES ASSUME NEW g \in gr, g.whole,
                      ~ \E n \in K1 : \E i \in DOMAIN lg[n] : lg[n][i] = g.entries
               PROVE  \A e \in g.entries : Old(Z \cup Y, L1, seq1, gr, e)
    BY DEF GroupsSafe
  <2>1. \A e \in g.entries : Old(X \cup Y, L, seq, gr, e)
    BY DEF Disk, GroupsSafe
  <2> QED BY <2>1, <1>9, GroupFields
<1>11. SyncedSafe(Z \cup Y, K1, lg, sy, L1, seq1, gr)
  <2> SUFFICES ASSUME NEW g \in gr, g.whole, g.acked, g.sync,
                      ~ \E n \in K1 : \E i \in 1 .. sy[n] : lg[n][i] = g.entries
               PROVE  \A e \in g.entries : Old(Z \cup Y, L1, seq1, gr, e)
    BY DEF SyncedSafe
  <2>1. \A e \in g.entries : Old(X \cup Y, L, seq, gr, e)
    BY DEF Disk, SyncedSafe
  <2> QED BY <2>1, <1>9, GroupFields
<1>12. Disk(Z \cup Y, K1, lg, sy, L1, seq1, gr)
  BY <1>3, <1>4, <1>6, <1>7, <1>8, <1>10, <1>11 DEF Disk
<1> QED BY <1>12 DEF Z

\* The machine fails: logs lose records that were not synced, and the groups
\* of those that no table has are forgotten.
Crashed(T, K, lg, sy, gr, lg1, sy1, lost, gr1) ==
    /\ \A n \in K : lg1[n] \in Seq(Record) /\ sy1[n] = Len(lg1[n])
    /\ \A n \in K : \A i \in DOMAIN lg1[n] :
         (i \in DOMAIN lg[n] /\ lg1[n][i] = lg[n][i]) \/ lg1[n][i] = Torn
    /\ \A n \in K : \A i \in 1 .. sy[n] : i \in DOMAIN lg1[n] /\ lg1[n][i] = lg[n][i]
    /\ \A r : r \in lost <=> /\ \E n \in K : r \in Range(lg[n]) \ Range(lg1[n])
                             /\ ~(r \subseteq T)
    /\ gr1 = {g \in gr : g.entries \notin lost}

LEMMA DiskCrash ==
  ASSUME NEW T, NEW K, NEW lg, NEW sy, NEW L, NEW seq, NEW gr,
         DiskTypes(T, K, lg, sy, L, seq, gr), Disk(T, K, lg, sy, L, seq, gr),
         LogEnts(K, lg) \subseteq L,
         NEW lg1, NEW sy1, NEW lost, NEW gr1, Crashed(T, K, lg, sy, gr, lg1, sy1, lost, gr1)
  PROVE  Disk(T, K, lg1, sy1, LogEnts(K, lg1), seq, gr1)
<1> USE DEF DiskTypes, Crashed
<1> DEFINE L1 == LogEnts(K, lg1)
<1>1. \A n \in K : ReadLog(lg1[n]) \subseteq ReadLog(lg[n])
  <2> SUFFICES ASSUME NEW n \in K, NEW e \in ReadLog(lg1[n]) PROVE e \in ReadLog(lg[n])
    OBVIOUS
  <2>1. PICK i \in DOMAIN lg1[n] : lg1[n][i] # Torn /\ e \in lg1[n][i]
    BY ReadLogMember
  <2>2. i \in DOMAIN lg[n] /\ lg[n][i] # Torn /\ e \in lg[n][i]
    BY <2>1
  <2> QED BY <2>2, ReadLogMember
<1>2. \A e \in LogEnts(K, lg1) : e \in LogEnts(K, lg)
  BY <1>1, LogEntsMember
<1>3. L1 \subseteq L
  BY <1>2
<1> HIDE DEF L1
<1>4. TablesNumbered(T, seq) /\ \A e \in T : e.seq \in Nat
  BY EntryFields DEF Disk
<1>5. LogsNewer(T, K, lg1)
  <2> SUFFICES ASSUME NEW n \in K
               PROVE  \/ Below(T, ReadLog(lg1[n]))
                      \/ ReadLog(lg1[n]) \subseteq T /\ \E k \in K : n < k
    BY DEF LogsNewer
  <2>1. \/ Below(T, ReadLog(lg[n]))
        \/ ReadLog(lg[n]) \subseteq T /\ \E k \in K : n < k
    BY DEF Disk, LogsNewer
  <2>2. ReadLog(lg1[n]) \subseteq ReadLog(lg[n])
    BY <1>1
  <2>3. Below(T, ReadLog(lg[n])) => Below(T, ReadLog(lg1[n]))
    BY <2>2 DEF Below
  <2> QED BY <2>1, <2>2, <2>3
<1>6. LogsOrdered(K, lg1)
  <2> SUFFICES ASSUME NEW n \in K, NEW k \in K, n < k
               PROVE  Below(ReadLog(lg1[n]), ReadLog(lg1[k]))
    BY DEF LogsOrdered
  <2>1. Below(ReadLog(lg[n]), ReadLog(lg[k]))
    BY DEF Disk, LogsOrdered
  <2> QED BY <2>1, <1>1 DEF Below
<1>7. Unique(T \cup LogEnts(K, lg1))
  <2>1. Unique(T \cup LogEnts(K, lg))
    BY DEF Disk
  <2> QED BY <2>1, <1>2 DEF Unique
\* A record that is lost has nothing in common with the tables.
<1>8. ASSUME NEW g \in gr, g.entries \in lost
      PROVE  g.entries \subseteq LogEnts(K, lg) /\ \A e \in g.entries : e \notin T
  <2>1. PICK n \in K : g.entries \in Range(lg[n]) \ Range(lg1[n])
    BY <1>8
  <2>2. g.entries # Torn /\ ~(g.entries \subseteq T)
    BY <1>8, GroupFields
  <2>3. PICK i \in DOMAIN lg[n] : lg[n][i] = g.entries
    BY <2>1 DEF Range
  <2>4. g.entries \subseteq ReadLog(lg[n]) /\ g.entries \subseteq LogEnts(K, lg)
    BY <2>2, <2>3, InLogEnts
  <2>5. Below(T, ReadLog(lg[n]))
    BY <2>2, <2>4 DEF Disk, LogsNewer
  <2>6. ASSUME NEW e \in g.entries, e \in T PROVE FALSE
    <3>1. e.seq < e.seq
      BY <2>4, <2>5, <2>6 DEF Below
    <3> QED BY <3>1, <2>6, <1>4
  <2> QED BY <2>4, <2>6
<1>9. DeletionsKnown(T, gr1)
  <2> SUFFICES ASSUME NEW e \in T, e.del PROVE \E g \in gr1 : e \in g.entries
    BY DEF DeletionsKnown
  <2>1. PICK g \in gr : e \in g.entries
    BY DEF Disk, DeletionsKnown
  <2>2. g \in gr1
    BY <2>1, <1>8
  <2> QED BY <2>1, <2>2
<1>10. RecordsKnown(T, K, lg1, gr1)
  <2> SUFFICES ASSUME NEW n \in K, NEW i \in DOMAIN lg1[n], lg1[n][i] # Torn,
                      ~(lg1[n][i] \subseteq T)
               PROVE  \E g \in gr1 : g.entries = lg1[n][i]
    BY DEF RecordsKnown
  <2>1. i \in DOMAIN lg[n] /\ lg1[n][i] = lg[n][i]
    OBVIOUS
  <2>2. PICK g \in gr : g.entries = lg[n][i]
    BY <2>1 DEF Disk, RecordsKnown
  <2>3. ASSUME g.entries \in lost PROVE FALSE
    <3>1. PICK k \in K : g.entries \in Range(lg[k]) \ Range(lg1[k])
      BY <2>3
    <3>2. k # n
      BY <2>1, <2>2, <3>1 DEF Range
    <3>3. PICK j \in DOMAIN lg[k] : lg[k][j] = g.entries
      BY <3>1 DEF Range
    <3>4. g.entries \subseteq ReadLog(lg[n]) /\ g.entries \subseteq ReadLog(lg[k])
      BY <2>1, <2>2, <3>3, InLogEnts
    <3>5. PICK e \in g.entries : e \notin T
      BY <2>1, <2>2
    <3>6. e.seq \in Nat
      BY GroupFields, EntryFields
    <3>7. n < k \/ k < n
      BY <3>2
    <3>8. e.seq < e.seq
      BY <3>4, <3>5, <3>7 DEF Disk, LogsOrdered, Below
    <3> QED BY <3>6, <3>8
  <2> QED BY <2>1, <2>2, <2>3
<1>11. ASSUME NEW e, Old(T, L, seq, gr, e) PROVE Old(T, L1, seq, gr1, e)
  <2>1. CASE \E f \in T : f.key = e.key /\ f.seq >= e.seq
    BY <2>1 DEF Old
  <2>2. CASE ~(\E f \in T : f.key = e.key /\ f.seq >= e.seq)
    <3>1. PICK g \in gr : \E d \in g.entries :
            /\ d.del /\ d.key = e.key /\ d.seq >= e.seq /\ d.seq <= seq
            /\ \A f \in L : f \in T \/ f.seq > d.seq
      BY <1>11, <2>2 DEF Old
    <3>2. PICK d \in g.entries :
            /\ d.del /\ d.key = e.key /\ d.seq >= e.seq /\ d.seq <= seq
            /\ \A f \in L : f \in T \/ f.seq > d.seq
      BY <3>1
    <3>3. d.seq \in Nat
      BY <3>1, <3>2, GroupFields, EntryFields
    <3>4. \A f \in T : f.key # e.key
      BY <1>11, <2>2 DEF Old
    <3>5. g \in gr1
      <4>1. SUFFICES ASSUME g.entries \in lost PROVE FALSE
        BY <3>1
      <4>2. d \in L /\ d \notin T
        BY <4>1, <1>8
      <4>3. d.seq > d.seq
        BY <4>2, <3>2
      <4> QED BY <4>3, <3>3
    <3> QED BY <3>2, <3>4, <3>5, <1>3 DEF Old
  <2> QED BY <2>1, <2>2
<1>12. GroupsSafe(T, K, lg1, L1, seq, gr1)
  <2> SUFFICES ASSUME NEW g \in gr1, g.whole
               PROVE  \/ \E n \in K : \E i \in DOMAIN lg1[n] : lg1[n][i] = g.entries
                      \/ \A e \in g.entries : Old(T, L1, seq, gr1, e)
    BY DEF GroupsSafe
  <2>1. g \in gr /\ g.entries \notin lost /\ g.entries \subseteq Entry
    BY GroupFields
  <2>2. CASE \E n \in K : \E i \in DOMAIN lg[n] : lg[n][i] = g.entries
    <3>1. PICK n \in K : \E i \in DOMAIN lg[n] : lg[n][i] = g.entries
      BY <2>2
    <3>2. g.entries \in Range(lg[n])
      BY <3>1 DEF Range
    <3>3. CASE g.entries \in Range(lg1[n])
      BY <3>3 DEF Range
    <3>4. CASE g.entries \subseteq T
      <4>1. \A e \in g.entries : e \in T /\ e.seq <= e.seq
        BY <3>4, <1>4
      <4> QED BY <4>1 DEF Old
    <3> QED BY <2>1, <3>2, <3>3, <3>4
  <2>3. CASE \A e \in g.entries : Old(T, L, seq, gr, e)
    BY <2>3, <1>11
  <2> QED BY <2>1, <2>2, <2>3 DEF Disk, GroupsSafe
<1>13. SyncedSafe(T, K, lg1, sy1, L1, seq, gr1)
  <2> SUFFICES ASSUME NEW g \in gr1, g.whole, g.acked, g.sync
               PROVE  \/ \E n \in K : \E i \in 1 .. sy1[n] : lg1[n][i] = g.entries
                      \/ \A e \in g.entries : Old(T, L1, seq, gr1, e)
    BY DEF SyncedSafe
  <2>1. CASE \E n \in K : \E i \in 1 .. sy[n] : lg[n][i] = g.entries
    <3>1. PICK n \in K : \E i \in 1 .. sy[n] : lg[n][i] = g.entries
      BY <2>1
    <3>2. PICK i \in 1 .. sy[n] : lg[n][i] = g.entries
      BY <3>1
    <3>3. lg1[n] \in Seq(Record) /\ sy1[n] = Len(lg1[n])
      OBVIOUS
    <3>4. i \in DOMAIN lg1[n] /\ lg1[n][i] = g.entries
      BY <3>2
    <3>5. i \in 1 .. sy1[n]
      BY <3>3, <3>4
    <3> QED BY <3>4, <3>5
  <2>2. CASE \A e \in g.entries : Old(T, L, seq, gr, e)
    BY <2>2, <1>11
  <2> QED BY <2>1, <2>2 DEF Disk, SyncedSafe
<1> QED BY <1>4, <1>5, <1>6, <1>7, <1>9, <1>10, <1>12, <1>13 DEF Disk, L1

-----------------------------------------------------------------------------
(* The entries of a group *)

\* f joins the first n of some sequences, one after the other.
IsFlatten(f, seqs, n) == f = [i \in 1 .. n |-> IF i = 1 THEN seqs[i] ELSE f[i - 1] \o seqs[i]]

LEMMA FlattenExists ==
  ASSUME NEW seqs
  PROVE  \A n \in Nat : \E f : IsFlatten(f, seqs, n)
<1> DEFINE T == {n \in Nat : \E f : IsFlatten(f, seqs, n)}
<1>1. 0 \in T
  <2> DEFINE f == [i \in 1 .. 0 |-> 0]
  <2>1. f = [i \in 1 .. 0 |-> IF i = 1 THEN seqs[i] ELSE f[i - 1] \o seqs[i]]
    OBVIOUS
  <2> QED BY <2>1 DEF IsFlatten
<1>2. ASSUME NEW n \in T PROVE n + 1 \in T
  <2>1. PICK s : IsFlatten(s, seqs, n)
    OBVIOUS
  <2>2. n \in Nat
    OBVIOUS
  <2> DEFINE last == IF n = 0 THEN seqs[n + 1] ELSE s[n] \o seqs[n + 1]
             u == [i \in 1 .. n + 1 |-> IF i = n + 1 THEN last ELSE s[i]]
  <2>3. \A i \in 1 .. n : s[i] = IF i = 1 THEN seqs[i] ELSE s[i - 1] \o seqs[i]
    BY <2>1, Zenon DEF IsFlatten
  <2>4. ASSUME NEW i \in 1 .. n + 1
        PROVE  u[i] = IF i = 1 THEN seqs[i] ELSE u[i - 1] \o seqs[i]
    <3>1. CASE i = n + 1 /\ n = 0
      <4>1. u[i] = last /\ i = 1
        BY <3>1
      <4> QED BY <3>1, <4>1
    <3>2. CASE i = n + 1 /\ n # 0
      <4>1. i - 1 = n /\ n \in 1 .. n + 1 /\ n # n + 1 /\ i # 1
        BY <2>2, <3>2
      <4>2. u[n] = s[n] /\ u[i] = last
        BY <3>2, <4>1
      <4> QED BY <3>2, <4>1, <4>2
    <3>3. CASE i # n + 1 /\ i = 1
      <4>1. i \in 1 .. n
        BY <2>2, <3>3
      <4> QED BY <3>3, <4>1, <2>3
    <3>4. CASE i # n + 1 /\ i # 1
      <4>1. i \in 1 .. n /\ i - 1 \in 1 .. n + 1 /\ i - 1 # n + 1
        BY <2>2, <3>4
      <4>2. u[i] = s[i] /\ u[i - 1] = s[i - 1]
        BY <3>4, <4>1
      <4>3. s[i] = s[i - 1] \o seqs[i]
        BY <3>4, <4>1, <2>3
      <4> QED BY <3>4, <4>2, <4>3
    <3> QED BY <3>1, <3>2, <3>3, <3>4
  <2>5. u = [i \in 1 .. n + 1 |-> u[i]]
    OBVIOUS
  <2> HIDE DEF u
  <2>6. IsFlatten(u, seqs, n + 1)
    BY <2>4, <2>5, Zenon DEF IsFlatten
  <2> QED BY <2>2, <2>6
<1>3. T \in SUBSET Nat
  OBVIOUS
<1> HIDE DEF T
<1>4. T = Nat
  BY <1>1, <1>2, <1>3, SetInduction
<1> QED BY <1>4 DEF T

LEMMA FlattenType ==
  ASSUME NEW S, NEW N \in Nat \ {0}, NEW seqs, Len(seqs) = N, \A i \in 1 .. N : seqs[i] \in Seq(S)
  PROVE  FlattenSeq(seqs) \in Seq(S)
<1> DEFINE f == CHOOSE g : IsFlatten(g, seqs, N)
<1>1. IsFlatten(f, seqs, N)
  BY FlattenExists
<1>2. FlattenSeq(seqs) = f[N]
  BY Zenon DEF FlattenSeq, IsFlatten
<1> HIDE DEF f
<1>3. \A i \in 1 .. N : f[i] = IF i = 1 THEN seqs[i] ELSE f[i - 1] \o seqs[i]
  BY <1>1, Zenon DEF IsFlatten
<1> DEFINE T == {n \in Nat : n \in 1 .. N => f[n] \in Seq(S)}
<1>4. 0 \in T
  OBVIOUS
<1>5. ASSUME NEW n \in T PROVE n + 1 \in T
  <2> SUFFICES ASSUME n + 1 \in 1 .. N PROVE f[n + 1] \in Seq(S)
    OBVIOUS
  <2>1. CASE n = 0
    <3>1. f[1] = seqs[1]
      BY <2>1, <1>3
    <3> QED BY <2>1, <3>1
  <2>2. CASE n # 0
    <3>1. n \in 1 .. N /\ n + 1 # 1 /\ n + 1 - 1 = n
      BY <2>2
    <3>2. f[n] \in Seq(S) /\ seqs[n + 1] \in Seq(S)
      BY <3>1
    <3>3. f[n + 1] = f[n] \o seqs[n + 1]
      <4>1. PICK i \in 1 .. N : i = n + 1
        OBVIOUS
      <4>2. i # 1 /\ i - 1 = n
        BY <3>1, <4>1
      <4>3. f[i] = f[i - 1] \o seqs[i]
        BY <4>2, <1>3, Zenon
      <4> QED BY <4>1, <4>2, <4>3, Zenon
    <3> QED BY <3>2, <3>3
  <2> QED BY <2>1, <2>2
<1>6. T \in SUBSET Nat
  OBVIOUS
<1> HIDE DEF T
<1>7. T = Nat
  BY <1>4, <1>5, <1>6, SetInduction
<1>8. f[N] \in Seq(S)
  BY <1>7 DEF T
<1> QED BY <1>2, <1>8

\* Operations that are numbered from lastSeq on.
Numbered(ops, seq) == {[key |-> ops[i].key, seq |-> seq + i, del |-> ops[i].del] : i \in DOMAIN ops}

LEMMA NumberedProperties ==
  ASSUME NEW ops \in Seq(Op), NEW seq \in Nat
  PROVE  LET S == Numbered(ops, seq) IN
         /\ S \subseteq Entry /\ IsFiniteSet(S) /\ Unique(S)
         /\ \A e \in S : seq < e.seq /\ e.seq <= seq + Cardinality(S)
<1> DEFINE S == Numbered(ops, seq)
           f == [i \in 1 .. Len(ops) |-> [key |-> ops[i].key, seq |-> seq + i, del |-> ops[i].del]]
<1>1. Len(ops) \in Nat /\ DOMAIN ops = 1 .. Len(ops) /\ \A i \in 1 .. Len(ops) : ops[i] \in Op
  OBVIOUS
<1>2. \A i \in 1 .. Len(ops) : /\ f[i] \in Entry /\ f[i].seq = seq + i /\ f[i].key = ops[i].key
                               /\ f[i].del = ops[i].del
  BY <1>1 DEF Op, Entry
<1>3. S = {f[i] : i \in 1 .. Len(ops)}
  BY <1>1 DEF Numbered
<1> HIDE DEF S, f
<1>4. \A e \in S : \E i \in 1 .. Len(ops) : e = f[i] /\ e.seq = seq + i /\ e \in Entry
  BY <1>2, <1>3
<1>5. Unique(S)
  <2> SUFFICES ASSUME NEW e \in S, NEW h \in S, e.seq = h.seq PROVE e = h
    BY DEF Unique
  <2>1. PICK i \in 1 .. Len(ops) : e = f[i] /\ e.seq = seq + i
    BY <1>4
  <2>2. PICK j \in 1 .. Len(ops) : h = f[j] /\ h.seq = seq + j
    BY <1>4
  <2>3. i = j
    BY <2>1, <2>2, <1>1
  <2> QED BY <2>1, <2>2, <2>3
<1>6. f \in [1 .. Len(ops) -> S] /\ DOMAIN f = 1 .. Len(ops)
  BY <1>3 DEF f
<1>7. f \in Bijection(1 .. Len(ops), S)
  <2>1. \A i, j \in 1 .. Len(ops) : f[i] = f[j] => i = j
    <3> TAKE i, j \in 1 .. Len(ops)
    <3> HAVE f[i] = f[j]
    <3>1. seq + i = seq + j
      BY <1>2
    <3> QED BY <3>1, <1>1
  <2>2. \A t \in S : \E i \in 1 .. Len(ops) : f[i] = t
    BY <1>3
  <2> QED BY <2>1, <2>2, <1>6 DEF Bijection, Injection, Surjection, IsInjective
<1>8. IsFiniteSet(1 .. Len(ops)) /\ Cardinality(1 .. Len(ops)) = Len(ops)
  <2>1. 1 \in Int /\ Len(ops) \in Int
    BY <1>1
  <2>2. /\ IsFiniteSet(1 .. Len(ops))
        /\ Cardinality(1 .. Len(ops)) = IF 1 > Len(ops) THEN 0 ELSE Len(ops) - 1 + 1
    BY <2>1, FS_Interval
  <2> QED BY <2>2, <1>1
<1>9. IsFiniteSet(S) /\ Cardinality(S) = Len(ops)
  BY <1>7, <1>8, FS_Bijection DEF ExistsBijection
<1>10. \A e \in S : seq < e.seq /\ e.seq <= seq + Cardinality(S) /\ e \in Entry
  <2> TAKE e \in S
  <2>1. PICK i \in 1 .. Len(ops) : e = f[i] /\ e.seq = seq + i /\ e \in Entry
    BY <1>4
  <2> QED BY <2>1, <1>1, <1>9
<1> QED BY <1>5, <1>9, <1>10 DEF S

-----------------------------------------------------------------------------
(* The state *)

Inv == Types /\ Semantic /\ ReadsSnapshot

\* What readers that start now find.
All == mems[logNo] \cup Imm \cup Tab

LEMMA LastEdit ==
  ASSUME NEW m, NEW n, NEW tb, Usable(m, n, tb)
  PROVE  /\ m \in Seq(Edits) /\ m # << >> /\ Last(m) \in Edits
         /\ Last(m).log \in Nat /\ Last(m).next \in Nat /\ Last(m).seq \in Nat
<1>1. m \in Seq(Edits) /\ m # << >>
  BY DEF Usable
<1>2. Len(m) \in 1 .. Len(m)
  BY <1>1
<1>3. Last(m) \in Edits
  BY <1>1, <1>2 DEF Last
<1> QED BY <1>1, <1>3 DEF Edits

LEMMA EntsType ==
  ASSUME TableTypes, NEW fs
  PROVE  Ents(tables, fs) \subseteq Entry /\ TableEntries(fs) = Ents(tables, fs)
  BY DEF TableTypes, Ents, TableEntries

LEMMA MemEntsType ==
  ASSUME MemTypes
  PROVE  MemEnts \subseteq Entry
  BY DEF MemTypes, MemEnts

LEMMA KeptTypes ==
  ASSUME LogTypes, NEW m
  PROVE  /\ KeptLogs(m, logs) \subseteq Nat /\ LogEnts(KeptLogs(m, logs), logs) \subseteq Entry
         /\ \A n \in KeptLogs(m, logs) : n \in DOMAIN logs
<1>1. \A n \in KeptLogs(m, logs) : n \in DOMAIN logs /\ n \in Nat /\ logs[n] \in Seq(Record)
  BY DEF KeptLogs, LogTypes
<1>2. \A e \in LogEnts(KeptLogs(m, logs), logs) : e \in Entry
  <2> TAKE e \in LogEnts(KeptLogs(m, logs), logs)
  <2>1. PICK n \in KeptLogs(m, logs) : e \in ReadLog(logs[n])
    BY LogEntsMember
  <2> QED BY <2>1, <1>1, ReadLogType
<1> QED BY <1>1, <1>2

\* Disk is about what it should be about.
LEMMA DiskTyped ==
  ASSUME LogTypes, TableTypes, MemTypes, NEW m, NEW n, NEW tb, Usable(m, n, tb)
  PROVE  DiskTypes(Ents(tables, Ver(m)), KeptLogs(m, logs), logs, synced,
                   LogEnts(KeptLogs(m, logs), logs) \cup MemEnts, Last(m).seq, groups)
<1>1. Last(m).seq \in Nat
  BY LastEdit
<1>2. Ents(tables, Ver(m)) \subseteq Entry /\ MemEnts \subseteq Entry
  BY EntsType, MemEntsType
<1>3. /\ KeptLogs(m, logs) \subseteq Nat /\ LogEnts(KeptLogs(m, logs), logs) \subseteq Entry
      /\ \A k \in KeptLogs(m, logs) : k \in DOMAIN logs
  BY KeptTypes
<1>4. \A k \in KeptLogs(m, logs) : logs[k] \in Seq(Record) /\ synced[k] \in 0 .. Len(logs[k])
  BY <1>3 DEF LogTypes
<1>5. groups \subseteq Group
  BY DEF LogTypes
<1> HIDE DEF Usable
<1> QED BY <1>1, <1>2, <1>3, <1>4, <1>5 DEF DiskTypes

\* Only the writer in front can be the leader of a group.
LEMMA OneLeader ==
  ASSUME Leaders, NEW c \in Clients, AtFront(c), NEW pcs \in SUBSET Leading
  PROVE  InFlight(pcs) = IF call[c].pc \in pcs THEN call[c].group ELSE {}
<1>1. \A d \in Clients : call[d].pc \in pcs => d = c
  BY DEF Leaders, AtFront
<1> QED BY <1>1 DEF InFlight

\* What a lookup through the memtables and the tables finds is the newest
\* entry of all.
LEMMA ViewAll ==
  ASSUME Types, Numbers, Layered, Ready, NEW snap \in Nat
  PROVE  /\ All \subseteq Entry /\ Unique(All) /\ View(snap) = Vis(All, snap)
<1>1. mems[logNo] \in SUBSET Entry /\ Imm \in SUBSET Entry /\ Tab \in SUBSET Entry
  BY EntsType DEF Types, Numbers, MemTypes, Imm, Tab
<1>2. Below(Tab, Imm) /\ Below(Tab, mems[logNo]) /\ Below(Imm, mems[logNo])
  BY DEF Layered
<1>3. Unique(All)
  <2>1. Unique(Tab \cup Imm \cup mems[logNo] \cup Log)
    BY DEF Layered
  <2> QED BY <2>1 DEF Unique, All
<1>4. ASSUME NEW k \in Keys PROVE Lookup(logNo, immNo, DOMAIN files, k, snap) = Newest(All, k, snap)
  <2> DEFINE M == mems[logNo]
  <2>1. Newest(Imm \cup Tab, k, snap) =
          IF Newest(Imm, k, snap) # NoEntry THEN Newest(Imm, k, snap) ELSE Newest(Tab, k, snap)
    BY <1>1, <1>2, NewestFirst
  <2>2. Below(Imm \cup Tab, M)
    BY <1>2 DEF Below
  <2>3. Newest(M \cup (Imm \cup Tab), k, snap) =
          IF Newest(M, k, snap) # NoEntry THEN Newest(M, k, snap) ELSE Newest(Imm \cup Tab, k, snap)
    BY <1>1, <2>2, NewestFirst
  <2>4. All = M \cup (Imm \cup Tab)
    BY DEF All
  <2>5. TableEntries(DOMAIN files) = Tab
    BY EntsType DEF Types, Tab
  <2>6. (IF immNo = 0 THEN NoEntry ELSE Newest(mems[immNo], k, snap)) = Newest(Imm, k, snap)
    <3>1. CASE immNo = 0
      <4>1. Seen({}, k, snap) = {} /\ Imm = {}
        BY <3>1 DEF Seen, Imm
      <4>2. Newest({}, k, snap) = NoEntry
        BY <4>1, NewestSeen
      <4> QED BY <3>1, <4>1, <4>2
    <3>2. CASE immNo # 0
      BY <3>2 DEF Imm
    <3> QED BY <3>1, <3>2
  <2>7. Lookup(logNo, immNo, DOMAIN files, k, snap) =
          IF Newest(M, k, snap) # NoEntry THEN Newest(M, k, snap)
          ELSE IF Newest(Imm, k, snap) # NoEntry THEN Newest(Imm, k, snap)
          ELSE Newest(Tab, k, snap)
    BY <2>5, <2>6, Zenon DEF Lookup
  <2> QED BY <2>1, <2>3, <2>4, <2>7
<1>5. View(snap) = Vis(All, snap)
  BY <1>4 DEF View, Shown, Vis
<1>6. All \subseteq Entry
  BY <1>1 DEF All
<1> QED BY <1>3, <1>5, <1>6

\* A reader is shown the same as before if nothing that it can see changed.
LEMMA ShownSame ==
  ASSUME NEW mem, NEW imm, NEW fs, NEW snap,
         \A k \in Keys : Newest(mems'[mem], k, snap) = Newest(mems[mem], k, snap),
         imm # 0 => \A k \in Keys : Newest(mems'[imm], k, snap) = Newest(mems[imm], k, snap),
         Ents(tables', fs) = Ents(tables, fs)
  PROVE  Shown(mem, imm, fs, snap)' = Shown(mem, imm, fs, snap)
<1>1. TableEntries(fs)' = TableEntries(fs)
  BY DEF Ents, TableEntries
<1>2. ASSUME NEW k \in Keys PROVE Lookup(mem, imm, fs, k, snap)' = Lookup(mem, imm, fs, k, snap)
  <2>1. Newest(mems'[mem], k, snap) = Newest(mems[mem], k, snap)
    OBVIOUS
  <2>2. imm # 0 => Newest(mems'[imm], k, snap) = Newest(mems[imm], k, snap)
    OBVIOUS
  <2>3. Newest(TableEntries(fs)', k, snap) = Newest(TableEntries(fs), k, snap)
    BY <1>1
  <2> QED BY <2>1, <2>2, <2>3 DEF Lookup
<1> QED BY <1>2 DEF Shown

-----------------------------------------------------------------------------
(* What a step leaves alone *)

LEMMA SameDisk ==
  ASSUME DiskInv,
         UNCHANGED <<phase, CURRENT, manifests, tables, logs, synced, groups, mems, logNo, immNo>>
  PROVE  DiskInv'
  BY DEF DiskInv, DiskOf, MemEnts

LEMMA SameTypes ==
  ASSUME Types
  PROVE  /\ UNCHANGED <<logs, synced, groups>> => LogTypes'
         /\ UNCHANGED tables => TableTypes'
         /\ UNCHANGED mems => MemTypes'
         /\ UNCHANGED <<phase, CURRENT, logNo, immNo, logNumber, nextFile, lastSeq, manifestNo,
                        descriptorOpen, bgError, files, job, comp>> => NumberTypes'
         /\ UNCHANGED <<writers, call>> => CallTypes'
         /\ UNCHANGED <<reader, snapshot>> => ReaderTypes'
<1>1. UNCHANGED <<logs, synced, groups>> => LogTypes'
  BY DEF Types, LogTypes
<1>2. UNCHANGED tables => TableTypes'
  BY DEF Types, TableTypes
<1>3. UNCHANGED mems => MemTypes'
  BY DEF Types, MemTypes
<1>4. UNCHANGED <<phase, CURRENT, logNo, immNo, logNumber, nextFile, lastSeq, manifestNo,
                  descriptorOpen, bgError, files, job, comp>> => NumberTypes'
  BY DEF Types, NumberTypes
<1>5. UNCHANGED <<writers, call>> => CallTypes'
  BY DEF Types, CallTypes
<1>6. UNCHANGED <<reader, snapshot>> => ReaderTypes'
  BY DEF Types, ReaderTypes
<1> QED BY <1>1, <1>2, <1>3, <1>4, <1>5, <1>6

\* In the phase "open" some parts say nothing.
LEMMA OnlyWhenOpen ==
  ASSUME phase' = "open"
  PROVE  Quiet' /\ ReplayInv' /\ NewVersion'
  BY DEF Quiet, ReplayInv, NewVersion

LEMMA SameNumbers ==
  ASSUME Numbers, OtherLogs,
         UNCHANGED <<phase, logs, mems, logNo, immNo, logNumber, nextFile, files, tables, manifestNo>>
  PROVE  Numbers' /\ OtherLogs'
<1>1. Numbers'
  BY DEF Numbers, Ready
<1>2. OtherLogs'
  BY DEF OtherLogs, Ready
<1> QED BY <1>1, <1>2

LEMMA SameLayers ==
  ASSUME Layered, LogsMatch,
         UNCHANGED <<phase, tables, files, mems, logNo, immNo, lastSeq, logs, groups>>,
         bgError => bgError', InFlight({"insert", "syncError"})' = InFlight({"insert", "syncError"}),
         Pending' = Pending
  PROVE  Layered' /\ LogsMatch'
<1>1. UNCHANGED <<Tab, Imm, Log>> /\ Ready' = Ready
  BY DEF Tab, Imm, Log, Ready
<1>2. Layered'
  BY <1>1 DEF Layered
<1>3. LogsMatch'
  BY <1>1 DEF LogsMatch
<1> QED BY <1>2, <1>3

LEMMA SameWriters ==
  ASSUME Leaders, UNCHANGED <<phase, writers, call, lastSeq, groups, logs, synced, logNo>>
  PROVE  /\ Leaders' /\ Pending' = Pending
         /\ InFlight({"insert", "syncError"})' = InFlight({"insert", "syncError"})
  BY DEF Leaders, Pending, InFlight

LEMMA SameVersion ==
  ASSUME Types, Semantic, phase = "open",
         UNCHANGED <<phase, manifests, CURRENT, manifestNo, files, tables, logNumber, logNo, immNo>>,
         Imm' = Imm, bg' = bg, bgError => bgError', nextFile' \in Nat, nextFile <= nextFile', lastSeq' \in Nat,
         lastSeq <= lastSeq', bgError \in BOOLEAN
  PROVE  OpenVersion'
<1>1. Usable(manifests[CURRENT], CURRENT, tables)
  BY DEF Semantic, DiskInv, OpenVersion
<1>2. Last(manifests[CURRENT]).next \in Nat /\ Last(manifests[CURRENT]).seq \in Nat
  BY <1>1, LastEdit
<1>3. UNCHANGED <<Tab, Imm>> /\ TM(manifests[CURRENT])' = TM(manifests[CURRENT])
  BY DEF Tab, TM
<1>4. nextFile \in Nat /\ lastSeq \in Nat
  BY DEF Types, NumberTypes
<1>5. OpenVersion
  BY DEF Semantic
<1> QED BY <1>2, <1>3, <1>4, <1>5 DEF OpenVersion

LEMMA SameJobs ==
  ASSUME Types, Semantic, phase = "open",
         UNCHANGED <<phase, manifests, CURRENT, manifestNo, files, tables, logNumber, logNo, immNo,
                     nextFile, bg, job, comp, pending, garbage, reader, snapshot>>,
         Imm' = Imm, immNo # 0 => mems'[immNo] = mems[immNo],
         lastSeq' \in Nat, lastSeq <= lastSeq'
  PROVE  Compacting' /\ Jobs' /\ Garbage'
<1>1. lastSeq \in Nat /\ \A c \in comp : c.smallest \in Nat
  BY DEF Types, NumberTypes
<1>2. \A r \in Readers : snapshot[r].seq \in Nat /\ reader[r].at \in Nat
  BY DEF Types, ReaderTypes
<1>3. \A n : Unused(n)' <=> Unused(n)
  BY DEF Unused
<1>4. \A edit, out : EditFor(edit, out) => EditFor(edit, out)'
  BY <1>1 DEF EditFor, Edits
<1>5. Compacting'
  BY <1>1, <1>3 DEF Semantic, Compacting
<1>6. Jobs'
  BY <1>3, <1>4 DEF Semantic, Jobs, Flushing
<1>7. Garbage'
  BY DEF Semantic, Garbage
<1> QED BY <1>5, <1>6, <1>7

LEMMA SameReading ==
  ASSUME Types, Reading, UNCHANGED <<reader, snapshot, logNo>>,
         lastSeq' \in Nat, lastSeq <= lastSeq', nextFile' \in Nat, nextFile <= nextFile',
         DOMAIN mems \subseteq DOMAIN mems',
         \A r \in Readers : reader[r].on => reader[r].files \subseteq DOMAIN tables'
  PROVE  Reading'
<1>1. lastSeq \in Nat /\ nextFile \in Nat
  BY DEF Types, NumberTypes
<1>2. \A r \in Readers : /\ snapshot[r].seq \in Nat /\ reader[r].at \in Nat
                         /\ \A f \in reader[r].files : f \in Nat
  BY DEF Types, ReaderTypes
<1> QED BY <1>1, <1>2 DEF Reading

\* Readers and snapshots still see what they saw.
LEMMA SameReads ==
  ASSUME Types, Reading, ReadsSnapshot, phase = "open",
         UNCHANGED <<reader, snapshot, phase>>,
         \A r \in Readers : reader[r].on =>
            Shown(reader[r].mem, reader[r].imm, reader[r].files, reader[r].at)' =
            Shown(reader[r].mem, reader[r].imm, reader[r].files, reader[r].at),
         \A r \in Readers : snapshot[r].seq # 0 => View(snapshot[r].seq)' = View(snapshot[r].seq)
  PROVE  ReadsSnapshot'
  BY DEF ReadsSnapshot

LEMMA SameShown ==
  ASSUME UNCHANGED <<reader, snapshot, mems, tables, logNo, immNo, files>>
  PROVE  /\ \A r \in Readers :
              Shown(reader[r].mem, reader[r].imm, reader[r].files, reader[r].at)' =
              Shown(reader[r].mem, reader[r].imm, reader[r].files, reader[r].at)
         /\ \A r \in Readers : View(snapshot[r].seq)' = View(snapshot[r].seq)
  BY DEF Shown, View, Lookup, TableEntries

\* A step of a writer that is not about the database.
LEMMA SameStore ==
  ASSUME Inv, phase = "open", UNCHANGED <<disk, phase, memory, versions, background, bgError, todo,
                                          reader, snapshot, groups>>,
         CallTypes', Leaders', Pending' = Pending,
         InFlight({"insert", "syncError"})' = InFlight({"insert", "syncError"})
  PROVE  Inv'
<1> USE DEF disk, memory, versions, background
<1>1. Types /\ Semantic /\ ReadsSnapshot
  BY DEF Inv
<1>2. lastSeq' \in Nat /\ lastSeq <= lastSeq' /\ nextFile' \in Nat /\ nextFile <= nextFile'
      /\ bgError \in BOOLEAN
  BY <1>1 DEF Types, NumberTypes
<1>3. Types'
  BY <1>1, SameTypes DEF Types
<1>4. DiskInv' /\ Quiet' /\ ReplayInv' /\ NewVersion'
  BY <1>1, SameDisk, OnlyWhenOpen DEF Semantic
<1>5. Numbers' /\ OtherLogs'
  BY <1>1, SameNumbers DEF Semantic
<1>6. Layered' /\ LogsMatch'
  BY <1>1, SameLayers DEF Semantic
<1>7. OpenVersion'
  <2>1. Imm' = Imm
    BY DEF Imm
  <2> QED BY <2>1, <1>1, <1>2, SameVersion
<1>8. Compacting' /\ Jobs' /\ Garbage'
  <2>1. Imm' = Imm
    BY DEF Imm
  <2> QED BY <2>1, <1>1, <1>2, SameJobs
<1>9. Reading'
  <2>1. \A r \in Readers : reader[r].on => reader[r].files \subseteq DOMAIN tables'
    BY <1>1 DEF Semantic, Reading
  <2> QED BY <2>1, <1>1, <1>2, SameReading DEF Semantic
<1>10. ReadsSnapshot'
  <2>1. Reading
    BY <1>1 DEF Semantic
  <2> QED BY <2>1, <1>1, SameShown, SameReads
<1> QED BY <1>3, <1>4, <1>5, <1>6, <1>7, <1>8, <1>9, <1>10 DEF Inv, Semantic

-----------------------------------------------------------------------------
(* Write *)

LEMMA SameInFlight ==
  ASSUME \A d \in Clients : call[d].pc \in {"insert", "publish", "syncError"} \/
                            call'[d].pc \in {"insert", "publish", "syncError"} => call'[d] = call[d]
  PROVE  /\ Pending' = Pending
         /\ InFlight({"insert", "syncError"})' = InFlight({"insert", "syncError"})
  BY DEF InFlight, Pending

LEMMA WriteKeeps ==
  ASSUME Inv, NEW c \in Clients, Write(c)
  PROVE  Inv'
<1> USE DEF disk, memory, versions, background
<1>1. Types /\ Semantic /\ CallTypes /\ Leaders
  BY DEF Inv, Types, Semantic
<1>2. PICK q \in Requests[c] : call' = [call EXCEPT ![c] =
          [pc |-> "queued", batch |-> q.batch, sync |-> q.sync, group |-> {}, ok |-> TRUE]]
  BY DEF Write
<1>3. /\ phase = "open" /\ call[c].pc = "idle" /\ writers' = Append(writers, c)
      /\ UNCHANGED <<disk, phase, memory, versions, background, bgError, todo, reader, snapshot,
                     groups>>
  BY DEF Write
<1>4. writers \in Seq(Clients) /\ call \in [Clients -> Writer]
  BY <1>1 DEF CallTypes
<1>5. q.batch \in Seq(Op) /\ q.sync \in BOOLEAN
  BY DBConstants DEF Op
<1>6. CallTypes'
  <2>1. [pc |-> "queued", batch |-> q.batch, sync |-> q.sync, group |-> {}, ok |-> TRUE] \in Writer
    BY <1>5 DEF Writer
  <2> QED BY <2>1, <1>2, <1>3, <1>4 DEF CallTypes
<1>7. call'[c].pc = "queued" /\ \A d \in Clients : d # c => call'[d] = call[d]
  BY <1>2, <1>4
<1>8. Leaders'
  <2>1. \A d \in Clients : call'[d].pc \in Leading => d # c
    BY <1>7 DEF Leading
  <2>2. writers # <<>> => writers' # <<>> /\ Head(writers') = Head(writers)
    BY <1>3, <1>4
  <2> QED BY <2>1, <2>2, <1>1, <1>3, <1>7 DEF Leaders
<1>9. /\ Pending' = Pending
      /\ InFlight({"insert", "syncError"})' = InFlight({"insert", "syncError"})
  BY <1>3, <1>7, SameInFlight
<1> QED BY <1>3, <1>6, <1>8, <1>9, SameStore

\* The front writers go: none of those that are left is the leader.
LEMMA LeaveKeeps ==
  ASSUME CallTypes, Leaders, NEW c \in Clients, AtFront(c), NEW n \in Nat \ {0}, Leave(n)
  PROVE  CallTypes' /\ (\A d \in Clients : call'[d].pc \notin Leading) /\ Leaders'
<1>1. writers \in Seq(Clients) /\ call \in [Clients -> Writer] /\ writers # << >>
  BY DEF CallTypes, AtFront
<1>2. Len(writers) \in Nat /\ Len(writers) >= 1 /\ Head(writers) = writers[1] /\ writers[1] = c
  BY <1>1 DEF AtFront
<1>3. writers' \in Seq(Clients)
  <2>1. \A i \in n + 1 .. Len(writers) : writers[i] \in Clients
    BY <1>1, <1>2
  <2>2. SubSeq(writers, n + 1, Len(writers)) \in Seq(Clients)
    BY <2>1, <1>2, SubSeqProperties
  <2> QED BY <2>2 DEF Leave
<1>4. Idle \in Writer /\ Idle.pc = "idle"
  BY DEF Idle, Writer, Leading
<1>5. call' \in [Clients -> Writer]
  BY <1>1, <1>4 DEF Leave
<1>6. c \in Range(SubSeq(writers, 1, n))
  <2>1. /\ Len(SubSeq(writers, 1, n)) = n /\ SubSeq(writers, 1, n)[1] = writers[1]
        /\ DOMAIN SubSeq(writers, 1, n) = 1 .. n
    BY <1>2
  <2>2. 1 \in DOMAIN SubSeq(writers, 1, n)
    BY <2>1
  <2>3. SubSeq(writers, 1, n)[1] = c
    BY <2>1, <1>2
  <2> HIDE DEF Leave
  <2> QED BY <2>2, <2>3, Zenon DEF Range
<1>7. ASSUME NEW d \in Clients PROVE call'[d].pc \notin Leading
  <2>1. CASE d \in Range(SubSeq(writers, 1, n))
    <3>1. call'[d] = Idle
      BY <2>1 DEF Leave
    <3> QED BY <3>1, <1>4 DEF Leading
  <2>2. CASE d \notin Range(SubSeq(writers, 1, n))
    <3>1. call'[d] = call[d] /\ d # c
      BY <2>2, <1>6 DEF Leave
    <3> QED BY <3>1 DEF Leaders, AtFront
  <2> QED BY <2>1, <2>2
<1>8. CallTypes'
  BY <1>3, <1>5 DEF CallTypes
<1>9. Leaders'
  BY <1>7 DEF Leaders
<1> QED BY <1>7, <1>8, <1>9

LEMMA LeaveStep ==
  ASSUME Inv, NEW c \in Clients, AtFront(c), call[c].pc = "queued", Leave(1),
         UNCHANGED <<disk, phase, memory, versions, background, bgError, todo, reader, snapshot,
                     groups>>
  PROVE  Inv'
<1>1. CallTypes /\ Leaders
  BY DEF Inv, Types, Semantic
<1>2. CallTypes' /\ Leaders' /\ \A d \in Clients : call'[d].pc \notin Leading
  BY <1>1, LeaveKeeps
<1>3. \A d \in Clients : call[d].pc \notin Leading
  BY <1>1 DEF Leaders, AtFront, Leading
<1>4. /\ Pending' = Pending
      /\ InFlight({"insert", "syncError"})' = InFlight({"insert", "syncError"})
  BY <1>2, <1>3, SameInFlight DEF Leading
<1>5. phase = "open"
  BY DEF AtFront
<1> QED BY <1>2, <1>4, <1>5, SameStore

LEMMA WriteRefusedKeeps ==
  ASSUME Inv, NEW c \in Clients, WriteRefused(c)
  PROVE  Inv'
  BY LeaveStep DEF WriteRefused

\* A writer that begins to wait changes nothing that the invariant is about.
LEMMA WaitForRoomKeeps ==
  ASSUME Inv, NEW c \in Clients, WaitForRoom(c)
  PROVE  Inv'
<1>1. /\ phase = "open"
      /\ UNCHANGED <<disk, phase, memory, versions, background, bgError, todo, reader, snapshot,
                     groups>>
      /\ UNCHANGED <<writers, call, lastSeq, logs, synced, logNo>>
  BY DEF WaitForRoom, AtFront, disk, memory, versions
<1>2. CallTypes /\ Leaders /\ Types
  BY DEF Inv, Types, Semantic
<1>3. CallTypes' /\ Leaders' /\ Pending' = Pending
      /\ InFlight({"insert", "syncError"})' = InFlight({"insert", "syncError"})
  BY <1>1, <1>2, SameWriters, SameTypes
<1> QED BY <1>1, <1>3, SameStore

LEMMA SwitchFailsKeeps ==
  ASSUME Inv, NEW c \in Clients, SwitchFails(c)
  PROVE  Inv'
  BY LeaveStep DEF SwitchFails

LEMMA GroupEntriesProperties ==
  ASSUME Types, NEW n \in 1 .. Len(writers)
  PROVE  LET S == GroupEntries(n) IN
         /\ S \subseteq Entry /\ IsFiniteSet(S) /\ Unique(S)
         /\ \A e \in S : lastSeq < e.seq /\ e.seq <= lastSeq + Cardinality(S)
<1>1. writers \in Seq(Clients) /\ call \in [Clients -> Writer] /\ lastSeq \in Nat
  BY DEF Types, CallTypes, NumberTypes
<1> DEFINE seqs == [i \in 1 .. n |-> call[writers[i]].batch]
<1>2. Len(writers) \in Nat /\ n \in Nat \ {0}
  BY <1>1
<1>3. Len(seqs) = n /\ \A i \in 1 .. n : seqs[i] \in Seq(Op)
  <2>1. \A i \in 1 .. n : writers[i] \in Clients
    BY <1>1, <1>2
  <2> QED BY <2>1, <1>1, <1>2 DEF Writer
<1>4. GroupOps(n) \in Seq(Op)
  <2>1. GroupOps(n) = FlattenSeq(seqs)
    BY DEF GroupOps
  <2> HIDE DEF seqs
  <2> QED BY <2>1, <1>2, <1>3, FlattenType
<1>5. GroupEntries(n) = Numbered(GroupOps(n), lastSeq)
  BY DEF GroupEntries, Numbered
<1> QED BY <1>1, <1>4, <1>5, NumberedProperties

LEMMA BuildBatchGroupKeeps ==
  ASSUME Inv, NEW c \in Clients, BuildBatchGroup(c)
  PROVE  Inv'
<1>1. Types /\ CallTypes /\ Leaders
  BY DEF Inv, Types, Semantic
<1>2. /\ AtFront(c) /\ call[c].pc = "queued"
      /\ UNCHANGED <<disk, phase, writers, memory, versions, background, bgError, todo, reader,
                     snapshot, groups>>
  BY DEF BuildBatchGroup
<1>3. PICK n \in 1 .. Len(writers) : call' = [d \in Clients |->
             IF d = c THEN Goto(call[c], "log", GroupEntries(n), TRUE)
             ELSE IF d \in Range(SubSeq(writers, 1, n)) THEN Goto(call[d], "grouped", {}, TRUE)
             ELSE call[d]]
  BY DEF BuildBatchGroup
<1> DEFINE S == GroupEntries(n)
<1>4. /\ S \subseteq Entry /\ IsFiniteSet(S) /\ Unique(S)
      /\ \A e \in S : lastSeq < e.seq /\ e.seq <= lastSeq + Cardinality(S)
  BY <1>1, GroupEntriesProperties
<1> HIDE DEF S
<1>5. call \in [Clients -> Writer] /\ \A d \in Clients : d # c => call[d].pc \notin Leading
  BY <1>1, <1>2 DEF CallTypes, Leaders, AtFront
<1>6. /\ call'[c] = Goto(call[c], "log", S, TRUE)
      /\ \A d \in Clients : d # c => call'[d] = call[d] \/ call'[d] = Goto(call[d], "grouped", {}, TRUE)
  BY <1>3 DEF S
<1>7. /\ Goto(call[c], "log", S, TRUE) \in Writer
      /\ \A d \in Clients : Goto(call[d], "grouped", {}, TRUE) \in Writer
  BY <1>4, <1>5 DEF Goto, Writer, Leading
<1>8. CallTypes'
  <2>1. call' \in [Clients -> Writer]
    BY <1>3, <1>5, <1>7 DEF S
  <2> QED BY <2>1, <1>1, <1>2 DEF CallTypes
<1>9. /\ call'[c].pc = "log" /\ call'[c].group = S
      /\ \A d \in Clients : d # c => call'[d].pc \notin Leading
  <2>1. ASSUME NEW d \in Clients, d # c PROVE call'[d].pc \notin Leading
    <3>1. CASE call'[d] = call[d]
      BY <3>1, <2>1, <1>5
    <3>2. CASE call'[d] = Goto(call[d], "grouped", {}, TRUE)
      <4>1. call'[d].pc = "grouped"
        BY <3>2 DEF Goto
      <4> QED BY <4>1 DEF Leading
    <3> QED BY <3>1, <3>2, <2>1, <1>6
  <2> QED BY <2>1, <1>6 DEF Goto
<1>10. Leaders'
  <2>1. UNCHANGED <<phase, writers, lastSeq, groups, logs, synced, logNo>>
    BY <1>2 DEF disk, memory, versions
  <2>2. phase = "open" /\ writers # << >> /\ Head(writers) = c
    BY <1>2 DEF AtFront
  <2> QED BY <2>1, <2>2, <1>4, <1>9 DEF Leaders
<1>11. /\ Pending' = Pending
       /\ InFlight({"insert", "syncError"})' = InFlight({"insert", "syncError"})
  BY <1>2, <1>5, <1>9, SameInFlight DEF Leading
<1>12. phase = "open"
  BY <1>2 DEF AtFront
<1> QED BY <1>2, <1>8, <1>10, <1>11, <1>12, SameStore

\* The MANIFEST in use.
LEMMA OpenFacts ==
  ASSUME Inv, phase = "open"
  PROVE  /\ Types /\ Semantic /\ ReadsSnapshot /\ Ready
         /\ CURRENT \in DOMAIN manifests /\ Usable(manifests[CURRENT], CURRENT, tables)
         /\ DiskOf(manifests[CURRENT]) /\ CURRENT = manifestNo /\ CURRENT # 0
         /\ Last(manifests[CURRENT]).seq \in Nat /\ Last(manifests[CURRENT]).next \in Nat
         /\ Last(manifests[CURRENT]).log \in Nat
         /\ logNo \in DOMAIN logs /\ logNo \in DOMAIN mems /\ logNo \in Nat /\ logNumber \in Nat
         /\ nextFile \in Nat /\ lastSeq \in Nat /\ immNo \in Nat
         /\ Last(manifests[CURRENT]).seq <= lastSeq
         /\ logNumber <= Last(manifests[CURRENT]).log /\ Last(manifests[CURRENT]).log <= logNo
<1>1. Types /\ Semantic /\ ReadsSnapshot
  BY DEF Inv
<1>2. Ready /\ CURRENT # 0 /\ CURRENT = manifestNo
  BY <1>1 DEF Ready, Semantic, OpenVersion
<1>3. /\ CURRENT \in DOMAIN manifests /\ Usable(manifests[CURRENT], CURRENT, tables)
      /\ DiskOf(manifests[CURRENT])
  BY <1>1, <1>2 DEF Semantic, DiskInv
<1>4. /\ Last(manifests[CURRENT]).seq \in Nat /\ Last(manifests[CURRENT]).next \in Nat
      /\ Last(manifests[CURRENT]).log \in Nat
  BY <1>3, LastEdit
<1>5. /\ logNo \in Nat /\ logNumber \in Nat /\ nextFile \in Nat /\ lastSeq \in Nat /\ immNo \in Nat
  BY <1>1 DEF Types, NumberTypes
<1>6. logNo \in DOMAIN logs /\ logNo \in DOMAIN mems /\ logNumber <= logNo
  BY <1>1, <1>2 DEF Semantic, Numbers
<1>7. /\ Last(manifests[CURRENT]).seq <= lastSeq
      /\ Last(manifests[CURRENT]).log = logNumber \/ Last(manifests[CURRENT]).log = logNo
  BY <1>1 DEF Semantic, OpenVersion
<1> QED BY <1>1, <1>2, <1>3, <1>4, <1>5, <1>6, <1>7

\* Every kept log but those of the two memtables is empty.
LEMMA KeptLogsOpen ==
  ASSUME Inv, phase = "open"
  PROVE  LET K == KeptLogs(manifests[CURRENT], logs) IN
         /\ logNo \in K /\ \A n \in K : n <= logNo /\ n \in DOMAIN logs
         /\ \A n \in K : n = logNo \/ (n = immNo /\ immNo # 0) \/ ReadLog(logs[n]) = {}
         /\ LogEnts(K, logs) \subseteq Log \cup Imm
<1> DEFINE K == KeptLogs(manifests[CURRENT], logs)
<1>1. /\ Types /\ Semantic /\ Ready /\ Last(manifests[CURRENT]).log \in Nat /\ logNumber \in Nat
      /\ logNumber <= Last(manifests[CURRENT]).log /\ Last(manifests[CURRENT]).log <= logNo
      /\ logNo \in DOMAIN logs /\ logNo \in Nat
  BY OpenFacts
<1>2. \A n \in K : n \in DOMAIN logs /\ n \in Nat /\ n # 0 /\ n >= logNumber /\ n <= logNo
  BY <1>1 DEF Types, LogTypes, KeptLogs, Semantic, Numbers
<1>3. logNo \in K
  BY <1>1 DEF KeptLogs
<1>4. \A n \in K : n = logNo \/ (n = immNo /\ immNo # 0) \/ ReadLog(logs[n]) = {}
  BY <1>1, <1>2 DEF Semantic, OtherLogs
<1> HIDE DEF K
<1>5. \A e \in LogEnts(K, logs) : e \in Log \cup Imm
  <2> TAKE e \in LogEnts(K, logs)
  <2>1. PICK n \in K : e \in ReadLog(logs[n])
    BY LogEntsMember
  <2>2. CASE n = logNo
    BY <2>1, <2>2 DEF Log
  <2>3. CASE n = immNo /\ immNo # 0
    BY <2>1, <2>3, <1>1 DEF Semantic, LogsMatch
  <2> QED BY <2>1, <2>2, <2>3, <1>4
<1> QED BY <1>2, <1>3, <1>4, <1>5 DEF K

\* A group that is not in the log yet is newer than everything, and no group
\* of whole logs has its entries.
LEMMA FreshGroup ==
  ASSUME Inv, NEW c \in Clients, AtFront(c), call[c].pc = "log"
  PROVE  LET K == KeptLogs(manifests[CURRENT], logs) IN
         /\ call[c].group \subseteq Entry /\ Unique(call[c].group)
         /\ \A e \in call[c].group : e.seq \in Nat /\ lastSeq < e.seq
         /\ Pending = {} /\ InFlight({"insert", "syncError"}) = {}
         /\ \A f \in LogEnts(K, logs) \cup Tab \cup Imm \cup mems[logNo] \cup Log :
              f.seq \in Nat /\ f.seq <= lastSeq
         /\ \A g \in groups : g.whole /\ g.entries = call[c].group => g.entries = {}
<1> DEFINE K == KeptLogs(manifests[CURRENT], logs)
           m == manifests[CURRENT]
<1>0. phase = "open"
  BY DEF AtFront
<1>1. /\ Types /\ Semantic /\ Ready /\ DiskOf(m) /\ Last(m).seq <= lastSeq /\ lastSeq \in Nat
      /\ Last(m).seq \in Nat /\ logNo \in DOMAIN mems /\ logNo \in DOMAIN logs
      /\ Usable(m, CURRENT, tables)
  BY <1>0, OpenFacts
<1>2. call[c].group \subseteq Entry
  BY <1>1 DEF Types, CallTypes, Writer
<1>3. Unique(call[c].group) /\ \A e \in call[c].group : lastSeq < e.seq
  BY <1>1 DEF Semantic, Leaders, Leading
<1>4. Pending = {} /\ InFlight({"insert", "syncError"}) = {}
  <2>1. Leaders
    BY <1>1 DEF Semantic
  <2>2. {"insert", "syncError"} \in SUBSET Leading /\ {"insert", "publish", "syncError"} \in SUBSET Leading
    BY DEF Leading
  <2> QED BY <2>1, <2>2, OneLeader DEF Pending
<1>5. mems[logNo] \subseteq Entry /\ Imm \subseteq Entry /\ Tab \subseteq Entry /\ Log \subseteq Entry
  <2>1. mems[logNo] \subseteq Entry /\ Imm \subseteq Entry
    BY <1>1 DEF Types, MemTypes, Semantic, Numbers, Imm
  <2>2. Tab \subseteq Entry
    BY <1>1, EntsType DEF Types, Tab
  <2>3. Log \subseteq Entry
    BY <1>1, ReadLogType DEF Types, LogTypes, Log
  <2> QED BY <2>1, <2>2, <2>3
<1>6. \A f \in Tab \cup Imm \cup mems[logNo] \cup Log : f.seq <= lastSeq
  BY <1>1, <1>4 DEF Semantic, Layered
<1>7. LogEnts(K, logs) \subseteq Log \cup Imm
  BY <1>0, KeptLogsOpen
<1>8. \A f \in LogEnts(K, logs) \cup Tab \cup Imm \cup mems[logNo] \cup Log :
              f.seq \in Nat /\ f.seq <= lastSeq
  BY <1>5, <1>6, <1>7, EntryFields
<1> DEFINE T == Ents(tables, Ver(m))
           L == LogEnts(K, logs) \cup MemEnts
<1>9. ASSUME NEW g \in groups, g.whole, g.entries = call[c].group, NEW e \in g.entries PROVE FALSE
  <2>1. Disk(T, K, logs, synced, L, Last(m).seq, groups)
    BY <1>1 DEF DiskOf
  <2>2. DiskTypes(T, K, logs, synced, L, Last(m).seq, groups)
    BY <1>1, DiskTyped DEF Types
  <2>3. e.seq \in Nat /\ lastSeq < e.seq
    BY <1>2, <1>3, <1>9, EntryFields
  <2> HIDE DEF T, L, K
  <2>4. CASE \E n \in K : \E i \in DOMAIN logs[n] : logs[n][i] = g.entries
    <3>1. g.entries # Torn
      BY <1>2, <1>9, NoEntryIsNone
    <3>2. PICK n \in K : \E i \in DOMAIN logs[n] : logs[n][i] = g.entries
      BY <2>4
    <3>3. PICK i \in DOMAIN logs[n] : logs[n][i] = g.entries
      BY <3>2
    <3>4. logs[n][i] \subseteq LogEnts(K, logs)
      BY <3>1, <3>3, InLogEnts
    <3>5. e \in LogEnts(K, logs)
      BY <3>3, <3>4, <1>9
    <3>6. e.seq <= lastSeq
      BY <3>5, <1>8
    <3> QED BY <3>6, <2>3, <1>1
  <2>5. CASE Old(T, L, Last(m).seq, groups, e)
    <3>1. CASE \E f \in T : f.key = e.key /\ f.seq >= e.seq
      <4>1. PICK f \in T : f.seq >= e.seq
        BY <3>1
      <4>2. f.seq \in Nat /\ f.seq <= Last(m).seq
        BY <2>1, <2>2, EntryFields DEF Disk, TablesNumbered, DiskTypes
      <4> QED BY <4>1, <4>2, <2>3, <1>1
    <3>2. CASE \E h \in groups : \E d \in h.entries : d.seq >= e.seq /\ d.seq <= Last(m).seq
      <4>1. PICK h \in groups : \E d \in h.entries : d.seq >= e.seq /\ d.seq <= Last(m).seq
        BY <3>2
      <4>2. PICK d \in h.entries : d.seq >= e.seq /\ d.seq <= Last(m).seq
        BY <4>1
      <4>3. d.seq \in Nat
        BY <2>2, GroupFields, EntryFields DEF DiskTypes
      <4> QED BY <4>2, <4>3, <2>3, <1>1
    <3> QED BY <2>5, <3>1, <3>2 DEF Old
  <2> QED BY <2>1, <2>4, <2>5, <1>9 DEF Disk, GroupsSafe
<1>10. \A g \in groups : g.whole /\ g.entries = call[c].group => g.entries = {}
  BY <1>9
<1>11. \A e \in call[c].group : e.seq \in Nat
  BY <1>2, EntryFields
<1> QED BY <1>2, <1>3, <1>4, <1>8, <1>10, <1>11

LEMMA Range1 ==
  ASSUME NEW lg \in Seq(Record), NEW r, NEW x
  PROVE  x \in Range(Append(lg, r)) <=> x \in Range(lg) \/ x = r
<1>1. /\ DOMAIN Append(lg, r) = 1 .. Len(lg) + 1 /\ DOMAIN lg = 1 .. Len(lg)
      /\ \A i \in DOMAIN lg : Append(lg, r)[i] = lg[i]
      /\ Append(lg, r)[Len(lg) + 1] = r /\ Len(lg) \in Nat
  BY ReadLogAppend
<1>2. \A i : i \in 1 .. Len(lg) + 1 <=> i \in 1 .. Len(lg) \/ i = Len(lg) + 1
  BY <1>1
<1> QED BY <1>1, <1>2 DEF Range

\* A record, or part of one, is written to the log.
LEMMA AppendKeeps ==
  ASSUME Inv, NEW c \in Clients, AtFront(c), call[c].pc = "log",
         NEW r, NEW pc, NEW ok \in BOOLEAN,
         pc \in {"insert", "publish", "syncError"}, ok => pc = "insert", pc = "insert" => ok,
         pc = "publish" => r = Torn, pc # "publish" => r \in Written(call[c].group),
         logs' = [logs EXCEPT ![logNo] = Append(@, r)],
         DOMAIN synced' = DOMAIN synced,
         synced'[logNo] = IF ok /\ call[c].sync THEN Len(logs[logNo]) + 1 ELSE synced[logNo],
         \A n \in DOMAIN synced : n # logNo => synced'[n] = synced[n],
         groups' = IF pc = "publish" THEN groups ELSE groups \cup {Logged(c)},
         call' = [call EXCEPT ![c] = Goto(@, pc, @.group, ok)],
         UNCHANGED <<tables, manifests, CURRENT, phase, writers, memory, versions, background,
                     bgError, todo, reader, snapshot>>
  PROVE  Inv'
<1> USE DEF memory, versions, background
<1> DEFINE m == manifests[CURRENT]
           K == KeptLogs(m, logs)
           T == Ents(tables, Ver(m))
           L == LogEnts(K, logs) \cup MemEnts
           group == call[c].group
           R == IF r = Torn THEN {} ELSE r
<1>0. phase = "open" /\ writers # << >> /\ Head(writers) = c
  BY DEF AtFront
<1>1. /\ Types /\ Semantic /\ ReadsSnapshot /\ Ready
      /\ CURRENT \in DOMAIN manifests /\ Usable(m, CURRENT, tables)
      /\ DiskOf(m) /\ CURRENT # 0 /\ Last(m).seq \in Nat
      /\ logNo \in DOMAIN logs /\ logNo \in DOMAIN mems /\ logNo \in Nat
      /\ lastSeq \in Nat /\ nextFile \in Nat /\ Last(m).seq <= lastSeq
  BY <1>0, OpenFacts
<1>2. /\ logNo \in K /\ \A n \in K : n <= logNo /\ n \in DOMAIN logs
      /\ LogEnts(K, logs) \subseteq Log \cup Imm
  BY <1>0, KeptLogsOpen
<1>3. /\ group \subseteq Entry /\ Unique(group)
      /\ \A e \in group : e.seq \in Nat /\ lastSeq < e.seq
      /\ Pending = {} /\ InFlight({"insert", "syncError"}) = {}
      /\ \A f \in LogEnts(K, logs) \cup Tab \cup Imm \cup mems[logNo] \cup Log :
           f.seq \in Nat /\ f.seq <= lastSeq
      /\ \A g \in groups : g.whole /\ g.entries = group => g.entries = {}
  BY FreshGroup
<1>4. LogTypes /\ MemTypes /\ TableTypes /\ CallTypes /\ logs[logNo] \in Seq(Record)
  BY <1>1 DEF Types, LogTypes
<1>5. /\ r \in Record /\ (r = Torn \/ r = group) /\ R \subseteq group
      /\ (Torn \notin Range(logs[logNo]) /\ pc # "publish" => r = group \/ r = Torn)
  BY <1>3 DEF Record, Written
<1>6. /\ DOMAIN logs' = DOMAIN logs /\ logs'[logNo] = Append(logs[logNo], r)
      /\ \A n \in DOMAIN logs : n # logNo => logs'[n] = logs[n]
  BY <1>1
<1>7. /\ DOMAIN synced' = DOMAIN synced /\ DOMAIN synced = DOMAIN logs
      /\ synced'[logNo] = IF ok /\ call[c].sync THEN Len(logs[logNo]) + 1 ELSE synced[logNo]
      /\ \A n \in DOMAIN logs : n # logNo => synced'[n] = synced[n]
  BY <1>1, <1>4 DEF LogTypes
<1>8. /\ DOMAIN Append(logs[logNo], r) = 1 .. Len(logs[logNo]) + 1
      /\ DOMAIN logs[logNo] = 1 .. Len(logs[logNo]) /\ Len(logs[logNo]) \in Nat
      /\ \A i \in DOMAIN logs[logNo] : Append(logs[logNo], r)[i] = logs[logNo][i]
      /\ Append(logs[logNo], r)[Len(logs[logNo]) + 1] = r
      /\ Append(logs[logNo], r) \in Seq(Record) /\ Len(Append(logs[logNo], r)) = Len(logs[logNo]) + 1
  BY <1>4, <1>5, ReadLogAppend
<1>9. Log' = Log \cup R
  BY <1>4, <1>6, ReadLogAppend DEF Log
<1>10. call \in [Clients -> Writer] /\ call'[c] = Goto(call[c], pc, group, ok)
       /\ \A d \in Clients : d # c => call'[d] = call[d]
  BY <1>4 DEF CallTypes
<1>11. Goto(call[c], pc, group, ok) \in Writer /\ call'[c].pc = pc /\ call'[c].group = group
       /\ call'[c].ok = ok /\ call[c].sync \in BOOLEAN
  BY <1>10 DEF Goto, Writer, Leading
<1>12. \A d \in Clients : d # c => call[d].pc \notin Leading
  BY <1>1 DEF Semantic, Leaders, AtFront
<1>13. CallTypes'
  BY <1>4, <1>10, <1>11 DEF CallTypes
<1>14. Logged(c) \in Group /\ Logged(c).entries = group /\ ~Logged(c).acked
       /\ Logged(c).sync = call[c].sync /\ Logged(c).whole = (Torn \notin Range(logs[logNo]))
  BY <1>3, <1>11 DEF Logged, Group
<1>15. groups' \subseteq Group /\ groups \subseteq groups' /\ groups \subseteq Group
       /\ \A g \in groups' \ groups : g = Logged(c)
  BY <1>4, <1>14 DEF LogTypes
<1>16. Logged(c).whole /\ pc # "publish" => r = group
  BY <1>14 DEF Written
<1> HIDE DEF m, K, T, L, group, R
<1>17. LogTypes'
  <2>1. \A n \in DOMAIN logs : logs'[n] \in Seq(Record)
    BY <1>4, <1>6, <1>8 DEF LogTypes
  <2>2. \A n \in DOMAIN logs : synced'[n] \in 0 .. Len(logs'[n])
    <3> TAKE n \in DOMAIN logs
    <3>1. synced[n] \in 0 .. Len(logs[n])
      BY <1>4 DEF LogTypes
    <3>2. CASE n # logNo
      BY <3>1, <3>2, <1>6, <1>7
    <3>3. CASE n = logNo
      <4>1. Len(logs'[n]) = Len(logs[logNo]) + 1
        BY <3>3, <1>6, <1>8
      <4> QED BY <4>1, <3>1, <3>3, <1>7, <1>8
    <3> QED BY <3>2, <3>3
  <2>3. PICK b \in Nat : \A n \in DOMAIN logs : \A e \in ReadLog(logs[n]) : e.seq <= b
    BY <1>4 DEF LogTypes
  <2>4. IsFiniteSet(group) /\ \A e \in group : e.seq <= lastSeq + Cardinality(group)
    BY <1>1 DEF Semantic, Leaders, Leading, group
  <2>5. Cardinality(group) \in Nat
    BY <2>4, FS_CardinalityType
  <2> DEFINE b1 == b + lastSeq + Cardinality(group)
  <2>6. b1 \in Nat
    BY <2>5, <1>1
  <2>7. \A n \in DOMAIN logs : \A e \in ReadLog(logs'[n]) : e.seq <= b1
    <3> TAKE n \in DOMAIN logs
    <3> TAKE e \in ReadLog(logs'[n])
    <3>1. e \in ReadLog(logs[n]) \/ e \in R
      <4>1. CASE n = logNo
        BY <4>1, <1>9 DEF Log
      <4>2. CASE n # logNo
        BY <4>2, <1>6
      <4> QED BY <4>1, <4>2
    <3>2. CASE e \in R
      BY <3>2, <2>4, <2>5, <1>1, <1>3, <1>5
    <3>3. CASE e \in ReadLog(logs[n])
      <4>1. e.seq <= b
        BY <3>3, <2>3
      <4>2. e.seq \in Nat
        BY <3>3, <1>4, ReadLogType, EntryFields DEF LogTypes
      <4> QED BY <4>1, <4>2, <2>5, <1>1
    <3> QED BY <3>1, <3>2, <3>3
  <2>8. DOMAIN logs' \subseteq Nat \ {0} /\ DOMAIN synced' = DOMAIN logs'
    BY <1>4, <1>6, <1>7 DEF LogTypes
  <2> HIDE DEF b1
  <2> QED BY <2>1, <2>2, <2>6, <2>7, <2>8, <1>6, <1>15 DEF LogTypes
<1>18. Types'
  <2>1. UNCHANGED <<tables, mems, phase, CURRENT, logNo, immNo, logNumber, nextFile, lastSeq, manifestNo,
                    descriptorOpen, bgError, files, job, comp, reader, snapshot>>
    OBVIOUS
  <2> QED BY <2>1, <1>1, <1>13, <1>17, SameTypes DEF Types
<1>19. DiskInv'
  <2>1. DiskTypes(T, K, logs, synced, L, Last(m).seq, groups)
    BY <1>1, DiskTyped DEF Types, T, K, L
  <2>2. Disk(T, K, logs, synced, L, Last(m).seq, groups)
    BY <1>1 DEF DiskOf, T, K, L
  <2>3. KeptLogs(m, logs') = K /\ MemEnts' = MemEnts
    BY <1>6 DEF KeptLogs, K, MemEnts
  <2> DEFINE L1 == LogEnts(K, logs') \cup MemEnts
  <2>4. \A f \in L1 : f \in L \/ f \in R
    <3> TAKE f \in L1
    <3>1. CASE f \in MemEnts
      BY <3>1 DEF L
    <3>2. CASE f \in LogEnts(K, logs')
      <4>1. PICK n \in K : f \in ReadLog(logs'[n])
        BY <3>2, LogEntsMember
      <4>2. f \in ReadLog(logs[n]) \/ f \in R
        <5>1. CASE n = logNo
          BY <4>1, <5>1, <1>9 DEF Log
        <5>2. CASE n # logNo
          BY <4>1, <5>2, <1>2, <1>6
        <5> QED BY <5>1, <5>2
      <4> QED BY <4>2, LogEntsMember DEF L
    <3> QED BY <3>1, <3>2
  <2>5. \A f \in R : f \in Entry /\ f.seq > Last(m).seq
    BY <1>1, <1>3, <1>5 DEF group
  <2>6. L1 \in SUBSET Entry /\ \A f \in L1 : f \in L \/ f.seq > Last(m).seq
    BY <2>1, <2>4, <2>5 DEF DiskTypes
  <2>7. \A g \in groups' \ groups : ~g.acked /\ (g.whole => g.entries = r)
    <3> TAKE g \in groups' \ groups
    <3>1. g = Logged(c) /\ pc # "publish"
      BY <1>15
    <3>2. g.whole => r = group
      BY <3>1, <1>16
    <3> QED BY <3>1, <3>2, <1>14 DEF group
  <2>8. r # Torn => /\ Unique(r) /\ \E g \in groups' : g.entries = r
                    /\ \A e \in r : Last(m).seq < e.seq /\ \A f \in LogEnts(K, logs) : f.seq < e.seq
    <3> SUFFICES ASSUME r # Torn
                 PROVE  /\ Unique(r) /\ \E g \in groups' : g.entries = r
                        /\ \A e \in r : Last(m).seq < e.seq /\ \A f \in LogEnts(K, logs) : f.seq < e.seq
      OBVIOUS
    <3>1. r = group /\ Logged(c) \in groups'
      BY <1>5 DEF group
    <3>2. Logged(c).entries = r
      BY <3>1, <1>14 DEF group
    <3> QED BY <3>1, <3>2, <1>1, <1>3 DEF group
  <2>9. \A n \in K : synced'[n] \in Nat /\ synced[n] <= synced'[n]
    <3> TAKE n \in K
    <3>1. n \in DOMAIN logs /\ synced[n] \in 0 .. Len(logs[n]) /\ Len(logs[n]) \in Nat
      BY <1>2, <1>4 DEF LogTypes
    <3> QED BY <3>1, <1>7, <1>8
  <2>10. \A n \in K : n # logNo => logs'[n] = logs[n]
    BY <1>2, <1>6
  <2> HIDE DEF L1
  <2>11. Disk(T, K, logs', synced', L1, Last(m).seq, groups')
    <3>1. logNo \in K /\ \A k \in K : k <= logNo
      BY <1>2
    <3>2. r \in Record /\ logs'[logNo] = Append(logs[logNo], r) /\ groups' \in SUBSET Group
          /\ groups \subseteq groups'
      BY <1>5, <1>6, <1>15
    <3>3. Appends(K, logs, synced, L, Last(m).seq, groups, logNo, r, logs', synced', groups', L1)
      BY <2>6, <2>7, <2>8, <2>9, <2>10, <3>1, <3>2 DEF Appends
    <3> QED BY <2>1, <2>2, <3>3, DiskAppend
  <2>12. DiskOf(m)'
    <3>1. m' = m /\ Ents(tables', Ver(m')) = T
      BY DEF m, T
    <3> QED BY <2>3, <2>11, <3>1 DEF DiskOf, L1
  <2> QED BY <2>12, <1>1 DEF DiskInv, m
<1>20. Quiet' /\ ReplayInv' /\ NewVersion'
  BY <1>0, OnlyWhenOpen
<1>21. Numbers' /\ OtherLogs'
  <2>1. Numbers'
    BY <1>1, <1>6 DEF Semantic, Numbers, Ready
  <2> QED BY <2>1, <1>1, <1>6 DEF Semantic, OtherLogs, Ready
<1>22. /\ Pending' = group
       /\ InFlight({"insert", "syncError"})' = IF pc = "publish" THEN {} ELSE group
  <2>1. Pending' = group
    BY <1>10, <1>11, <1>12 DEF InFlight, Pending, Leading, group
  <2> QED BY <2>1, <1>10, <1>11, <1>12 DEF InFlight, Leading, group
<1>23. UNCHANGED <<Tab, Imm>> /\ mems'[logNo] = mems[logNo] /\ Ready'
  BY <1>1 DEF Tab, Imm, Ready
<1>24. Layered'
  <2>1. /\ Below(Tab, Imm) /\ Below(Tab, mems[logNo]) /\ Below(Imm, mems[logNo])
        /\ Unique(Tab \cup Imm \cup mems[logNo] \cup Log) /\ Below(Tab \cup Imm, Log)
        /\ \A e \in Tab \cup Imm \cup mems[logNo] : e.del => \E g \in groups : e \in g.entries
    BY <1>1 DEF Semantic, Layered
  <2>2. \A e \in Tab \cup Imm : e.seq <= lastSeq
    BY <1>3
  <2>3. \A e \in mems[logNo] \cup Log \cup R : e.seq <= lastSeq \/ e \in group
    BY <1>3, <1>5 DEF group
  <2>4. Unique(Tab \cup Imm \cup mems[logNo] \cup (Log \cup R))
    <3>1. \A e \in Tab \cup Imm \cup mems[logNo] \cup Log : e.seq \in Nat /\ e.seq <= lastSeq
      BY <1>3
    <3>2. \A e \in R : e \in group /\ e.seq \in Nat /\ lastSeq < e.seq
      BY <1>3, <1>5 DEF group
    <3>3. \A e, f \in R : e.seq = f.seq => e = f
      BY <3>2, <1>3 DEF Unique, group
    <3> QED BY <2>1, <3>1, <3>2, <3>3, <1>1 DEF Unique
  <2>5. Below(Tab \cup Imm, Log \cup R)
    <3>1. \A e \in R, f \in Tab \cup Imm : f.seq < e.seq
      BY <1>1, <1>3, <1>5 DEF group
    <3> QED BY <2>1, <3>1 DEF Below
  <2>6. \A e \in Tab \cup Imm \cup mems[logNo] : e.del => \E g \in groups' : e \in g.entries
    BY <2>1, <1>15
  <2> QED BY <2>1, <2>2, <2>3, <2>4, <2>5, <2>6, <1>9, <1>22, <1>23 DEF Layered
<1>25. LogsMatch'
  <2>1. /\ bgError \/ Log \subseteq mems[logNo]
        /\ Torn \in Range(logs[logNo]) \/ mems[logNo] \subseteq Log
        /\ immNo # 0 => /\ ReadLog(logs[immNo]) \subseteq Imm
                        /\ Torn \in Range(logs[immNo]) \/ Imm \subseteq ReadLog(logs[immNo])
    BY <1>1, <1>3 DEF Semantic, LogsMatch
  <2>2. immNo # 0 => logs'[immNo] = logs[immNo]
    <3>1. immNo # 0 => immNo \in DOMAIN logs /\ immNo < logNo
      BY <1>1 DEF Semantic, Numbers
    <3> QED BY <3>1, <1>1, <1>6
  <2>3. pc = "publish" => R = {}
    BY DEF R
  <2>4. Torn \in Range(logs[logNo]) => Torn \in Range(logs'[logNo])
    BY <1>4, <1>6, Range1
  <2>5. bgError' \/ Log' \subseteq mems'[logNo'] \cup InFlight({"insert", "syncError"})'
    BY <2>1, <2>3, <1>5, <1>9, <1>22, <1>23 DEF group
  <2>6. Torn \in Range(logs'[logNo]) \/ mems[logNo] \subseteq Log'
    BY <2>1, <2>4, <1>9
  <2> QED BY <2>1, <2>2, <2>5, <2>6, <1>23 DEF LogsMatch
<1>26. Leaders'
  <2> SUFFICES ASSUME NEW d \in Clients, call'[d].pc \in Leading
               PROVE  LET grp == call'[d].group IN
                      /\ phase' = "open" /\ writers' # <<>> /\ Head(writers') = d
                      /\ IsFiniteSet(grp) /\ Unique(grp)
                      /\ \A e \in grp : lastSeq' < e.seq /\ e.seq <= lastSeq' + Cardinality(grp)
                      /\ call'[d].pc # "log" /\ call'[d].ok => \E g \in groups' : g.entries = grp
                      /\ call'[d].pc = "insert" =>
                           call'[d].ok /\ (Torn \in Range(logs'[logNo']) \/ grp \in Range(logs'[logNo']))
                      /\ call'[d].pc # "log" /\ call'[d].ok /\ grp # {} =>
                           \A g \in groups' : g.whole /\ g.sync /\ g.entries = grp =>
                              \E i \in 1 .. synced'[logNo'] : logs'[logNo'][i] = grp
    BY DEF Leaders
  <2>1. d = c
    BY <1>10, <1>12
  <2>2. IsFiniteSet(group) /\ Unique(group)
        /\ \A e \in group : lastSeq < e.seq /\ e.seq <= lastSeq + Cardinality(group)
    BY <1>1 DEF Semantic, Leaders, Leading, group
  <2>3. ok => Logged(c) \in groups' /\ Logged(c).entries = group
    BY <1>14 DEF group
  <2>4. r \in Range(logs'[logNo])
    BY <1>4, <1>6, Range1
  <2>5. Torn \in Range(logs'[logNo]) \/ group \in Range(logs'[logNo])
    BY <2>4, <1>5 DEF group
  <2>6. ASSUME ok, group # {}, NEW g \in groups', g.whole, g.sync, g.entries = group
        PROVE  \E i \in 1 .. synced'[logNo] : logs'[logNo][i] = group
    <3>1. g \notin groups
      BY <2>6, <1>3 DEF group
    <3>2. g = Logged(c)
      BY <3>1, <2>6, <1>15
    <3>3. call[c].sync
      BY <3>2, <2>6, <1>14
    <3>4. r = group
      BY <3>2, <2>6, <1>16
    <3>5. synced'[logNo] = Len(logs[logNo]) + 1 /\ logs'[logNo][Len(logs[logNo]) + 1] = group
      BY <3>3, <3>4, <2>6, <1>6, <1>7, <1>8
    <3>6. Len(logs[logNo]) + 1 \in 1 .. synced'[logNo]
      BY <3>5, <1>8
    <3> QED BY <3>5, <3>6
  <2>7. call'[d].group = group /\ call'[d].pc = pc /\ call'[d].ok = ok
    BY <2>1, <1>11 DEF group
  <2> QED BY <2>1, <2>2, <2>3, <2>5, <2>6, <2>7, <1>0
<1>27. OpenVersion'
  <2>1. /\ bg' = bg /\ (bgError => bgError') /\ nextFile' \in Nat /\ nextFile <= nextFile'
        /\ lastSeq' \in Nat /\ lastSeq <= lastSeq' /\ bgError \in BOOLEAN
    BY <1>1 DEF Types, NumberTypes
  <2> QED BY <2>1, <1>0, <1>1, <1>23, SameVersion
<1>28. Compacting' /\ Jobs' /\ Garbage'
  <2>1. lastSeq' \in Nat /\ lastSeq <= lastSeq'
    BY <1>1
  <2> QED BY <2>1, <1>0, <1>1, <1>23, SameJobs
<1>29. Reading'
  <2>1. /\ lastSeq' \in Nat /\ lastSeq <= lastSeq' /\ nextFile' \in Nat /\ nextFile <= nextFile'
    BY <1>1
  <2>2. Reading /\ \A x \in Readers : reader[x].on => reader[x].files \subseteq DOMAIN tables'
    BY <1>1 DEF Semantic, Reading
  <2> QED BY <2>1, <2>2, <1>1, SameReading
<1>30. ReadsSnapshot'
  <2>1. Reading
    BY <1>1 DEF Semantic
  <2> QED BY <2>1, <1>0, <1>1, SameShown, SameReads
<1> QED BY <1>18, <1>19, <1>20, <1>21, <1>24, <1>25, <1>26, <1>27, <1>28, <1>29, <1>30
        DEF Inv, Semantic

LEMMA AddRecordKeeps ==
  ASSUME Inv, NEW c \in Clients, AddRecord(c)
  PROVE  Inv'
<1>1. AtFront(c) /\ call[c].pc = "log"
  BY DEF AddRecord
<1>2. PICK r \in Written(call[c].group) : logs' = [logs EXCEPT ![logNo] = Append(@, r)]
  BY DEF AddRecord
<1>3. logNo \in DOMAIN synced
  BY <1>1, OpenFacts DEF AtFront, Types, LogTypes
<1>4. /\ DOMAIN synced' = DOMAIN synced
      /\ synced'[logNo] = IF call[c].sync THEN Len(logs[logNo]) + 1 ELSE synced[logNo]
      /\ \A n \in DOMAIN synced : n # logNo => synced'[n] = synced[n]
  BY <1>3 DEF AddRecord
<1>5. /\ groups' = groups \cup {Logged(c)}
      /\ call' = [call EXCEPT ![c] = Goto(@, "insert", @.group, TRUE)]
      /\ UNCHANGED <<tables, manifests, CURRENT, phase, writers, memory, versions, background,
                     bgError, todo, reader, snapshot>>
  BY DEF AddRecord
<1>6. PICK ok \in BOOLEAN : ok = TRUE
  OBVIOUS
<1>7. synced'[logNo] = IF ok /\ call[c].sync THEN Len(logs[logNo]) + 1 ELSE synced[logNo]
  BY <1>4, <1>6
<1>8. call' = [call EXCEPT ![c] = Goto(@, "insert", @.group, ok)]
  BY <1>5, <1>6
<1>9. groups' = IF "insert" = "publish" THEN groups ELSE groups \cup {Logged(c)}
  BY <1>5
<1> QED BY <1>1, <1>2, <1>4, <1>5, <1>6, <1>7, <1>8, <1>9, AppendKeeps

LEMMA AddRecordFailsKeeps ==
  ASSUME Inv, NEW c \in Clients, AddRecordFails(c)
  PROVE  Inv'
<1>1. AtFront(c) /\ call[c].pc = "log"
  BY DEF AddRecordFails
<1>2. logs' = [logs EXCEPT ![logNo] = Append(@, Torn)] /\ UNCHANGED synced /\ UNCHANGED groups
      /\ call' = [call EXCEPT ![c] = Goto(@, "publish", @.group, FALSE)]
      /\ UNCHANGED <<tables, manifests, CURRENT, phase, writers, memory, versions, background,
                     bgError, todo, reader, snapshot>>
  BY DEF AddRecordFails
<1> QED BY <1>1, <1>2, AppendKeeps

LEMMA SyncFailsKeeps ==
  ASSUME Inv, NEW c \in Clients, SyncFails(c)
  PROVE  Inv'
<1>1. AtFront(c) /\ call[c].pc = "log"
  BY DEF SyncFails
<1>2. PICK r \in Written(call[c].group) : logs' = [logs EXCEPT ![logNo] = Append(@, r)]
  BY DEF SyncFails
<1>3. /\ UNCHANGED synced /\ groups' = groups \cup {Logged(c)}
      /\ call' = [call EXCEPT ![c] = Goto(@, "syncError", @.group, FALSE)]
      /\ UNCHANGED <<tables, manifests, CURRENT, phase, writers, memory, versions, background,
                     bgError, todo, reader, snapshot>>
  BY DEF SyncFails
<1> QED BY <1>1, <1>2, <1>3, AppendKeeps

LEMMA InsertIntoKeeps ==
  ASSUME Inv, NEW c \in Clients, InsertInto(c)
  PROVE  Inv'
<1> USE DEF disk, versions, background
<1> DEFINE m == manifests[CURRENT]
           K == KeptLogs(m, logs)
           T == Ents(tables, Ver(m))
           L == LogEnts(K, logs) \cup MemEnts
           group == call[c].group
<1>0. /\ phase = "open" /\ writers # << >> /\ Head(writers) = c /\ AtFront(c) /\ call[c].pc = "insert"
      /\ mems' = [mems EXCEPT ![logNo] = @ \cup call[c].group]
      /\ call' = [call EXCEPT ![c] = Goto(@, "publish", @.group, TRUE)]
      /\ UNCHANGED <<disk, phase, writers, logNo, immNo, versions, background, bgError, todo,
                     reader, snapshot, groups>>
  BY DEF AtFront, InsertInto
<1>1. /\ Types /\ Semantic /\ ReadsSnapshot /\ Ready
      /\ CURRENT \in DOMAIN manifests /\ Usable(m, CURRENT, tables)
      /\ DiskOf(m) /\ CURRENT # 0 /\ Last(m).seq \in Nat
      /\ logNo \in DOMAIN logs /\ logNo \in DOMAIN mems /\ logNo \in Nat
      /\ lastSeq \in Nat /\ nextFile \in Nat /\ Last(m).seq <= lastSeq
  BY <1>0, OpenFacts
<1>2. call \in [Clients -> Writer] /\ group \subseteq Entry /\ CallTypes /\ MemTypes /\ Leaders
  BY <1>1 DEF Types, CallTypes, Writer, Semantic
<1>3. /\ IsFiniteSet(group) /\ Unique(group)
      /\ \A e \in group : lastSeq < e.seq /\ e.seq <= lastSeq + Cardinality(group)
      /\ \E g \in groups : g.entries = group
      /\ call[c].ok /\ (Torn \in Range(logs[logNo]) \/ group \in Range(logs[logNo]))
      /\ group # {} => \A g \in groups : g.whole /\ g.sync /\ g.entries = group =>
                          \E i \in 1 .. synced[logNo] : logs[logNo][i] = group
  BY <1>0, <1>2 DEF Leaders, Leading
<1>4. Pending = group /\ InFlight({"insert", "syncError"}) = group
  <2>1. {"insert", "syncError"} \in SUBSET Leading /\ {"insert", "publish", "syncError"} \in SUBSET Leading
    BY DEF Leading
  <2> QED BY <2>1, <1>0, <1>2, OneLeader DEF Pending
<1>5. /\ call'[c] = Goto(call[c], "publish", group, TRUE) /\ call'[c] \in Writer
      /\ call'[c].pc = "publish" /\ call'[c].group = group /\ call'[c].ok = TRUE
      /\ \A d \in Clients : d # c => call'[d] = call[d] /\ call[d].pc \notin Leading
  BY <1>0, <1>2 DEF Goto, Writer, Leading, Leaders
<1>6. CallTypes'
  BY <1>0, <1>2, <1>5 DEF CallTypes
<1>7. /\ DOMAIN mems' = DOMAIN mems /\ mems'[logNo] = mems[logNo] \cup group
      /\ \A n \in DOMAIN mems : n # logNo => mems'[n] = mems[n]
  BY <1>0, <1>1
<1>8. Types'
  <2>1. MemTypes'
    BY <1>2, <1>7 DEF MemTypes
  <2> QED BY <2>1, <1>0, <1>1, <1>6, SameTypes DEF Types
<1>9. immNo # 0 => immNo \in DOMAIN mems /\ immNo # logNo
  BY <1>1 DEF Semantic, Numbers
<1>10. UNCHANGED <<Tab, Imm, Log>> /\ Ready' /\ (immNo # 0 => mems'[immNo] = mems[immNo])
  BY <1>0, <1>1, <1>7, <1>9 DEF Tab, Imm, Log, Ready
<1>11. Pending' = group /\ InFlight({"insert", "syncError"})' = {}
  <2>1. Pending' = group
    BY <1>5 DEF InFlight, Pending, Leading
  <2> QED BY <2>1, <1>5 DEF InFlight, Leading
<1> HIDE DEF m, K, T, L, group
<1>12. \A e \in group : e \in Entry /\ e.seq \in Nat /\ lastSeq < e.seq
  BY <1>2, <1>3, EntryFields
<1>13. DiskInv'
  <2>1. DiskTypes(T, K, logs, synced, L, Last(m).seq, groups)
    BY <1>1, DiskTyped DEF Types, T, K, L
  <2>2. Disk(T, K, logs, synced, L, Last(m).seq, groups)
    BY <1>1 DEF DiskOf, T, K, L
  <2> DEFINE L1 == LogEnts(K, logs) \cup MemEnts'
  <2>3. \A f \in MemEnts' : f \in MemEnts \/ f \in group
    BY <1>0, <1>7 DEF MemEnts
  <2>4. L1 \in SUBSET Entry /\ \A f \in L1 : f \in L \/ f.seq > Last(m).seq
    <3>1. \A f \in L : f \in Entry
      BY <2>1 DEF DiskTypes
    <3>2. \A f \in group : f.seq > Last(m).seq
      BY <1>1, <1>12
    <3> QED BY <2>3, <3>1, <3>2, <1>12 DEF L
  <2> HIDE DEF L1
  <2>5. Disk(T, K, logs, synced, L1, Last(m).seq, groups)
    <3>1. Last(m).seq <= Last(m).seq
      BY <1>1
    <3> QED BY <2>1, <2>2, <2>4, <3>1, <1>1, DiskOther
  <2>6. DiskOf(m)'
    <3>1. m' = m /\ Ents(tables', Ver(m')) = T /\ KeptLogs(m', logs') = K
      BY <1>0 DEF m, T, K
    <3> QED BY <2>5, <3>1, <1>0 DEF DiskOf, L1
  <2> QED BY <2>6, <1>0, <1>1 DEF DiskInv, m
<1>14. Quiet' /\ ReplayInv' /\ NewVersion'
  BY <1>0, OnlyWhenOpen
<1>15. Numbers' /\ OtherLogs'
  <2>1. Numbers'
    BY <1>0, <1>1, <1>7 DEF Semantic, Numbers, Ready
  <2> QED BY <2>1, <1>0, <1>1 DEF Semantic, OtherLogs, Ready
<1>16. Layered'
  <2>1. /\ Below(Tab, Imm) /\ Below(Tab, mems[logNo]) /\ Below(Imm, mems[logNo])
        /\ \A e \in Tab \cup Imm : e.seq <= lastSeq
        /\ \A e \in mems[logNo] \cup Log : e.seq <= lastSeq \/ e \in group
        /\ Unique(Tab \cup Imm \cup mems[logNo] \cup Log) /\ Below(Tab \cup Imm, Log)
        /\ \A e \in Tab \cup Imm \cup mems[logNo] : e.del => \E g \in groups : e \in g.entries
    BY <1>1, <1>4 DEF Semantic, Layered
  <2>2. \A e \in Tab \cup Imm : e.seq \in Nat
    <3>1. Tab \subseteq Entry
      BY <1>1, EntsType DEF Types, Tab
    <3>2. Imm \subseteq Entry
      BY <1>2, <1>9 DEF MemTypes, Imm
    <3> QED BY <3>1, <3>2, EntryFields
  <2>3. \A e \in group, f \in Tab \cup Imm : f.seq < e.seq
    BY <2>1, <2>2, <1>1, <1>12
  <2>4. Below(Tab, mems[logNo] \cup group) /\ Below(Imm, mems[logNo] \cup group)
    BY <2>1, <2>3 DEF Below
  <2>5. Unique(Tab \cup Imm \cup (mems[logNo] \cup group) \cup Log)
    <3>1. \A e \in Tab \cup Imm \cup mems[logNo] \cup Log : e.seq <= lastSeq \/ e \in group
      BY <2>1
    <3>2. \A e \in Tab \cup Imm \cup mems[logNo] \cup Log, f \in group : e.seq = f.seq => e = f
      BY <3>1, <1>1, <1>3, <1>12 DEF Unique
    <3> QED BY <2>1, <3>2, <1>3 DEF Unique
  <2>6. \A e \in Tab \cup Imm \cup (mems[logNo] \cup group) : e.del => \E g \in groups : e \in g.entries
    BY <2>1, <1>3
  <2>7. \A e \in (mems[logNo] \cup group) \cup Log : e.seq <= lastSeq \/ e \in group
    BY <2>1
  <2> QED BY <2>1, <2>4, <2>5, <2>6, <2>7, <1>0, <1>7, <1>10, <1>11 DEF Layered
<1>17. LogsMatch'
  <2>1. /\ bgError \/ Log \subseteq mems[logNo] \cup group
        /\ Torn \in Range(logs[logNo]) \/ mems[logNo] \subseteq Log
        /\ immNo # 0 => /\ ReadLog(logs[immNo]) \subseteq Imm
                        /\ Torn \in Range(logs[immNo]) \/ Imm \subseteq ReadLog(logs[immNo])
    BY <1>1, <1>4 DEF Semantic, LogsMatch
  <2>2. Torn \in Range(logs[logNo]) \/ group \subseteq Log
    <3> SUFFICES ASSUME group \in Range(logs[logNo]), NEW e \in group PROVE e \in Log
      BY <1>3
    <3>1. group # Torn
      BY <1>2, NoEntryIsNone DEF group
    <3>2. PICK i \in DOMAIN logs[logNo] : logs[logNo][i] = group
      BY DEF Range
    <3> QED BY <3>1, <3>2, ReadLogMember DEF Log
  <2> QED BY <2>1, <2>2, <1>0, <1>7, <1>10 DEF LogsMatch
<1>18. Leaders'
  <2> SUFFICES ASSUME NEW d \in Clients, call'[d].pc \in Leading
               PROVE  LET grp == call'[d].group IN
                      /\ phase' = "open" /\ writers' # <<>> /\ Head(writers') = d
                      /\ IsFiniteSet(grp) /\ Unique(grp)
                      /\ \A e \in grp : lastSeq' < e.seq /\ e.seq <= lastSeq' + Cardinality(grp)
                      /\ call'[d].pc # "log" /\ call'[d].ok => \E g \in groups' : g.entries = grp
                      /\ call'[d].pc = "insert" =>
                           call'[d].ok /\ (Torn \in Range(logs'[logNo']) \/ grp \in Range(logs'[logNo']))
                      /\ call'[d].pc # "log" /\ call'[d].ok /\ grp # {} =>
                           \A g \in groups' : g.whole /\ g.sync /\ g.entries = grp =>
                              \E i \in 1 .. synced'[logNo'] : logs'[logNo'][i] = grp
    BY DEF Leaders
  <2>1. d = c
    BY <1>5
  <2>2. call'[d].group = group /\ call'[d].pc = "publish"
    BY <2>1, <1>5 DEF group
  <2> QED BY <2>1, <2>2, <1>0, <1>3
<1>19. OpenVersion'
  <2>1. /\ bg' = bg /\ (bgError => bgError') /\ nextFile' \in Nat /\ nextFile <= nextFile'
        /\ lastSeq' \in Nat /\ lastSeq <= lastSeq' /\ bgError \in BOOLEAN
    BY <1>0, <1>1 DEF Types, NumberTypes
  <2> QED BY <2>1, <1>0, <1>1, <1>10, SameVersion
<1>20. Compacting' /\ Jobs' /\ Garbage'
  <2>1. lastSeq' \in Nat /\ lastSeq <= lastSeq'
    BY <1>0, <1>1
  <2> QED BY <2>1, <1>0, <1>1, <1>10, SameJobs
<1>21. Reading'
  <2>1. /\ lastSeq' \in Nat /\ lastSeq <= lastSeq' /\ nextFile' \in Nat /\ nextFile <= nextFile'
    BY <1>0, <1>1
  <2>2. Reading /\ \A x \in Readers : reader[x].on => reader[x].files \subseteq DOMAIN tables'
    BY <1>0, <1>1 DEF Semantic, Reading
  <2> QED BY <2>1, <2>2, <1>0, <1>1, <1>7, SameReading
\* What is inserted is newer than what any reader asks for.
<1>22. ASSUME NEW n \in DOMAIN mems, NEW snap \in Nat, snap <= lastSeq, NEW k \in Keys
       PROVE  Newest(mems'[n], k, snap) = Newest(mems[n], k, snap)
  <2>1. CASE n # logNo
    BY <2>1, <1>7
  <2>2. CASE n = logNo
    <3>1. \A e \in group : ~(e.seq <= snap)
      BY <1>1, <1>12, <1>22
    <3>2. Seen(mems'[logNo], k, snap) = Seen(mems[logNo], k, snap)
      BY <3>1, <1>7 DEF Seen
    <3> QED BY <2>2, <3>2, NewestSame
  <2> QED BY <2>1, <2>2
<1>23. ReadsSnapshot'
  <2>1. Reading
    BY <1>1 DEF Semantic
  <2>2. ASSUME NEW r \in Readers, reader[r].on
        PROVE  Shown(reader[r].mem, reader[r].imm, reader[r].files, reader[r].at)' =
               Shown(reader[r].mem, reader[r].imm, reader[r].files, reader[r].at)
    <3>1. PICK mem, imm, fs, snap : mem = reader[r].mem /\ imm = reader[r].imm
                                    /\ fs = reader[r].files /\ snap = reader[r].at
      OBVIOUS
    <3>2. mem \in DOMAIN mems /\ (imm # 0 => imm \in DOMAIN mems) /\ snap \in Nat /\ snap <= lastSeq
      BY <2>1, <2>2, <3>1, <1>1 DEF Reading, Types, ReaderTypes
    <3>3. Shown(mem, imm, fs, snap)' = Shown(mem, imm, fs, snap)
      BY <3>2, <1>0, <1>22, ShownSame
    <3> QED BY <3>1, <3>3, <1>0
  <2>3. ASSUME NEW r \in Readers PROVE View(snapshot[r].seq)' = View(snapshot[r].seq)
    <3>1. PICK mem, imm, fs, snap : mem = logNo /\ imm = immNo
                                    /\ fs = DOMAIN files /\ snap = snapshot[r].seq
      OBVIOUS
    <3>2. mem \in DOMAIN mems /\ (imm # 0 => imm \in DOMAIN mems) /\ snap \in Nat /\ snap <= lastSeq
      BY <2>1, <3>1, <1>1, <1>9 DEF Reading, Types, ReaderTypes
    <3>3. Shown(mem, imm, fs, snap)' = Shown(mem, imm, fs, snap)
      BY <3>2, <1>0, <1>22, ShownSame
    <3> QED BY <3>1, <3>3, <1>0 DEF View
  <2> QED BY <2>1, <2>2, <2>3, <1>0, <1>1, SameReads
<1> QED BY <1>8, <1>13, <1>14, <1>15, <1>16, <1>17, <1>18, <1>19, <1>20, <1>21, <1>23
        DEF Inv, Semantic

LEMMA GroupSizeType ==
  ASSUME CallTypes
  PROVE  GroupSize \in Nat \ {0}
<1> DEFINE S == {i \in DOMAIN writers : call[writers[i]].pc = "grouped"}
<1>1. writers \in Seq(Clients)
  BY DEF CallTypes
<1>2. DOMAIN writers = 1 .. Len(writers) /\ Len(writers) \in Nat
  BY <1>1
<1>3. IsFiniteSet(1 .. Len(writers))
  <2>1. 1 \in Int /\ Len(writers) \in Int
    BY <1>2
  <2> QED BY <2>1, FS_Interval
<1>4. S \subseteq 1 .. Len(writers)
  BY <1>2
<1> HIDE DEF S
<1>5. Cardinality(S) \in Nat
  BY <1>3, <1>4, FS_Subset, FS_CardinalityType
<1> QED BY <1>5 DEF GroupSize, S

LEMMA PublishKeeps ==
  ASSUME Inv, NEW c \in Clients, Publish(c)
  PROVE  Inv'
<1> USE DEF disk, memory, background
<1> DEFINE m == manifests[CURRENT]
           K == KeptLogs(m, logs)
           T == Ents(tables, Ver(m))
           L == LogEnts(K, logs) \cup MemEnts
           group == call[c].group
<1>0. /\ phase = "open" /\ writers # << >> /\ Head(writers) = c /\ AtFront(c)
      /\ call[c].pc \in {"publish", "syncError"}
      /\ bgError' = (bgError \/ call[c].pc = "syncError")
      /\ lastSeq' = lastSeq + Cardinality(call[c].group) /\ Leave(GroupSize)
      /\ groups' = {IF g.entries = call[c].group THEN Answered(g, call[c].ok) ELSE g : g \in groups}
      /\ UNCHANGED <<disk, phase, memory, files, logNumber, nextFile, manifestNo, descriptorOpen,
                     background, todo, reader, snapshot>>
  BY DEF AtFront, Publish
<1>1. /\ Types /\ Semantic /\ ReadsSnapshot /\ Ready
      /\ CURRENT \in DOMAIN manifests /\ Usable(m, CURRENT, tables)
      /\ DiskOf(m) /\ CURRENT # 0 /\ Last(m).seq \in Nat
      /\ logNo \in DOMAIN logs /\ logNo \in DOMAIN mems /\ logNo \in Nat
      /\ lastSeq \in Nat /\ nextFile \in Nat /\ Last(m).seq <= lastSeq
  BY <1>0, OpenFacts
<1>2. call \in [Clients -> Writer] /\ group \subseteq Entry /\ call[c].ok \in BOOLEAN
      /\ CallTypes /\ MemTypes /\ Leaders /\ LogTypes
  BY <1>1 DEF Types, CallTypes, Writer, Semantic
<1>3. /\ IsFiniteSet(group)
      /\ \A e \in group : lastSeq < e.seq /\ e.seq <= lastSeq + Cardinality(group)
      /\ call[c].ok /\ group # {} => \A g \in groups : g.whole /\ g.sync /\ g.entries = group =>
                                        \E i \in 1 .. synced[logNo] : logs[logNo][i] = group
  BY <1>0, <1>2 DEF Leaders, Leading
<1>4. Pending = group
      /\ InFlight({"insert", "syncError"}) = IF call[c].pc = "syncError" THEN group ELSE {}
  <2>1. {"insert", "syncError"} \in SUBSET Leading /\ {"insert", "publish", "syncError"} \in SUBSET Leading
    BY DEF Leading
  <2> QED BY <2>1, <1>0, <1>2, OneLeader DEF Pending
<1>5. CallTypes' /\ Leaders' /\ \A d \in Clients : call'[d].pc \notin Leading
  BY <1>0, <1>2, GroupSizeType, LeaveKeeps
<1>6. Cardinality(group) \in Nat /\ lastSeq' \in Nat /\ lastSeq <= lastSeq'
  BY <1>0, <1>1, <1>3, FS_CardinalityType
<1>7. logNo \in K
  BY <1>0, KeptLogsOpen
<1>8. DiskTypes(T, K, logs, synced, L, Last(m).seq, groups)
  BY <1>1, DiskTyped DEF Types
<1>9. Disk(T, K, logs, synced, L, Last(m).seq, groups)
  BY <1>1 DEF DiskOf
<1> HIDE DEF m, K, T, L, group
<1>10. groups' \subseteq Group /\ Disk(T, K, logs, synced, L, Last(m).seq, groups')
  <2>1. call[c].ok /\ group # {} => \A g \in groups : g.whole /\ g.sync /\ g.entries = group =>
           \E n \in K : \E i \in 1 .. synced[n] : logs[n][i] = group
    BY <1>3, <1>7
  <2>2. groups' = AnsweredIn(groups, group, call[c].ok)
    BY <1>0 DEF group, AnsweredIn
  <2> QED BY <2>1, <2>2, <1>2, <1>8, <1>9, DiskAnswer
<1>11. \A g \in groups : \E h \in groups' : h.entries = g.entries
  <2> TAKE g \in groups
  <2> DEFINE h == IF g.entries = group THEN Answered(g, call[c].ok) ELSE g
  <2>1. h \in groups'
    BY <1>0 DEF group
  <2>2. h.entries = g.entries
    BY DEF Answered
  <2> QED BY <2>1, <2>2
<1>12. Types'
  <2>1. LogTypes'
    BY <1>0, <1>2, <1>10 DEF LogTypes
  <2>2. NumberTypes'
    BY <1>0, <1>1, <1>6 DEF Types, NumberTypes
  <2> QED BY <2>1, <2>2, <1>0, <1>1, <1>5, SameTypes DEF Types
<1>13. DiskInv'
  <2>1. DiskOf(m)'
    <3>1. m' = m /\ Ents(tables', Ver(m')) = T /\ KeptLogs(m', logs') = K
          /\ LogEnts(K, logs') \cup MemEnts' = L
      BY <1>0 DEF m, T, K, L, MemEnts
    <3> QED BY <3>1, <1>0, <1>10 DEF DiskOf
  <2> QED BY <2>1, <1>0, <1>1 DEF DiskInv, m
<1>14. Quiet' /\ ReplayInv' /\ NewVersion'
  BY <1>0, OnlyWhenOpen
<1>15. Numbers' /\ OtherLogs'
  BY <1>0, <1>1, SameNumbers DEF Semantic
<1>16. UNCHANGED <<Tab, Imm, Log>> /\ Ready'
  BY <1>0, <1>1 DEF Tab, Imm, Log, Ready
<1>17. Pending' = {} /\ InFlight({"insert", "syncError"})' = {}
  BY <1>5 DEF InFlight, Pending, Leading
<1>18. Layered'
  <2>1. /\ Below(Tab, Imm) /\ Below(Tab, mems[logNo]) /\ Below(Imm, mems[logNo])
        /\ \A e \in Tab \cup Imm : e.seq <= lastSeq
        /\ \A e \in mems[logNo] \cup Log : e.seq <= lastSeq \/ e \in group
        /\ Unique(Tab \cup Imm \cup mems[logNo] \cup Log) /\ Below(Tab \cup Imm, Log)
        /\ \A e \in Tab \cup Imm \cup mems[logNo] : e.del => \E g \in groups : e \in g.entries
    BY <1>1, <1>4 DEF Semantic, Layered
  <2>2. Tab \cup Imm \cup mems[logNo] \cup Log \subseteq Entry
    <3>1. Tab \subseteq Entry
      BY <1>1, EntsType DEF Types, Tab
    <3>2. Imm \subseteq Entry /\ mems[logNo] \subseteq Entry
      BY <1>1, <1>2 DEF MemTypes, Imm, Semantic, Numbers
    <3>3. Log \subseteq Entry
      BY <1>1, <1>2, ReadLogType DEF Log, LogTypes
    <3> QED BY <3>1, <3>2, <3>3
  <2>3. \A e \in Tab \cup Imm \cup mems[logNo] \cup Log : e.seq \in Nat
    BY <2>2, EntryFields
  <2>4. \A e \in Tab \cup Imm : e.seq <= lastSeq'
    BY <2>1, <2>3, <1>1, <1>6
  <2>5. \A e \in mems[logNo] \cup Log : e.seq <= lastSeq'
    BY <2>1, <2>3, <1>0, <1>1, <1>3, <1>6 DEF group
  <2>6. \A e \in Tab \cup Imm \cup mems[logNo] : e.del => \E g \in groups' : e \in g.entries
    <3> TAKE e \in Tab \cup Imm \cup mems[logNo]
    <3> HAVE e.del
    <3>1. PICK g \in groups : e \in g.entries
      BY <2>1
    <3>2. PICK h \in groups' : h.entries = g.entries
      BY <1>11
    <3> QED BY <3>1, <3>2
  <2> QED BY <2>1, <2>4, <2>5, <2>6, <1>0, <1>16 DEF Layered
<1>19. LogsMatch'
  <2>1. bgError' \/ Log \subseteq mems[logNo]
    BY <1>0, <1>1, <1>4 DEF Semantic, LogsMatch
  <2> QED BY <2>1, <1>0, <1>1, <1>16 DEF Semantic, LogsMatch
<1>20. OpenVersion'
  <2>1. /\ bg' = bg /\ (bgError => bgError') /\ nextFile' \in Nat /\ nextFile <= nextFile'
        /\ bgError \in BOOLEAN
    BY <1>0, <1>1 DEF Types, NumberTypes
  <2> QED BY <2>1, <1>0, <1>1, <1>6, <1>16, SameVersion
<1>21. Compacting' /\ Jobs' /\ Garbage'
  BY <1>0, <1>1, <1>6, <1>16, SameJobs
<1>22. Reading'
  <2>1. nextFile' \in Nat /\ nextFile <= nextFile'
    BY <1>0, <1>1
  <2>2. Reading /\ \A x \in Readers : reader[x].on => reader[x].files \subseteq DOMAIN tables'
    BY <1>0, <1>1 DEF Semantic, Reading
  <2> QED BY <2>1, <2>2, <1>0, <1>1, <1>6, SameReading
<1>23. ReadsSnapshot'
  <2>1. Reading
    BY <1>1 DEF Semantic
  <2> QED BY <2>1, <1>0, <1>1, SameShown, SameReads
<1> QED BY <1>5, <1>12, <1>13, <1>14, <1>15, <1>18, <1>19, <1>20, <1>21, <1>22, <1>23
        DEF Inv, Semantic

LEMMA SwitchMemTableKeeps ==
  ASSUME Inv, NEW c \in Clients, SwitchMemTable(c)
  PROVE  Inv'
<1> DEFINE m == manifests[CURRENT]
           K == KeptLogs(m, logs)
           T == Ents(tables, Ver(m))
           L == LogEnts(K, logs) \cup MemEnts
<1>0. /\ phase = "open" /\ AtFront(c) /\ call[c].pc = "queued" /\ ~bgError /\ immNo = 0
      /\ logs' = With(logs, nextFile, << >>) /\ synced' = With(synced, nextFile, 0)
      /\ mems' = With(mems, nextFile, {}) /\ immNo' = logNo /\ logNo' = nextFile
      /\ nextFile' = nextFile + 1 /\ bgError' = bgError /\ bg' = Scheduled(immNo', files)
      /\ UNCHANGED <<tables, manifests, CURRENT, phase, writers, call, files, logNumber, lastSeq,
                     manifestNo, descriptorOpen, pending, job, comp, garbage, todo, reader,
                     snapshot, groups>>
  BY DEF AtFront, SwitchMemTable
<1>1. /\ Types /\ Semantic /\ ReadsSnapshot /\ Ready
      /\ CURRENT \in DOMAIN manifests /\ Usable(m, CURRENT, tables)
      /\ DiskOf(m) /\ CURRENT # 0 /\ Last(m).seq \in Nat /\ Last(m).log \in Nat
      /\ logNo \in DOMAIN logs /\ logNo \in DOMAIN mems /\ logNo \in Nat
      /\ lastSeq \in Nat /\ nextFile \in Nat /\ Last(m).seq <= lastSeq
      /\ Last(m).log <= logNo /\ logNumber \in Nat /\ CURRENT = manifestNo
  BY <1>0, OpenFacts
<1>2. /\ logNo # 0 /\ logNumber <= logNo /\ logNo < nextFile
      /\ (\A n \in DOMAIN logs : n <= logNo) /\ (\A n \in DOMAIN mems : n < nextFile)
      /\ DOMAIN files \subseteq DOMAIN tables /\ (\A f \in DOMAIN files : f < nextFile)
      /\ manifestNo < nextFile
  BY <1>1 DEF Semantic, Numbers
<1>3. LogTypes /\ TableTypes /\ MemTypes /\ NumberTypes /\ CallTypes /\ ReaderTypes /\ Leaders
  BY <1>1 DEF Types, Semantic
<1>4. \A n \in DOMAIN logs : n \in Nat /\ n # nextFile
  BY <1>1, <1>2, <1>3 DEF LogTypes
<1>5. /\ DOMAIN logs' = DOMAIN logs \cup {nextFile} /\ logs'[nextFile] = << >>
      /\ \A n \in DOMAIN logs : logs'[n] = logs[n]
  BY <1>0, <1>4 DEF With
<1>6. /\ DOMAIN synced' = DOMAIN logs \cup {nextFile} /\ synced'[nextFile] = 0
      /\ DOMAIN synced = DOMAIN logs
      /\ \A n \in DOMAIN logs : synced'[n] = synced[n]
  BY <1>0, <1>3, <1>4 DEF LogTypes, With
<1>7. \A n \in DOMAIN mems : n \in Nat /\ n # nextFile
  BY <1>1, <1>2, <1>3 DEF MemTypes
<1>8. /\ DOMAIN mems' = DOMAIN mems \cup {nextFile} /\ mems'[nextFile] = {}
      /\ \A n \in DOMAIN mems : mems'[n] = mems[n]
  BY <1>0, <1>7 DEF With
<1>9. ReadLog(logs'[nextFile]) = {} /\ Range(logs'[nextFile]) = {}
  BY <1>5, ReadLogEmpty DEF Range
<1>10. Types'
  <2>1. LogTypes'
    <3>1. DOMAIN logs' \subseteq Nat \ {0}
      BY <1>1, <1>2, <1>3, <1>5 DEF LogTypes
    <3>2. \A n \in DOMAIN logs' : logs'[n] \in Seq(Record) /\ synced'[n] \in 0 .. Len(logs'[n])
      <4> TAKE n \in DOMAIN logs'
      <4>1. CASE n \in DOMAIN logs
        BY <4>1, <1>3, <1>5, <1>6 DEF LogTypes
      <4>2. CASE n = nextFile
        <5>1. logs'[n] = << >> /\ synced'[n] = 0
          BY <4>2, <1>5, <1>6
        <5> QED BY <5>1
      <4> QED BY <4>1, <4>2, <1>5
    <3>3. PICK b \in Nat : \A n \in DOMAIN logs : \A e \in ReadLog(logs[n]) : e.seq <= b
      BY <1>3 DEF LogTypes
    <3>4. \A n \in DOMAIN logs' : \A e \in ReadLog(logs'[n]) : e.seq <= b
      BY <3>3, <1>5, <1>9
    <3>5. groups' \subseteq Group /\ DOMAIN synced' = DOMAIN logs'
      BY <1>0, <1>3, <1>5, <1>6 DEF LogTypes
    <3> QED BY <3>1, <3>2, <3>4, <3>5 DEF LogTypes
  <2>2. MemTypes'
    BY <1>1, <1>2, <1>3, <1>8 DEF MemTypes
  <2>3. NumberTypes'
    BY <1>0, <1>1, <1>3 DEF NumberTypes
  <2> QED BY <2>1, <2>2, <2>3, <1>0, <1>1, SameTypes DEF Types
<1>11. MemEnts' = MemEnts
  <2>1. MemEnts = mems[logNo]
    <3>1. 0 \notin DOMAIN mems
      BY <1>3 DEF MemTypes
    <3>2. {logNo, immNo} \cap DOMAIN mems = {logNo}
      BY <3>1, <1>0, <1>1
    <3> QED BY <3>2 DEF MemEnts
  <2>2. MemEnts' = mems[logNo]
    <3>1. {nextFile, logNo} \cap (DOMAIN mems \cup {nextFile}) = {nextFile, logNo}
      BY <1>1
    <3>2. MemEnts' = UNION {mems'[n] : n \in {nextFile, logNo}}
      BY <3>1, <1>0, <1>8 DEF MemEnts
    <3>3. mems'[nextFile] = {} /\ mems'[logNo] = mems[logNo]
      BY <1>1, <1>8
    <3> QED BY <3>2, <3>3
  <2> QED BY <2>1, <2>2
<1>12. DiskInv'
  <2>1. DiskTypes(T, K, logs, synced, L, Last(m).seq, groups)
    BY <1>1, DiskTyped DEF Types
  <2>2. Disk(T, K, logs, synced, L, Last(m).seq, groups)
    BY <1>1 DEF DiskOf
  <2>3. nextFile \notin K /\ \A n \in K : n \in DOMAIN logs
    BY <1>4 DEF KeptLogs
  <2>4. KeptLogs(m, logs') = K \cup {nextFile}
    BY <1>1, <1>2, <1>4, <1>5 DEF KeptLogs
  <2> HIDE DEF T, K, L, m
  <2>5. L \in SUBSET Entry /\ L \subseteq L
    BY <2>1 DEF DiskTypes
  <2>6. /\ LogEnts(K \cup {nextFile}, logs') = LogEnts(K, logs)
        /\ Disk(T, K \cup {nextFile}, logs', synced', L, Last(m).seq, groups)
    <3>1. \A n \in K : logs'[n] = logs[n] /\ synced'[n] = synced[n]
      BY <2>3, <1>5, <1>6
    <3>2. PICK n0, lg1, sy1, seq : n0 = nextFile /\ lg1 = logs' /\ sy1 = synced' /\ seq = Last(m).seq
      OBVIOUS
    <3>3. n0 \notin K /\ lg1[n0] = << >> /\ \A n \in K : lg1[n] = logs[n] /\ sy1[n] = synced[n]
      BY <2>3, <3>1, <3>2, <1>5
    <3>4. DiskTypes(T, K, logs, synced, L, seq, groups) /\ Disk(T, K, logs, synced, L, seq, groups)
      BY <2>1, <2>2, <3>2
    <3>5. /\ LogEnts(K \cup {n0}, lg1) = LogEnts(K, logs)
          /\ Disk(T, K \cup {n0}, lg1, sy1, L, seq, groups)
      BY <3>3, <3>4, <2>5, DiskNewLog
    <3> QED BY <3>2, <3>5
  <2>7. DiskOf(m)'
    <3>1. m' = m /\ Ents(tables', Ver(m')) = T
      BY <1>0 DEF m, T
    <3>2. LogEnts(K \cup {nextFile}, logs') \cup MemEnts' = L
      BY <2>6, <1>11 DEF L
    <3> QED BY <2>4, <2>6, <3>1, <3>2, <1>0 DEF DiskOf
  <2> QED BY <2>7, <1>0, <1>1 DEF DiskInv, m
<1>13. Quiet' /\ ReplayInv' /\ NewVersion'
  BY <1>0, OnlyWhenOpen
<1>14. Numbers'
  <2>1. \A n \in DOMAIN logs' : n <= nextFile
    BY <1>1, <1>2, <1>4, <1>5
  <2>2. \A n \in DOMAIN mems' : n < nextFile + 1
    BY <1>1, <1>2, <1>7, <1>8
  <2>3. \A f \in DOMAIN files : f < nextFile + 1
    BY <1>1, <1>2, <1>3 DEF NumberTypes, TableTypes
  <2>4. manifestNo < nextFile + 1 /\ nextFile < nextFile + 1 /\ logNumber <= nextFile
    BY <1>1, <1>2, <1>3 DEF NumberTypes
  <2> QED BY <2>1, <2>2, <2>3, <2>4, <1>0, <1>1, <1>2, <1>5, <1>8 DEF Numbers
<1>15. OtherLogs'
  <2>1. \A n \in DOMAIN logs : n >= logNumber => n = logNo \/ ReadLog(logs[n]) = {}
    BY <1>0, <1>1, <1>3 DEF Semantic, OtherLogs, LogTypes
  <2>2. \A n \in DOMAIN logs' : n >= logNumber => n = nextFile \/ n = logNo \/ ReadLog(logs'[n]) = {}
    BY <2>1, <1>5
  <2> QED BY <2>2, <1>0 DEF OtherLogs
<1>16. Tab' = Tab /\ Imm' = mems[logNo] /\ Imm = {} /\ mems'[logNo'] = {} /\ Log' = {} /\ Ready'
  BY <1>0, <1>1, <1>2, <1>8, <1>9 DEF Tab, Imm, Log, Ready
<1>17. Leaders' /\ Pending = {} /\ Pending' = {} /\ InFlight({"insert", "syncError"}) = {}
  <2>1. \A d \in Clients : call[d].pc \notin Leading
    BY <1>0, <1>3 DEF Leaders, AtFront, Leading
  <2>2. Leaders'
    BY <2>1, <1>0 DEF Leaders
  <2>3. Pending = {} /\ InFlight({"insert", "syncError"}) = {}
    BY <2>1 DEF InFlight, Pending, Leading
  <2>4. Pending' = {}
    BY <2>1, <1>0 DEF InFlight, Pending, Leading
  <2> QED BY <2>2, <2>3, <2>4
<1>18. Layered'
  <2>1. /\ Below(Tab, mems[logNo])
        /\ \A e \in Tab : e.seq <= lastSeq
        /\ \A e \in mems[logNo] : e.seq <= lastSeq
        /\ Unique(Tab \cup Imm \cup mems[logNo] \cup Log)
        /\ \A e \in Tab \cup Imm \cup mems[logNo] : e.del => \E g \in groups : e \in g.entries
    BY <1>1, <1>17 DEF Semantic, Layered
  <2>2. Below(Tab, {}) /\ Below(mems[logNo], {}) /\ Below(Tab \cup mems[logNo], {})
    BY DEF Below
  <2>3. Unique(Tab \cup mems[logNo] \cup {} \cup {})
    BY <2>1 DEF Unique
  <2> QED BY <2>1, <2>2, <2>3, <1>0, <1>16 DEF Layered
<1>19. LogsMatch'
  <2>1. /\ Log \subseteq mems[logNo]
        /\ Torn \in Range(logs[logNo]) \/ mems[logNo] \subseteq Log
    BY <1>0, <1>1, <1>17 DEF Semantic, LogsMatch
  <2>2. immNo' = logNo /\ logs'[logNo] = logs[logNo]
    BY <1>0, <1>1, <1>5
  <2> QED BY <2>1, <2>2, <1>16 DEF LogsMatch, Log
<1>20. /\ bg \in {"none", "scheduled", "build", "manifest", "merge", "clean"}
       /\ bg = "none" => bg' \in {"none", "scheduled"} /\ comp = {}
       /\ bg # "none" => bg' = bg
       /\ bg # "build" /\ (bg = "manifest" => ~Flushing)
  <2>1. Jobs /\ Compacting
    BY <1>1 DEF Semantic
  <2>2. bg \in {"none", "scheduled", "build", "manifest", "merge", "clean"} /\ bg # "build"
        /\ (bg = "manifest" => ~Flushing)
    BY <2>1, <1>0 DEF Jobs
  <2>3. bg = "none" => comp = {}
    BY <2>1 DEF Compacting
  <2>4. bg = "none" => bg' \in {"none", "scheduled"}
    BY <1>0 DEF Scheduled
  <2>5. bg # "none" => bg' = bg
    BY <1>0 DEF Scheduled
  <2> QED BY <2>2, <2>3, <2>4, <2>5
<1>21. OpenVersion'
  <2>1. /\ Last(m).next <= nextFile /\ Last(m).seq <= lastSeq
        /\ Ver(m) = DOMAIN files /\ Last(m).log = logNumber
        /\ TM(m) \subseteq Tab \cup Imm
    BY <1>0, <1>1 DEF Semantic, OpenVersion
  <2>2. Last(m).next \in Nat
    BY <1>1, LastEdit
  <2>3. Last(m).next <= nextFile + 1
    BY <2>1, <2>2, <1>1
  <2>4. TM(m)' \subseteq Tab' \cup Imm' /\ m' = m
    BY <2>1, <1>0, <1>16 DEF TM
  <2> HIDE DEF m
  <2> QED BY <2>1, <2>3, <2>4, <1>0, <1>1 DEF OpenVersion, m
<1>22. \A n : Unused(n) /\ n \in Nat => Unused(n)'
  BY <1>0, <1>1 DEF Unused
<1>23. Compacting'
  <2>1. Compacting /\ \A x \in comp : x.out \in Nat
    BY <1>1, <1>3 DEF Semantic, NumberTypes
  <2> QED BY <2>1, <1>0, <1>20, <1>22 DEF Compacting
<1>24. Jobs'
  <2>1. Jobs
    BY <1>1 DEF Semantic
  <2>2. \A edit, out : EditFor(edit, out) => EditFor(edit, out)'
    <3> TAKE edit, out
    <3> HAVE EditFor(edit, out)
    <3>1. edit.next \in Nat /\ edit.next <= nextFile
      BY DEF EditFor, Edits
    <3>2. edit.next <= nextFile + 1
      BY <3>1, <1>1
    <3> QED BY <3>2, <1>0 DEF EditFor
  <2>3. bg' = "manifest" /\ ~Flushing' => bg = "manifest" /\ ~Flushing
    BY <1>0, <1>20 DEF Flushing
  <2>4. bg' # "build" /\ ~(bg' = "manifest" /\ Flushing')
    BY <1>0, <1>20 DEF Flushing
  <2>5. bg' \in {"none", "scheduled", "build", "manifest", "merge", "clean"} /\ phase' = "open"
    BY <1>0, <1>20
  <2>6. bg' = "manifest" /\ ~Flushing' =>
        /\ comp # {}
        /\ \A x \in comp :
            /\ x.out # 0 /\ tables[x.out] = Kept(Ents(tables, x.inputs), x.smallest)
            /\ EditFor(job.edit, x.out)
            /\ job.edit.del = x.inputs /\ job.edit.log = logNumber
    BY <2>1, <2>3 DEF Jobs
  <2> QED BY <2>2, <2>4, <2>5, <2>6, <1>0 DEF Jobs
<1>25. Garbage'
  <2>1. bg' = "clean" => bg = "clean"
    BY <1>20
  <2> QED BY <2>1, <1>0, <1>1 DEF Semantic, Garbage
<1>26. Reading'
  <2>1. Reading
    BY <1>1 DEF Semantic
  <2>2. \A r \in Readers : reader[r].imm # 0 /\ reader[r].imm \in DOMAIN mems =>
           reader[r].imm # nextFile
    BY <1>7
  <2>3. \A r \in Readers : \A f \in reader[r].files : f \in Nat
    BY <1>3 DEF ReaderTypes
  <2>4. \A r \in Readers : \A f \in reader[r].files : f < nextFile + 1
    BY <2>1, <2>3, <1>1 DEF Reading
  <2> QED BY <2>1, <2>2, <2>4, <1>0, <1>8 DEF Reading
<1>27. ReadsSnapshot'
  <2>1. Reading
    BY <1>1 DEF Semantic
  <2>2. ASSUME NEW r \in Readers, reader[r].on
        PROVE  Shown(reader[r].mem, reader[r].imm, reader[r].files, reader[r].at)' =
               Shown(reader[r].mem, reader[r].imm, reader[r].files, reader[r].at)
    <3>1. PICK mem, imm, fs, snap : mem = reader[r].mem /\ imm = reader[r].imm
                                    /\ fs = reader[r].files /\ snap = reader[r].at
      OBVIOUS
    <3>2. mem \in DOMAIN mems /\ (imm # 0 => imm \in DOMAIN mems)
      BY <2>1, <2>2, <3>1 DEF Reading
    <3>3. Shown(mem, imm, fs, snap)' = Shown(mem, imm, fs, snap)
      BY <3>2, <1>0, <1>8, ShownSame
    <3> QED BY <3>1, <3>3, <1>0
  <2>3. ASSUME NEW r \in Readers PROVE View(snapshot[r].seq)' = View(snapshot[r].seq)
    <3>1. PICK snap \in Nat : snap = snapshot[r].seq
      BY <1>3 DEF ReaderTypes
    <3>2. View(snap) = Vis(All, snap)
      BY <1>1, ViewAll DEF Semantic
    <3>3. View(snap)' = Vis(All', snap)
      <4>1. (Types /\ Numbers /\ Layered /\ Ready)'
        BY <1>10, <1>14, <1>16, <1>18
      <4>2. (View(snap) = Vis(All, snap))'
        BY <4>1, ViewAll, PTL
      <4> QED BY <4>2
    <3>4. All' = All
      BY <1>16 DEF All
    <3> QED BY <3>1, <3>2, <3>3, <3>4, <1>0
  <2> QED BY <2>1, <2>2, <2>3, <1>0, <1>1, SameReads
<1> QED BY <1>10, <1>12, <1>13, <1>14, <1>15, <1>17, <1>18, <1>19, <1>21, <1>23, <1>24, <1>25,
           <1>26, <1>27 DEF Inv, Semantic

-----------------------------------------------------------------------------
(* The background thread *)

LEMMA EntsSame ==
  ASSUME NEW tb, NEW tb1, NEW fs, fs \subseteq DOMAIN tb,
         \A f \in fs : f \in DOMAIN tb1 /\ tb1[f] = tb[f]
  PROVE  Ents(tb1, fs) = Ents(tb, fs)
<1>1. fs \cap DOMAIN tb = fs /\ fs \cap DOMAIN tb1 = fs
  OBVIOUS
<1> QED BY <1>1 DEF Ents

\* The tables of the version and of the readers are not touched.
LEMMA ReadsKept ==
  ASSUME Types, Numbers, Reading, ReadsSnapshot, phase = "open",
         UNCHANGED <<phase, reader, snapshot, mems, logNo, immNo, files>>,
         \A f \in DOMAIN files : f \in DOMAIN tables' /\ tables'[f] = tables[f],
         \A r \in Readers : reader[r].on =>
            \A f \in reader[r].files : f \in DOMAIN tables' /\ tables'[f] = tables[f]
  PROVE  ReadsSnapshot' /\ Tab' = Tab
<1>1. ASSUME NEW r \in Readers, reader[r].on
      PROVE  Shown(reader[r].mem, reader[r].imm, reader[r].files, reader[r].at)' =
             Shown(reader[r].mem, reader[r].imm, reader[r].files, reader[r].at)
  <2>1. PICK mem, imm, fs, snap : mem = reader[r].mem /\ imm = reader[r].imm
                                  /\ fs = reader[r].files /\ snap = reader[r].at
    OBVIOUS
  <2>2. fs \subseteq DOMAIN tables /\ \A f \in fs : f \in DOMAIN tables' /\ tables'[f] = tables[f]
    BY <1>1, <2>1 DEF Reading
  <2>3. Ents(tables', fs) = Ents(tables, fs)
    BY <2>2, EntsSame
  <2>4. Shown(mem, imm, fs, snap)' = Shown(mem, imm, fs, snap)
    BY <2>3, ShownSame
  <2> QED BY <2>1, <2>4
<1>2. Ents(tables', DOMAIN files) = Ents(tables, DOMAIN files)
  <2>1. DOMAIN files \subseteq DOMAIN tables
    BY DEF Numbers, Ready
  <2> QED BY <2>1, EntsSame
<1>3. ASSUME NEW r \in Readers PROVE View(snapshot[r].seq)' = View(snapshot[r].seq)
  <2>1. PICK mem, imm, fs, snap : mem = logNo /\ imm = immNo /\ fs = DOMAIN files
                                  /\ snap = snapshot[r].seq
    OBVIOUS
  <2>2. Shown(mem, imm, fs, snap)' = Shown(mem, imm, fs, snap)
    BY <1>2, <2>1, ShownSame
  <2> QED BY <2>1, <2>2 DEF View
<1>4. ReadsSnapshot'
  BY <1>1, <1>3, SameReads
<1> QED BY <1>2, <1>4 DEF Tab

\* A step of the background thread that leaves the logs, the MANIFEST, the
\* version and the memtables alone, and writes tables that nobody reads.
LEMMA BackgroundStep ==
  ASSUME Inv, phase = "open", bg # "none",
         UNCHANGED <<logs, synced, manifests, CURRENT, phase, writers, call, memory, files,
                     logNumber, lastSeq, manifestNo, descriptorOpen, todo, reader, snapshot,
                     groups>>,
         nextFile' \in Nat, nextFile <= nextFile', bgError' \in BOOLEAN, bgError => bgError',
         TableTypes', job'.table \in Nat,
         \A c \in comp' : c.inputs \subseteq Nat /\ c.smallest \in Nat /\ c.out \in Nat,
         \A f \in Ver(manifests[CURRENT]) \cup DOMAIN files :
            f \in DOMAIN tables => f \in DOMAIN tables' /\ tables'[f] = tables[f],
         \A r \in Readers : \A f \in reader[r].files :
            f \in DOMAIN tables => f \in DOMAIN tables' /\ tables'[f] = tables[f],
         Compacting', Jobs', Garbage'
  PROVE  Inv'
<1> DEFINE m == manifests[CURRENT]
<1> USE DEF memory
<1>1. /\ Types /\ Semantic /\ ReadsSnapshot /\ Ready
      /\ CURRENT \in DOMAIN manifests /\ Usable(m, CURRENT, tables)
      /\ DiskOf(m) /\ CURRENT = manifestNo /\ CURRENT # 0
      /\ Last(m).next \in Nat /\ nextFile \in Nat /\ lastSeq \in Nat
  BY OpenFacts
<1>2. NumberTypes /\ Numbers /\ Reading /\ OpenVersion /\ Leaders /\ OtherLogs /\ Layered
      /\ LogsMatch /\ TableTypes
  BY <1>1 DEF Types, Semantic
<1>3. Types'
  <2>1. NumberTypes'
    BY <1>1, <1>2 DEF NumberTypes
  <2> QED BY <2>1, <1>1, SameTypes DEF Types
<1>4. Ver(m) \subseteq DOMAIN tables /\ DOMAIN files \subseteq DOMAIN tables
  BY <1>1, <1>2 DEF Usable, Numbers
<1>5. Ents(tables', Ver(m)) = Ents(tables, Ver(m))
  BY <1>4, EntsSame
<1>6. DiskInv'
  <2>1. m' = m /\ MemEnts' = MemEnts
    BY DEF MemEnts
  <2>2. Usable(m, CURRENT, tables')
    BY <1>1, <1>4 DEF Usable
  <2> HIDE DEF m
  <2>3. DiskOf(m)'
    BY <1>1, <1>5, <2>1 DEF DiskOf
  <2> QED BY <1>1, <2>1, <2>2, <2>3 DEF DiskInv, m
<1>7. Quiet' /\ ReplayInv' /\ NewVersion'
  BY OnlyWhenOpen
<1>8. Numbers'
  <2>1. \A f \in DOMAIN files : f \in Nat
    BY <1>2, <1>4 DEF TableTypes
  <2>2. \A n \in DOMAIN mems : n \in Nat
    BY <1>1 DEF Types, MemTypes
  <2>3. DOMAIN files \subseteq DOMAIN tables'
    BY <1>4
  <2> QED BY <1>1, <1>2, <2>1, <2>2, <2>3 DEF Numbers, Ready, NumberTypes
<1>9. OtherLogs'
  BY <1>2 DEF OtherLogs, Ready
<1>10. /\ Leaders' /\ Pending' = Pending
       /\ InFlight({"insert", "syncError"})' = InFlight({"insert", "syncError"})
  BY <1>2, SameWriters
<1>11. ReadsSnapshot' /\ Tab' = Tab
  <2>1. \A r \in Readers : reader[r].on =>
            \A f \in reader[r].files : f \in DOMAIN tables' /\ tables'[f] = tables[f]
    BY <1>2 DEF Reading
  <2>2. \A f \in DOMAIN files : f \in DOMAIN tables' /\ tables'[f] = tables[f]
    BY <1>4
  <2> QED BY <1>1, <1>2, <2>1, <2>2, ReadsKept
<1>12. Imm' = Imm /\ Log' = Log /\ Ready'
  BY <1>1 DEF Imm, Log, Ready
<1>13. Layered'
  BY <1>1, <1>2, <1>10, <1>11, <1>12 DEF Layered
<1>14. LogsMatch'
  BY <1>1, <1>2, <1>10, <1>12 DEF LogsMatch
<1>15. OpenVersion'
  <2>1. m' = m /\ TM(m)' = TM(m)
    BY <1>5 DEF TM
  <2>2. /\ Last(m).next <= nextFile /\ Last(m).seq <= lastSeq
        /\ (~bgError => Ver(m) = DOMAIN files /\ Last(m).log = logNumber)
        /\ DOMAIN files \subseteq Ver(m)
        /\ TM(m) \subseteq Tab \cup Imm
        /\ \/ Last(m).log = logNumber
           \/ Last(m).log = logNo /\ immNo # 0 /\ Imm \subseteq TM(m)
    BY <1>2 DEF OpenVersion
  <2> HIDE DEF m
  <2> QED BY <2>1, <2>2, <1>1, <1>2, <1>11, <1>12 DEF OpenVersion, m, NumberTypes
<1>16. Reading'
  <2>1. \A r \in Readers : reader[r].on => reader[r].files \subseteq DOMAIN tables'
    BY <1>2 DEF Reading
  <2> QED BY <2>1, <1>1, <1>2, SameReading
<1> QED BY <1>3, <1>6, <1>7, <1>8, <1>9, <1>10, <1>11, <1>13, <1>14, <1>15, <1>16
        DEF Inv, Semantic

LEMMA UnusedKept ==
  ASSUME NEW n \in Nat, Unused(n), UNCHANGED <<files, manifests, CURRENT, reader>>,
         nextFile \in Nat, nextFile' \in Nat, nextFile <= nextFile'
  PROVE  Unused(n)'
  BY DEF Unused

LEMMA NextUnused ==
  ASSUME Inv, phase = "open", UNCHANGED <<files, manifests, CURRENT, reader>>,
         nextFile' = nextFile + 1
  PROVE  \E n \in Nat \ {0} : n = nextFile /\ Unused(n)' /\ ~Unused(n)
<1> DEFINE m == manifests[CURRENT]
<1>1. /\ Types /\ Semantic /\ Ready /\ Usable(m, CURRENT, tables)
      /\ Last(m).next \in Nat /\ nextFile \in Nat /\ nextFile # 0
  BY OpenFacts DEF Types, NumberTypes
<1>2. /\ Last(m).next <= nextFile /\ (\A f \in DOMAIN files : f < nextFile)
      /\ (\A r \in Readers : \A f \in reader[r].files : f < nextFile)
      /\ (\A f \in Ver(m) : f < Last(m).next)
  BY <1>1 DEF Semantic, OpenVersion, Numbers, Reading, Usable
<1>3. \A f \in Ver(m) : f \in Nat
  BY <1>1 DEF Types, TableTypes, Usable
<1>4. nextFile \notin DOMAIN files /\ nextFile \notin Ver(m)
      /\ \A r \in Readers : nextFile \notin reader[r].files
  BY <1>1, <1>2, <1>3
<1>5. PICK n \in Nat \ {0} : n = nextFile
  BY <1>1
<1>6. ~Unused(n) /\ n # 0 /\ n < nextFile'
  BY <1>5 DEF Unused
<1>7. /\ n \notin DOMAIN files' /\ n \notin Ver(manifests'[CURRENT'])
      /\ \A r \in Readers : n \notin reader'[r].files
  BY <1>4, <1>5
<1>8. Unused(n)'
  BY <1>6, <1>7 DEF Unused
<1> QED BY <1>5, <1>6, <1>8

\* The compaction goes on.
LEMMA CompKept ==
  ASSUME Inv, phase = "open",
         UNCHANGED <<manifests, CURRENT, files, reader, snapshot, lastSeq, comp, phase>>,
         nextFile' \in Nat, nextFile <= nextFile',
         \A f \in Ver(manifests[CURRENT]) \cup DOMAIN files :
            f \in DOMAIN tables => f \in DOMAIN tables' /\ tables'[f] = tables[f],
         \A c \in comp : c.out # 0 => c.out \in DOMAIN tables' /\ c.out \in pending',
         bg' = "merge" => comp # {},
         comp # {} => bg' \in {"merge", "build", "manifest", "clean"}
  PROVE  Compacting'
<1> DEFINE m == manifests[CURRENT]
<1>1. /\ Types /\ Semantic /\ Usable(m, CURRENT, tables) /\ nextFile \in Nat /\ Ready
  BY OpenFacts
<1>2. Ver(m) \subseteq DOMAIN tables /\ DOMAIN files \subseteq DOMAIN tables
  BY <1>1 DEF Usable, Semantic, Numbers
<1>3. Compacting /\ \A c \in comp : c.out \in Nat
  BY <1>1 DEF Semantic, Types, NumberTypes
<1>4. ASSUME NEW c \in comp
      PROVE  /\ Ents(tables', c.inputs) = Ents(tables, c.inputs)
             /\ Ents(tables', (Ver(m) \cup DOMAIN files) \ c.inputs) =
                Ents(tables, (Ver(m) \cup DOMAIN files) \ c.inputs)
  <2>1. c.inputs \subseteq DOMAIN files
    BY <1>3 DEF Compacting
  <2>2. Ents(tables', c.inputs) = Ents(tables, c.inputs)
    BY <1>2, <2>1, EntsSame
  <2>3. (Ver(m) \cup DOMAIN files) \ c.inputs \subseteq DOMAIN tables
    BY <1>2
  <2>4. \A f \in (Ver(m) \cup DOMAIN files) \ c.inputs : f \in DOMAIN tables' /\ tables'[f] = tables[f]
    BY <1>2
  <2> HIDE DEF m
  <2>5. Ents(tables', (Ver(m) \cup DOMAIN files) \ c.inputs) =
        Ents(tables, (Ver(m) \cup DOMAIN files) \ c.inputs)
    BY <2>3, <2>4, EntsSame
  <2> QED BY <2>2, <2>5
<1>5. \A c \in comp : c.out # 0 => Unused(c.out)'
  <2> TAKE c \in comp
  <2> HAVE c.out # 0
  <2>1. Unused(c.out) /\ c.out \in Nat
    BY <1>3 DEF Compacting
  <2>2. PICK n \in Nat : n = c.out
    BY <2>1
  <2>3. Unused(n)'
    BY <2>1, <2>2, <1>1, UnusedKept
  <2> QED BY <2>2, <2>3
<1> HIDE DEF m
<1> QED BY <1>3, <1>4, <1>5 DEF Compacting, m

LEMMA BackgroundIdleKeeps ==
  ASSUME Inv, BackgroundIdle
  PROVE  Inv'
<1> USE DEF disk, memory, versions
<1>1. /\ phase = "open" /\ bg = "scheduled" /\ bgError /\ bg' = "none"
      /\ UNCHANGED <<disk, phase, writers, call, memory, versions, pending, job, comp, garbage,
                   bgError, todo, reader, snapshot, groups>>
  BY DEF BackgroundIdle
<1>2. Types /\ Semantic /\ NumberTypes /\ TableTypes /\ Compacting
  BY DEF Inv, Types, Semantic
<1>3. comp = {}
  BY <1>1, <1>2 DEF Compacting
<1>4. /\ nextFile' \in Nat /\ nextFile <= nextFile' /\ bgError' \in BOOLEAN /\ (bgError => bgError')
      /\ TableTypes' /\ job'.table \in Nat
      /\ \A c \in comp' : c.inputs \subseteq Nat /\ c.smallest \in Nat /\ c.out \in Nat
  BY <1>1, <1>2 DEF NumberTypes, TableTypes
<1>5. Compacting' /\ Jobs' /\ Garbage'
  BY <1>1, <1>3 DEF Compacting, Jobs, Garbage
<1> QED BY <1>1, <1>4, <1>5, BackgroundStep

LEMMA FlushStartKeeps ==
  ASSUME Inv, FlushStart
  PROVE  Inv'
<1> USE DEF disk, memory
<1>1. /\ phase = "open" /\ immNo # 0 /\ bg \in {"scheduled", "merge"}
      /\ job' = [table |-> nextFile, edit |-> << >>] /\ pending' = pending \cup {nextFile}
      /\ nextFile' = nextFile + 1 /\ bg' = "build"
      /\ UNCHANGED <<disk, phase, writers, call, memory, files, logNumber, lastSeq, manifestNo,
                   descriptorOpen, comp, garbage, bgError, todo, reader, snapshot, groups>>
  BY DEF FlushStart
<1>2. Types /\ Semantic /\ NumberTypes /\ TableTypes /\ Compacting
  BY DEF Inv, Types, Semantic
<1>3. PICK n \in Nat \ {0} : n = nextFile /\ Unused(n)' /\ ~Unused(n)
  BY <1>1, NextUnused
<1>4. /\ nextFile' \in Nat /\ nextFile <= nextFile' /\ bgError' \in BOOLEAN /\ (bgError => bgError')
      /\ TableTypes' /\ job'.table \in Nat
      /\ \A c \in comp' : c.inputs \subseteq Nat /\ c.smallest \in Nat /\ c.out \in Nat
  BY <1>1, <1>2, <1>3 DEF NumberTypes, TableTypes
<1>5. Compacting'
  <2>1. \A c \in comp : c.out # 0 => c.out \in DOMAIN tables' /\ c.out \in pending'
    BY <1>1, <1>2 DEF Compacting
  <2>2. comp # {} => bg' \in {"merge", "build", "manifest", "clean"}
    BY <1>1
  <2>3. bg' = "merge" => comp # {}
    BY <1>1
  <2> QED BY <1>1, <1>4, <2>1, <2>2, <2>3, CompKept
<1>6. Jobs'
  <2>1. job'.table = n
    BY <1>1, <1>3
  <2>2. \A c \in comp : n # c.out
    BY <1>2, <1>3 DEF Compacting
  <2>3. bg' = "build" /\ phase' = "open"
    BY <1>1
  <2> QED BY <2>1, <2>2, <2>3, <1>1, <1>3 DEF Jobs
<1>7. Garbage'
  BY <1>1 DEF Garbage
<1>8. bg # "none"
  BY <1>1
<1> QED BY <1>1, <1>4, <1>5, <1>6, <1>7, <1>8, BackgroundStep

LEMMA OneTable ==
  ASSUME NEW t \in Nat, NEW level \in {0, 1}
  PROVE  [f \in {t} |-> level] \in Levels /\ DOMAIN [f \in {t} |-> level] = {t}
<1>1. [f \in {t} |-> level] \in [{t} -> {0, 1}] /\ {t} \in SUBSET Nat
  OBVIOUS
<1> QED BY <1>1 DEF Levels

\* The edit that LogAndApply completes.
LEMMA EditNow ==
  ASSUME Inv, phase = "open", UNCHANGED <<manifests, CURRENT, manifestNo, nextFile, lastSeq>>,
         NEW out \in Nat, out < nextFile, NEW add \in Levels, DOMAIN add = {out},
         NEW del \in SUBSET Nat, NEW log \in Nat, log < nextFile, NEW edit, edit = Edit(add, del, log)
  PROVE  EditFor(edit, out)' /\ edit.del = del /\ edit.log = log /\ edit.seq = lastSeq
<1> DEFINE m == manifests[CURRENT]
<1>1. /\ Types /\ Semantic /\ Ready /\ Usable(m, CURRENT, tables) /\ nextFile \in Nat /\ lastSeq \in Nat
      /\ Last(m).seq <= lastSeq
  BY OpenFacts
<1>2. Last(m).next <= nextFile /\ manifestNo < nextFile
  BY <1>1 DEF Semantic, OpenVersion, Numbers, Ready
<1>4. edit.add = add /\ edit.del = del /\ edit.log = log /\ edit.next = nextFile /\ edit.seq = lastSeq
  BY DEF Edit
<1>5. edit \in Edits
  BY <1>1 DEF Edit, Edits
<1> HIDE DEF m
<1> QED BY <1>1, <1>2, <1>4, <1>5 DEF EditFor, m

LEMMA FlushBuildKeeps ==
  ASSUME Inv, FlushBuild
  PROVE  Inv'
<1> USE DEF memory
<1>0. PICK t, level, edit :
      /\ t = job.table /\ level = OutputLevel(mems[immNo]) /\ level \in {0, 1}
      /\ edit = Edit([f \in {t} |-> level], {}, logNo)
  BY DEF OutputLevel
<1>1. /\ phase = "open" /\ bg = "build"
      /\ tables' = With(tables, t, mems[immNo]) /\ pending' = pending \ {t}
      /\ job' = [table |-> t, edit |-> edit] /\ bg' = "manifest"
      /\ UNCHANGED <<logs, synced, manifests, CURRENT, phase, writers, call, memory, versions,
                     comp, garbage, bgError, todo, reader, snapshot, groups>>
  BY <1>0 DEF FlushBuild, BuildTable
<1>2. /\ Types /\ Semantic /\ NumberTypes /\ TableTypes /\ MemTypes /\ Compacting /\ Jobs
      /\ Numbers /\ Ready /\ Layered
  BY <1>1 DEF Inv, Types, Semantic, Ready
<1>3. Unused(t) /\ t \in Nat /\ immNo # 0 /\ immNo \in DOMAIN mems /\ \A c \in comp : t # c.out
  BY <1>0, <1>1, <1>2 DEF Jobs, NumberTypes, Numbers
<1>4. /\ DOMAIN tables' = DOMAIN tables \cup {t} /\ tables'[t] = mems[immNo]
      /\ \A f \in DOMAIN tables : f # t => tables'[f] = tables[f]
  BY <1>1 DEF With
<1>5. /\ nextFile' = nextFile /\ nextFile \in Nat /\ bgError' \in BOOLEAN /\ bgError' = bgError
      /\ job'.table \in Nat /\ nextFile <= nextFile'
      /\ \A c \in comp' : c.inputs \subseteq Nat /\ c.smallest \in Nat /\ c.out \in Nat
      /\ t # 0 /\ t < nextFile
  BY <1>1, <1>2, <1>3 DEF NumberTypes, versions, Unused
<1>6. TableTypes'
  BY <1>2, <1>3, <1>4 DEF TableTypes, MemTypes
<1>7. /\ \A f \in Ver(manifests[CURRENT]) \cup DOMAIN files :
            f \in DOMAIN tables => f \in DOMAIN tables' /\ tables'[f] = tables[f]
      /\ \A r \in Readers : \A f \in reader[r].files :
            f \in DOMAIN tables => f \in DOMAIN tables' /\ tables'[f] = tables[f]
  BY <1>3, <1>4 DEF Unused
<1>8. Compacting'
  <2>1. \A c \in comp : c.out # 0 => c.out \in DOMAIN tables' /\ c.out \in pending'
    BY <1>1, <1>2, <1>3, <1>4 DEF Compacting
  <2>2. comp # {} => bg' \in {"merge", "build", "manifest", "clean"}
    BY <1>1
  <2>3. bg' = "merge" => comp # {}
    BY <1>1
  <2> QED BY <1>1, <1>5, <1>7, <2>1, <2>2, <2>3, CompKept DEF versions
<1>9. EditFor(edit, t)' /\ edit.del = {} /\ edit.log = logNo /\ edit.seq = lastSeq
  <2>1. PICK log \in Nat : log = logNo /\ log < nextFile
    BY <1>2 DEF Numbers, NumberTypes
  <2>2. PICK del \in SUBSET Nat : del = {} /\ edit = Edit([f \in {t} |-> level], del, log)
    BY <1>0, <2>1
  <2>4. PICK add \in Levels : DOMAIN add = {t} /\ edit = Edit(add, del, log)
    BY <1>0, <1>3, <2>2, OneTable
  <2>3. EditFor(edit, t)' /\ edit.del = del /\ edit.log = log /\ edit.seq = lastSeq
    BY <1>1, <1>3, <1>5, <2>1, <2>2, <2>4, EditNow DEF versions
  <2> QED BY <2>1, <2>2, <2>3
<1>10. Unused(t)'
  BY <1>1, <1>3, <1>5, UnusedKept DEF versions
<1>11. Jobs'
  <2>1. \A e \in Imm : e.seq <= lastSeq
    BY <1>2 DEF Layered
  <2>2. Imm' = Imm /\ mems' = mems /\ immNo' = immNo /\ immNo # 0 /\ comp' = comp /\ logNo' = logNo
    BY <1>1, <1>3 DEF Imm
  <2>3. job'.table = t /\ job'.edit = edit /\ Flushing' /\ bg' = "manifest" /\ phase' = "open"
    BY <1>1, <1>5 DEF Flushing
  <2> QED BY <2>1, <2>2, <2>3, <1>3, <1>4, <1>9, <1>10 DEF Jobs
<1>12. Garbage' /\ bg # "none"
  BY <1>1 DEF Garbage
<1> QED BY <1>1, <1>5, <1>6, <1>7, <1>8, <1>11, <1>12, BackgroundStep DEF versions

LEMMA FlushFailsKeeps ==
  ASSUME Inv, FlushFails
  PROVE  Inv'
<1> USE DEF memory, disk, versions
<1>1. /\ phase = "open" /\ bg = "build" /\ pending' = pending \ {job.table} /\ job' = NoJob
      /\ bgError' = TRUE /\ bg' = (IF comp # {} THEN "merge" ELSE "none")
      /\ UNCHANGED <<disk, phase, writers, call, memory, versions, comp, garbage, todo, reader,
                     snapshot, groups>>
  BY DEF FlushFails, Resume
<1>2. Types /\ Semantic /\ NumberTypes /\ TableTypes /\ Compacting /\ Jobs
  BY DEF Inv, Types, Semantic
<1>3. /\ nextFile' \in Nat /\ nextFile <= nextFile' /\ bgError' \in BOOLEAN /\ (bgError => bgError')
      /\ TableTypes' /\ job'.table \in Nat
      /\ \A c \in comp' : c.inputs \subseteq Nat /\ c.smallest \in Nat /\ c.out \in Nat
  BY <1>1, <1>2 DEF NumberTypes, TableTypes, NoJob
<1>4. Compacting'
  <2>1. \A c \in comp : c.out # 0 => c.out \in DOMAIN tables' /\ c.out \in pending'
    BY <1>1, <1>2 DEF Compacting, Jobs
  <2>2. comp # {} => bg' \in {"merge", "build", "manifest", "clean"}
    BY <1>1
  <2>3. bg' = "merge" => comp # {}
    BY <1>1
  <2> QED BY <1>1, <1>3, <2>1, <2>2, <2>3, CompKept
<1>5. Jobs' /\ Garbage' /\ bg # "none"
  BY <1>1 DEF Jobs, Garbage
<1> QED BY <1>1, <1>3, <1>4, <1>5, BackgroundStep

\* No snapshot is older than the smallest one.
LEMMA SmallestProperties ==
  ASSUME Types, Reading
  PROVE  /\ SmallestSnapshot \in Nat /\ SmallestSnapshot <= lastSeq
         /\ \A r \in Readers : snapshot[r].seq # 0 => SmallestSnapshot <= snapshot[r].seq
<1>1. lastSeq \in Nat /\ \A r \in Readers : snapshot[r].seq \in Nat /\ snapshot[r].seq <= lastSeq
  BY DEF Types, NumberTypes, ReaderTypes, Reading
<1>2. CASE Snapshots = {}
  <2>1. \A r \in Readers : snapshot[r].seq = 0
    BY <1>2 DEF Snapshots
  <2> QED BY <1>1, <1>2, <2>1 DEF SmallestSnapshot
<1>3. CASE Snapshots # {}
  <2>1. Snapshots \in SUBSET Nat
    BY <1>1 DEF Snapshots
  <2>2. \E x \in Snapshots : \A y \in Snapshots : x <= y
    BY <1>3, <2>1, LeastElement
  <2>3. Min(Snapshots) \in Snapshots /\ \A y \in Snapshots : Min(Snapshots) <= y
    BY <2>2 DEF Min
  <2>4. SmallestSnapshot = Min(Snapshots)
    BY <1>3 DEF SmallestSnapshot
  <2>5. \A r \in Readers : snapshot[r].seq # 0 => snapshot[r].seq \in Snapshots
    BY DEF Snapshots
  <2>6. \A s \in Snapshots : s \in Nat /\ s <= lastSeq
    BY <1>1 DEF Snapshots
  <2> QED BY <2>3, <2>4, <2>5, <2>6
<1> QED BY <1>2, <1>3

LEMMA CompactionStartKeeps ==
  ASSUME Inv, CompactionStart
  PROVE  Inv'
<1> USE DEF memory, disk, versions
<1>1. PICK x :
      /\ x = [inputs |-> DOMAIN files, smallest |-> SmallestSnapshot, out |-> 0]
      /\ phase = "open" /\ bg = "scheduled" /\ ~bgError /\ comp' = {x} /\ bg' = "merge"
      /\ UNCHANGED <<disk, phase, writers, call, memory, versions, pending, job, garbage, bgError,
                     todo, reader, snapshot, groups>>
  BY DEF CompactionStart
<1>2. Types /\ Semantic /\ NumberTypes /\ TableTypes /\ OpenVersion /\ Numbers /\ Reading /\ Ready
  BY <1>1 DEF Inv, Types, Semantic, Ready
<1>3. /\ SmallestSnapshot \in Nat /\ SmallestSnapshot <= lastSeq
      /\ \A r \in Readers : snapshot[r].seq # 0 => SmallestSnapshot <= snapshot[r].seq
  BY <1>2, SmallestProperties
<1>4. x.inputs = DOMAIN files /\ x.smallest = SmallestSnapshot /\ x.out = 0
  BY <1>1
<1>5. DOMAIN files \subseteq Nat
  BY <1>2 DEF Numbers, TableTypes
<1>6. /\ nextFile' \in Nat /\ nextFile <= nextFile' /\ bgError' \in BOOLEAN /\ (bgError => bgError')
      /\ TableTypes' /\ job'.table \in Nat
      /\ \A c \in comp' : c.inputs \subseteq Nat /\ c.smallest \in Nat /\ c.out \in Nat
  BY <1>1, <1>2, <1>3, <1>4, <1>5 DEF NumberTypes, TableTypes
<1>7. Compacting'
  <2>1. (Ver(manifests[CURRENT]) \cup DOMAIN files) \ x.inputs = {}
    BY <1>1, <1>2, <1>4 DEF OpenVersion
  <2>2. Below(Ents(tables, x.inputs), Ents(tables, (Ver(manifests[CURRENT]) \cup DOMAIN files) \ x.inputs))
    BY <2>1 DEF Below, Ents
  <2> HIDE DEF memory
  <2> QED BY <1>1, <1>3, <1>4, <2>2 DEF Compacting
<1>8. Jobs' /\ Garbage' /\ bg # "none"
  BY <1>1 DEF Jobs, Garbage
<1> QED BY <1>1, <1>6, <1>7, <1>8, BackgroundStep

LEMMA TheCompIs ==
  ASSUME Compacting, comp # {}
  PROVE  TheComp \in comp /\ comp = {TheComp}
  BY DEF TheComp, Compacting

LEMMA CompactionOpenKeeps ==
  ASSUME Inv, CompactionOpen
  PROVE  Inv'
<1> USE DEF memory
<1>1. PICK x, y, t :
      /\ x = TheComp /\ y = [inputs |-> x.inputs, smallest |-> x.smallest, out |-> t]
      /\ t = nextFile /\ phase = "open" /\ bg = "merge" /\ comp' = {y}
      /\ pending' = pending \cup {t} /\ tables' = With(tables, t, {}) /\ nextFile' = nextFile + 1
      /\ UNCHANGED <<logs, synced, manifests, CURRENT, phase, writers, call, memory, files,
                     logNumber, lastSeq, manifestNo, descriptorOpen, job, garbage, bgError, bg,
                     todo, reader, snapshot, groups>>
  BY DEF CompactionOpen
<1>2. /\ Types /\ Semantic /\ NumberTypes /\ TableTypes /\ Compacting /\ Numbers /\ Ready
  BY <1>1 DEF Inv, Types, Semantic, Ready
<1>3. x \in comp
  BY <1>1, <1>2, TheCompIs DEF Compacting
<1>4. t \in Nat \ {0} /\ Unused(t)'
  BY <1>1, NextUnused
<1>5. /\ t \notin DOMAIN files' /\ t \notin Ver(manifests'[CURRENT'])
      /\ \A r \in Readers : t \notin reader'[r].files
  BY <1>4 DEF Unused
<1>6. /\ DOMAIN tables' = DOMAIN tables \cup {t} /\ tables'[t] = {}
      /\ \A f \in DOMAIN tables : f # t => tables'[f] = tables[f]
  BY <1>1 DEF With
<1>7. y.inputs = x.inputs /\ y.smallest = x.smallest /\ y.out = t
  BY <1>1
<1>8. /\ nextFile' \in Nat /\ nextFile <= nextFile' /\ bgError' \in BOOLEAN /\ (bgError => bgError')
      /\ job'.table \in Nat
      /\ \A c \in comp' : c.inputs \subseteq Nat /\ c.smallest \in Nat /\ c.out \in Nat
  BY <1>1, <1>2, <1>3, <1>4, <1>7 DEF NumberTypes
<1>9. TableTypes'
  BY <1>2, <1>4, <1>6 DEF TableTypes
<1>10. /\ \A f \in Ver(manifests[CURRENT]) \cup DOMAIN files :
            f \in DOMAIN tables => f \in DOMAIN tables' /\ tables'[f] = tables[f]
       /\ \A r \in Readers : \A f \in reader[r].files :
            f \in DOMAIN tables => f \in DOMAIN tables' /\ tables'[f] = tables[f]
  BY <1>1, <1>5, <1>6
<1>11. Compacting'
  <2> DEFINE V == Ver(manifests[CURRENT]) \cup DOMAIN files
  <2>1. /\ x.inputs \subseteq DOMAIN files /\ x.smallest <= lastSeq
        /\ \A r \in Readers : snapshot[r].seq # 0 => x.smallest <= snapshot[r].seq
        /\ Below(Ents(tables, x.inputs), Ents(tables, V \ x.inputs))
    BY <1>2, <1>3 DEF Compacting
  <2>2. V \subseteq DOMAIN tables
    BY <1>1, <1>2, OpenFacts DEF Usable, Numbers
  <2>3. \A f \in V : f \in DOMAIN tables' /\ tables'[f] = tables[f]
    BY <1>10, <2>2
  <2>4. V' = V /\ x.inputs \subseteq V
    BY <1>1, <2>1
  <2> HIDE DEF V
  <2>5. Ents(tables', x.inputs) = Ents(tables, x.inputs)
    BY <2>2, <2>3, <2>4, EntsSame
  <2>6. Ents(tables', V \ x.inputs) = Ents(tables, V \ x.inputs)
    BY <2>2, <2>3, EntsSame
  <2>7. Below(Ents(tables', y.inputs), Ents(tables', V' \ y.inputs))
    BY <2>1, <2>4, <2>5, <2>6, <1>7
  <2>8. t \in pending' /\ t \in DOMAIN tables'
    BY <1>1, <1>6
  <2> QED BY <2>1, <2>7, <2>8, <1>1, <1>4, <1>7 DEF Compacting, V
<1>12. Jobs' /\ Garbage' /\ bg # "none"
  BY <1>1 DEF Jobs, Garbage
<1> QED BY <1>1, <1>8, <1>9, <1>10, <1>11, <1>12, BackgroundStep

LEMMA CompactionFinishKeeps ==
  ASSUME Inv, CompactionFinish
  PROVE  Inv'
<1> USE DEF memory
<1>0. /\ phase = "open" /\ bg = "merge" /\ TheComp.out # 0
      /\ Types /\ Semantic /\ NumberTypes /\ TableTypes /\ Compacting /\ Numbers /\ Ready
  BY DEF CompactionFinish, Inv, Types, Semantic, Ready
<1>1. PICK x \in comp : x = TheComp /\ comp = {x}
  BY <1>0, TheCompIs DEF Compacting
<1>2. PICK t \in Nat : t = x.out /\ t # 0
  BY <1>0, <1>1 DEF NumberTypes
<1>3. /\ Unused(t) /\ t \in DOMAIN tables /\ t \in pending /\ x.inputs \subseteq DOMAIN files
  BY <1>0, <1>1, <1>2 DEF Compacting
<1>4. PICK edit : edit = Edit([f \in {t} |-> 1], x.inputs, logNumber)
  OBVIOUS
<1>5. /\ tables' = [tables EXCEPT ![t] = Kept(Ents(tables, x.inputs), x.smallest)]
      /\ job' = [table |-> 0, edit |-> edit] /\ bg' = "manifest"
      /\ UNCHANGED <<logs, synced, manifests, CURRENT, phase, writers, call, memory, versions,
                     pending, comp, garbage, bgError, todo, reader, snapshot, groups>>
  BY <1>0, <1>1, <1>2, <1>3, <1>4, EntsType DEF CompactionFinish
<1>6. /\ DOMAIN tables' = DOMAIN tables /\ tables'[t] = Kept(Ents(tables, x.inputs), x.smallest)
      /\ \A f \in DOMAIN tables : f # t => tables'[f] = tables[f]
  BY <1>3, <1>5
<1>7. /\ nextFile' = nextFile /\ nextFile \in Nat /\ bgError' \in BOOLEAN /\ bgError' = bgError
      /\ job'.table = 0 /\ nextFile <= nextFile' /\ t < nextFile
      /\ \A c \in comp' : c.inputs \subseteq Nat /\ c.smallest \in Nat /\ c.out \in Nat
  BY <1>0, <1>3, <1>5 DEF NumberTypes, versions, Unused
<1>8. TableTypes'
  <2>1. Kept(Ents(tables, x.inputs), x.smallest) \subseteq Entry
    BY <1>0, EntsType DEF Kept
  <2> QED BY <1>0, <1>6, <2>1 DEF TableTypes
<1>9. /\ \A f \in Ver(manifests[CURRENT]) \cup DOMAIN files :
            f \in DOMAIN tables => f \in DOMAIN tables' /\ tables'[f] = tables[f]
      /\ \A r \in Readers : \A f \in reader[r].files :
            f \in DOMAIN tables => f \in DOMAIN tables' /\ tables'[f] = tables[f]
  BY <1>3, <1>6 DEF Unused
<1>10. Compacting'
  <2>1. \A c \in comp : c.out # 0 => c.out \in DOMAIN tables' /\ c.out \in pending'
    BY <1>0, <1>5, <1>6 DEF Compacting
  <2>2. comp # {} => bg' \in {"merge", "build", "manifest", "clean"}
    BY <1>5
  <2>3. bg' = "merge" => comp # {}
    BY <1>5
  <2> QED BY <1>0, <1>5, <1>7, <1>9, <2>1, <2>2, <2>3, CompKept DEF versions
<1>11. EditFor(edit, t)' /\ edit.del = x.inputs /\ edit.log = logNumber
  <2>1. PICK log \in Nat : log = logNumber /\ log < nextFile
    BY <1>0 DEF Numbers, NumberTypes
  <2>2. PICK del \in SUBSET Nat : del = x.inputs /\ edit = Edit([f \in {t} |-> 1], del, log)
    BY <1>0, <1>1, <1>4, <2>1 DEF NumberTypes
  <2>3. PICK level \in {0, 1} : level = 1
    OBVIOUS
  <2>4. PICK add \in Levels : DOMAIN add = {t} /\ edit = Edit(add, del, log)
    BY <2>2, <2>3, OneTable
  <2>5. EditFor(edit, t)' /\ edit.del = del /\ edit.log = log
    <3>1. UNCHANGED <<manifests, CURRENT, manifestNo, nextFile, lastSeq>> /\ phase = "open"
      BY <1>0, <1>5 DEF versions
    <3>2. t < nextFile
      BY <1>7
    <3> QED BY <3>1, <3>2, <2>1, <2>4, EditNow
  <2> QED BY <2>1, <2>2, <2>5
<1>12. Jobs'
  <2>1. Ents(tables', x.inputs) = Ents(tables, x.inputs)
    <3>1. DOMAIN files \subseteq DOMAIN tables
      BY <1>0 DEF Numbers
    <3>2. \A f \in x.inputs : f \in DOMAIN tables /\ f \in DOMAIN tables' /\ tables'[f] = tables[f]
      BY <3>1, <1>3, <1>9
    <3>3. PICK fs : fs = x.inputs
      OBVIOUS
    <3> QED BY <3>2, <3>3, EntsSame
  <2>2. job'.edit = edit /\ ~Flushing' /\ bg' = "manifest" /\ phase' = "open" /\ comp' = {x}
        /\ logNumber' = logNumber
    BY <1>0, <1>1, <1>5 DEF Flushing, versions
  <2> QED BY <2>1, <2>2, <1>2, <1>6, <1>11 DEF Jobs
<1>13. Garbage' /\ bg # "none"
  BY <1>0, <1>5 DEF Garbage
<1> QED BY <1>0, <1>5, <1>7, <1>8, <1>9, <1>10, <1>12, <1>13, BackgroundStep DEF versions

LEMMA WithoutValues ==
  ASSUME NEW f, NEW gone
  PROVE  /\ DOMAIN Without(f, gone) = DOMAIN f \ gone
         /\ \A n \in DOMAIN f \ gone : Without(f, gone)[n] = f[n]
  BY DEF Without

\* The files that RemoveObsoleteFiles removes are not needed on disk.
LEMMA RemovalDisk ==
  ASSUME Types, CURRENT # 0, CURRENT \in DOMAIN manifests,
         Usable(manifests[CURRENT], CURRENT, tables), DiskOf(manifests[CURRENT]),
         NEW gl, NEW gt, NEW gm,
         logs' = Without(logs, gl), synced' = Without(synced, gl), tables' = Without(tables, gt),
         manifests' = Without(manifests, gm), UNCHANGED <<CURRENT, groups, mems, logNo, immNo>>,
         \A n \in gl : n < Last(manifests[CURRENT]).log,
         gt \cap Ver(manifests[CURRENT]) = {}, CURRENT \notin gm
  PROVE  /\ DiskInv' /\ LogTypes' /\ TableTypes' /\ manifests'[CURRENT'] = manifests[CURRENT]
         /\ CURRENT \in DOMAIN manifests'
         /\ Ents(tables', Ver(manifests[CURRENT])) = Ents(tables, Ver(manifests[CURRENT]))
         /\ DOMAIN tables' = DOMAIN tables \ gt /\ \A f \in DOMAIN tables \ gt : tables'[f] = tables[f]
         /\ DOMAIN logs' = DOMAIN logs \ gl
         /\ \A n \in DOMAIN logs \ gl : logs'[n] = logs[n] /\ synced'[n] = synced[n]
<1> DEFINE m == manifests[CURRENT]
           K == KeptLogs(m, logs)
           T == Ents(tables, Ver(m))
           L == LogEnts(K, logs) \cup MemEnts
<1>1. LogTypes /\ TableTypes /\ MemTypes
  BY DEF Types
<1>2. DOMAIN tables' = DOMAIN tables \ gt /\ \A f \in DOMAIN tables \ gt : tables'[f] = tables[f]
  BY WithoutValues
<1>3. /\ DOMAIN logs' = DOMAIN logs \ gl /\ DOMAIN synced' = DOMAIN logs'
      /\ \A n \in DOMAIN logs \ gl : logs'[n] = logs[n] /\ synced'[n] = synced[n]
  <2>1. DOMAIN synced = DOMAIN logs
    BY <1>1 DEF LogTypes
  <2> QED BY <2>1 DEF Without
<1>4. m' = m /\ CURRENT \in DOMAIN manifests'
  <2>1. DOMAIN manifests' = DOMAIN manifests \ gm /\ \A n \in DOMAIN manifests \ gm : manifests'[n] = manifests[n]
    BY WithoutValues
  <2> QED BY <2>1
<1>5. Ver(m) \subseteq DOMAIN tables
  BY DEF Usable
<1>6. Ents(tables', Ver(m)) = T
  <2>1. \A f \in Ver(m) : f \in DOMAIN tables' /\ tables'[f] = tables[f]
    BY <1>2, <1>5
  <2> QED BY <2>1, <1>5, EntsSame
<1>7. LogTypes'
  <2>1. PICK b \in Nat : \A n \in DOMAIN logs : \A e \in ReadLog(logs[n]) : e.seq <= b
    BY <1>1 DEF LogTypes
  <2>2. \A n \in DOMAIN logs' : \A e \in ReadLog(logs'[n]) : e.seq <= b
    BY <2>1, <1>3
  <2>3. \A n \in DOMAIN logs' : logs'[n] \in Seq(Record) /\ synced'[n] \in 0 .. Len(logs'[n])
    BY <1>1, <1>3 DEF LogTypes
  <2>4. DOMAIN logs' \subseteq Nat \ {0} /\ groups' \subseteq Group
    BY <1>1, <1>3 DEF LogTypes
  <2> QED BY <2>2, <2>3, <2>4, <1>3 DEF LogTypes
<1>8. TableTypes'
  BY <1>1, <1>2 DEF TableTypes
<1>9. Last(m).log \in Nat /\ Last(m).seq \in Nat
  BY LastEdit
<1>10. \A n \in DOMAIN logs : n \in Nat
  BY <1>1 DEF LogTypes
<1>11. K \subseteq DOMAIN logs \ gl /\ KeptLogs(m, logs') = K
  <2>1. \A n \in DOMAIN logs : n >= Last(m).log => n \notin gl
    BY <1>9, <1>10
  <2> QED BY <2>1, <1>3 DEF KeptLogs
<1>12. DiskTypes(T, K, logs, synced, L, Last(m).seq, groups) /\ Disk(T, K, logs, synced, L, Last(m).seq, groups)
  BY <1>1, DiskTyped DEF DiskOf
<1>13. MemEnts' = MemEnts
  BY DEF MemEnts
<1>14. LogEnts(K, logs') = LogEnts(K, logs)
  <2>1. \A n \in K : logs'[n] = logs[n]
    BY <1>3, <1>11
  <2> HIDE DEF K
  <2> QED BY <2>1 DEF LogEnts
<1>15. Usable(m, CURRENT, tables')
  <2>1. Ver(m) \subseteq DOMAIN tables'
    BY <1>2, <1>5
  <2> QED BY <2>1 DEF Usable
<1>16. DiskOf(m)'
  <2>1. \A n \in K : logs'[n] = logs[n] /\ synced'[n] = synced[n]
    BY <1>3, <1>11
  <2>2. L \in SUBSET Entry
    BY <1>12 DEF DiskTypes
  <2> HIDE DEF m, K, T, L
  <2>3. PICK lg1, sy1, seq : lg1 = logs' /\ sy1 = synced' /\ seq = Last(m).seq /\ seq \in Nat
    BY <1>9
  <2>4. \A n \in K : lg1[n] = logs[n] /\ sy1[n] = synced[n]
    BY <2>1, <2>3
  <2>5. seq <= seq /\ seq \in Nat /\ \A f \in L : f \in L \/ f.seq > seq
    BY <2>3
  <2>6. DiskTypes(T, K, logs, synced, L, seq, groups) /\ Disk(T, K, logs, synced, L, seq, groups)
    BY <1>12, <2>3
  <2>7. Disk(T, K, lg1, sy1, L, seq, groups)
    BY <2>2, <2>4, <2>5, <2>6, DiskOther
  <2>8. L = LogEnts(K, logs') \cup MemEnts'
    BY <1>13, <1>14 DEF L
  <2> QED BY <2>3, <2>7, <2>8, <1>4, <1>6, <1>11 DEF DiskOf
<1>17. DiskInv'
  BY <1>4, <1>15, <1>16 DEF DiskInv
<1> QED BY <1>2, <1>3, <1>4, <1>6, <1>7, <1>8, <1>17

LEMMA RemoveFilesKeeps ==
  ASSUME Inv, RemoveFiles
  PROVE  Inv'
<1> USE DEF memory, versions
<1> DEFINE m == manifests[CURRENT]
<1>0. PICK gl, gt, gm : gl = garbage.logs /\ gt = garbage.tables /\ gm = garbage.manifests
  OBVIOUS
<1>1. /\ phase = "open" /\ bg = "clean"
      /\ logs' = Without(logs, gl) /\ synced' = Without(synced, gl)
      /\ tables' = Without(tables, gt) /\ manifests' = Without(manifests, gm)
      /\ bg' \in {"merge", "none", "scheduled"} /\ (bg' = "merge" <=> comp # {})
      /\ UNCHANGED <<CURRENT, phase, writers, call, memory, versions, pending, job, comp, bgError,
                     todo, reader, snapshot, groups>>
  BY <1>0 DEF RemoveFiles, Resume
<1>2. /\ Types /\ Semantic /\ ReadsSnapshot /\ Ready
      /\ CURRENT \in DOMAIN manifests /\ Usable(m, CURRENT, tables)
      /\ DiskOf(m) /\ CURRENT = manifestNo /\ CURRENT # 0 /\ CURRENT \in Nat /\ Last(m).log \in Nat
      /\ Last(m).next \in Nat /\ nextFile \in Nat /\ lastSeq \in Nat /\ logNumber \in Nat
      /\ logNo \in Nat /\ immNo \in Nat
  BY <1>1, OpenFacts DEF Types, NumberTypes
<1>3. NumberTypes /\ Numbers /\ Reading /\ OpenVersion /\ Leaders /\ OtherLogs /\ Layered
      /\ LogsMatch /\ Garbage /\ Compacting
  BY <1>2 DEF Types, Semantic
<1>4. /\ gt \cap (Ver(m) \cup DOMAIN files) = {}
      /\ (\A r \in Readers : gt \cap reader[r].files = {})
      /\ (\A c \in comp : c.out # 0 => c.out \notin gt)
      /\ (\A n \in gl : n < logNumber /\ n < Last(m).log)
      /\ \A n \in gm : n < manifestNo
  BY <1>0, <1>1, <1>3 DEF Garbage
<1>5. CURRENT \notin gm /\ gt \cap Ver(m) = {} /\ \A n \in gl : n < Last(m).log
  BY <1>2, <1>4
<1>6. /\ DiskInv' /\ LogTypes' /\ TableTypes' /\ m' = m
      /\ Ents(tables', Ver(m)) = Ents(tables, Ver(m))
      /\ DOMAIN tables' = DOMAIN tables \ gt /\ (\A f \in DOMAIN tables \ gt : tables'[f] = tables[f])
      /\ DOMAIN logs' = DOMAIN logs \ gl
      /\ \A n \in DOMAIN logs \ gl : logs'[n] = logs[n] /\ synced'[n] = synced[n]
  BY <1>1, <1>2, <1>5, RemovalDisk
<1>7. Types'
  <2>1. NumberTypes'
    BY <1>1, <1>3 DEF NumberTypes
  <2> QED BY <2>1, <1>1, <1>2, <1>6, SameTypes DEF Types
<1>8. Quiet' /\ ReplayInv' /\ NewVersion'
  BY <1>1, OnlyWhenOpen
<1>9. /\ logNo \in DOMAIN logs \ gl /\ (immNo # 0 => immNo \in DOMAIN logs \ gl)
  <2>1. /\ logNo \in DOMAIN logs /\ logNumber <= logNo
        /\ (immNo # 0 => immNo \in DOMAIN logs /\ logNumber <= immNo)
    BY <1>2, <1>3 DEF Numbers
  <2> QED BY <2>1, <1>2, <1>4
<1>10. DOMAIN files \subseteq DOMAIN tables /\ DOMAIN files \subseteq DOMAIN tables'
       /\ \A f \in DOMAIN files : tables'[f] = tables[f]
  <2>1. DOMAIN files \subseteq DOMAIN tables
    BY <1>2, <1>3 DEF Numbers
  <2> QED BY <2>1, <1>4, <1>6
<1>11. Numbers'
  BY <1>1, <1>2, <1>3, <1>6, <1>9, <1>10 DEF Numbers, Ready
<1>12. OtherLogs'
  BY <1>1, <1>3, <1>6 DEF OtherLogs, Ready
<1>13. ReadsSnapshot' /\ Tab' = Tab
  <2>1. \A r \in Readers : reader[r].on =>
            \A f \in reader[r].files : f \in DOMAIN tables' /\ tables'[f] = tables[f]
    BY <1>3, <1>4, <1>6 DEF Reading
  <2> QED BY <1>1, <1>2, <1>3, <1>10, <2>1, ReadsKept
<1>14. /\ Imm' = Imm /\ Log' = Log /\ Ready' /\ logs'[logNo] = logs[logNo] /\ synced'[logNo] = synced[logNo]
       /\ (immNo # 0 => logs'[immNo] = logs[immNo])
  BY <1>1, <1>2, <1>6, <1>9 DEF Imm, Log, Ready
<1>15. /\ Leaders' /\ Pending' = Pending
       /\ InFlight({"insert", "syncError"})' = InFlight({"insert", "syncError"})
  BY <1>1, <1>3, <1>14 DEF Leaders, Pending, InFlight
<1>16. Layered'
  BY <1>1, <1>2, <1>3, <1>13, <1>14, <1>15 DEF Layered
<1>17. LogsMatch'
  BY <1>1, <1>2, <1>3, <1>14, <1>15 DEF LogsMatch
<1>18. OpenVersion'
  <2>1. TM(m)' = TM(m)
    BY <1>6 DEF TM
  <2>2. /\ Last(m).next <= nextFile /\ Last(m).seq <= lastSeq
        /\ (~bgError => Ver(m) = DOMAIN files /\ Last(m).log = logNumber)
        /\ DOMAIN files \subseteq Ver(m)
        /\ TM(m) \subseteq Tab \cup Imm
        /\ \/ Last(m).log = logNumber
           \/ Last(m).log = logNo /\ immNo # 0 /\ Imm \subseteq TM(m)
    BY <1>1, <1>3 DEF OpenVersion
  <2> HIDE DEF m
  <2> QED BY <2>1, <2>2, <1>1, <1>2, <1>3, <1>6, <1>13, <1>14 DEF OpenVersion, m, NumberTypes
<1>19. Reading'
  <2>1. \A r \in Readers : reader[r].on => reader[r].files \subseteq DOMAIN tables'
    BY <1>3, <1>4, <1>6 DEF Reading
  <2> QED BY <2>1, <1>1, <1>3, SameReading DEF Reading
<1>20. Compacting'
  <2> DEFINE V == Ver(m) \cup DOMAIN files
  <2>1. V \subseteq DOMAIN tables
    BY <1>2, <1>10 DEF Usable
  <2>2. \A f \in V : f \in DOMAIN tables' /\ tables'[f] = tables[f]
    BY <2>1, <1>4, <1>6
  <2>3. V' = V
    BY <1>1, <1>6
  <2>4. \A n : Unused(n)' <=> Unused(n)
    BY <1>1, <1>6 DEF Unused
  <2>5. ASSUME NEW c \in comp
        PROVE  /\ Below(Ents(tables', c.inputs), Ents(tables', V' \ c.inputs))
               /\ c.inputs \subseteq DOMAIN files
    <3>1. c.inputs \subseteq DOMAIN files /\ Below(Ents(tables, c.inputs), Ents(tables, V \ c.inputs))
      BY <1>3 DEF Compacting
    <3>2. c.inputs \subseteq V
      BY <3>1
    <3> HIDE DEF V
    <3>3. Ents(tables', c.inputs) = Ents(tables, c.inputs)
      BY <2>1, <2>2, <3>2, EntsSame
    <3>4. Ents(tables', V \ c.inputs) = Ents(tables, V \ c.inputs)
      BY <2>1, <2>2, EntsSame
    <3> QED BY <3>1, <3>3, <3>4, <2>3
  <2>6. \A c \in comp : c.out # 0 => c.out \in DOMAIN tables'
    BY <1>3, <1>4, <1>6 DEF Compacting
  <2>7. /\ bg' = "merge" => comp' # {}
        /\ comp' # {} => bg' \in {"merge", "build", "manifest", "clean"} /\ phase' = "open"
    BY <1>1
  <2> QED BY <2>4, <2>5, <2>6, <2>7, <1>1, <1>3 DEF Compacting, V
<1>21. Jobs' /\ Garbage'
  BY <1>1 DEF Jobs, Garbage
<1> QED BY <1>6, <1>7, <1>8, <1>11, <1>12, <1>13, <1>15, <1>16, <1>17, <1>18, <1>19, <1>20, <1>21
        DEF Inv, Semantic

LEMMA MemEntsOpen ==
  ASSUME Types, Numbers, Ready
  PROVE  MemEnts = mems[logNo] \cup Imm
<1>1. 0 \notin DOMAIN mems
  BY DEF Types, MemTypes
<1>2. logNo \in DOMAIN mems /\ (immNo # 0 => immNo \in DOMAIN mems)
  BY DEF Numbers
<1>3. {logNo, immNo} \cap DOMAIN mems = IF immNo = 0 THEN {logNo} ELSE {logNo, immNo}
  BY <1>1, <1>2
<1> QED BY <1>3 DEF MemEnts, Imm

\* The edit of a flush in the MANIFEST.
LEMMA FlushDisk ==
  ASSUME Inv, phase = "open", bg = "manifest", Flushing,
         UNCHANGED <<logs, synced, tables, groups, CURRENT>>, MemEnts' \subseteq MemEnts,
         manifests' = [manifests EXCEPT ![manifestNo] = Append(@, job.edit)]
  PROVE  LET m == manifests[CURRENT] IN
         /\ DiskInv' /\ manifests'[CURRENT] = Append(m, job.edit) /\ Last(manifests'[CURRENT]) = job.edit
         /\ Ver(manifests'[CURRENT]) = Ver(m) \cup {job.table}
         /\ Ents(tables, Ver(manifests'[CURRENT])) = TM(m) \cup Imm
<1> DEFINE m == manifests[CURRENT]
           K == KeptLogs(m, logs)
           T == Ents(tables, Ver(m))
           L == LogEnts(K, logs) \cup MemEnts
<1>0. PICK w : w = manifests'[CURRENT]
  OBVIOUS
<1> DEFINE K1 == KeptLogs(w, logs)
           L1 == LogEnts(K1, logs) \cup MemEnts'
<1>1. /\ Types /\ Semantic /\ ReadsSnapshot /\ Ready
      /\ CURRENT \in DOMAIN manifests /\ Usable(m, CURRENT, tables)
      /\ DiskOf(m) /\ CURRENT = manifestNo /\ CURRENT # 0
      /\ Last(m).seq \in Nat /\ Last(m).next \in Nat /\ Last(m).log \in Nat
      /\ logNo \in DOMAIN logs /\ logNo \in Nat /\ Last(m).log <= logNo
      /\ nextFile \in Nat
  BY OpenFacts
<1>2. LogTypes /\ TableTypes /\ MemTypes /\ Layered /\ OpenVersion /\ LogsMatch /\ Jobs /\ Numbers
  BY <1>1 DEF Types, Semantic
<1>3. PICK t, edit : t = job.table /\ edit = job.edit
  OBVIOUS
<1>4. /\ immNo # 0 /\ t \in DOMAIN tables /\ tables[t] = mems[immNo] /\ Imm = mems[immNo]
      /\ edit \in Edits /\ DOMAIN edit.add = {t} /\ edit.del = {} /\ edit.log = logNo
      /\ t < edit.next /\ manifestNo < edit.next /\ Last(m).next <= edit.next
      /\ edit.log < edit.next /\ Last(m).seq <= edit.seq
      /\ \A e \in Imm : e.seq <= edit.seq
  BY <1>2, <1>3 DEF Jobs, EditFor, Imm
<1>5. edit.seq \in Nat /\ edit.next \in Nat
  BY <1>4 DEF Edits
<1>6. m \in Seq(Edits) /\ w = Append(m, edit)
  BY <1>0, <1>1, <1>3 DEF Usable
<1>7. /\ w \in Seq(Edits) /\ w # << >> /\ Last(w) = edit /\ Ver(w) = Ver(m) \cup {t}
  BY <1>4, <1>6, VerAppend
<1>8. Ents(tables, Ver(w)) = T \cup Imm
  <2> HIDE DEF m
  <2>1. ASSUME NEW e PROVE e \in Ents(tables, Ver(w)) <=> e \in T \cup Imm
    BY <1>4, <1>7 DEF Ents
  <2> QED BY <2>1
<1>9. Usable(w, CURRENT, tables)
  <2>1. Ver(m) \subseteq DOMAIN tables /\ \A f \in Ver(m) : f < Last(m).next
    BY <1>1 DEF Usable
  <2>2. \A f \in DOMAIN tables : f \in Nat
    BY <1>2 DEF TableTypes
  <2>3. Ver(w) \subseteq DOMAIN tables
    BY <2>1, <1>4, <1>7
  <2>4. \A f \in Ver(m) : f < edit.next
    BY <2>1, <2>2, <1>1, <1>4, <1>5
  <2>5. \A f \in Ver(w) : f < edit.next
    BY <2>4, <1>4, <1>7
  <2> HIDE DEF m
  <2> QED BY <2>3, <2>5, <1>1, <1>4, <1>7 DEF Usable
<1>10. K1 = {logNo}
  <2>1. \A n \in DOMAIN logs : n <= logNo /\ n \in Nat
    BY <1>1, <1>2 DEF Numbers, LogTypes
  <2> QED BY <2>1, <1>1, <1>4, <1>7 DEF KeptLogs
<1>11. Disk(T \cup Imm, K1, logs, synced, L1, edit.seq, groups)
  <2>1. /\ DiskTypes(T, K, logs, synced, L, Last(m).seq, groups)
        /\ Disk(T, K, logs, synced, L, Last(m).seq, groups)
    BY <1>1, <1>2, DiskTyped DEF DiskOf
  <2>2. MemEnts = mems[logNo] \cup Imm
    BY <1>1, <1>2, MemEntsOpen
  <2>3. /\ logNo \in K /\ \A n \in K : n = logNo \/ n = immNo \/ ReadLog(logs[n]) = {}
    BY KeptLogsOpen
  <2>4. T \subseteq Tab \cup Imm
    BY <1>2 DEF OpenVersion, TM
  <2>5. /\ Below(Tab \cup Imm, Log) /\ Unique(Tab \cup Imm \cup mems[logNo] \cup Log)
        /\ \A e \in Imm : e.del => \E g \in groups : e \in g.entries
    BY <1>1, <1>2 DEF Layered
  <2>6. ReadLog(logs[immNo]) \subseteq Imm
    BY <1>1, <1>2, <1>4 DEF LogsMatch
  <2>7. LogEnts(K1, logs) = Log
    BY <1>10 DEF LogEnts, Log
  <2>8. PICK A \in SUBSET L : A = Imm
    BY <2>2
  <2>9. PICK seq, seq1 \in Nat : seq = Last(m).seq /\ seq1 = edit.seq /\ seq <= seq1
    BY <1>1, <1>4, <1>5
  <2>10. Log \subseteq LogEnts(K, logs)
    BY <2>3 DEF LogEnts, Log
  <2>11. K1 \in SUBSET K /\ L1 \in SUBSET L
    BY <2>3, <2>7, <2>10, <1>10
  <2>12. \A e \in A : e.seq <= seq1
    BY <2>8, <2>9, <1>4
  <2>13. \A n \in K \ K1 : ReadLog(logs[n]) \subseteq T \cup A
    BY <2>3, <2>6, <2>8, <1>10
  <2>14. \A n \in K1 : Below(T \cup A, ReadLog(logs[n]))
    BY <2>4, <2>5, <2>8, <1>10 DEF Below, Log
  <2>15. Unique(T \cup A \cup LogEnts(K1, logs)) /\ DeletionsKnown(A, groups)
    BY <2>4, <2>5, <2>7, <2>8 DEF Unique, DeletionsKnown
  <2> HIDE DEF m, K, T, L, K1, L1
  <2>16. Disk(T \cup A, K1, logs, synced, L1, seq1, groups)
    BY <2>1, <2>9, <2>11, <2>12, <2>13, <2>14, <2>15, DiskAddTables
  <2> QED BY <2>8, <2>9, <2>16
<1>12. DiskInv'
  <2> HIDE DEF m, T
  <2>1. DiskOf(w)'
    BY <1>7, <1>8, <1>11 DEF DiskOf
  <2>2. CURRENT' = CURRENT /\ CURRENT \in DOMAIN manifests' /\ manifests'[CURRENT'] = w
    BY <1>0, <1>1
  <2>3. Usable(w, CURRENT', tables') /\ CURRENT' # 0
    BY <2>2, <1>1, <1>9
  <2> QED BY <2>1, <2>2, <2>3 DEF DiskInv
<1> QED BY <1>0, <1>3, <1>6, <1>7, <1>8, <1>12 DEF TM

LEMMA EntsUnion ==
  ASSUME NEW tb, NEW A, NEW B
  PROVE  Ents(tb, A \cup B) = Ents(tb, A) \cup Ents(tb, B)
  BY DEF Ents

LEMMA EntsSubset ==
  ASSUME NEW tb, NEW A, NEW B, A \subseteq B
  PROVE  Ents(tb, A) \subseteq Ents(tb, B)
  BY DEF Ents

LEMMA EntsOne ==
  ASSUME NEW tb, NEW f \in DOMAIN tb
  PROVE  Ents(tb, {f}) = tb[f]
  BY DEF Ents

\* The edit of a compaction in the MANIFEST.
LEMMA CompactDisk ==
  ASSUME Inv, phase = "open", bg = "manifest", ~Flushing, NEW x \in comp,
         UNCHANGED <<logs, synced, tables, groups, CURRENT>>, MemEnts' = MemEnts,
         manifests' = [manifests EXCEPT ![manifestNo] = Append(@, job.edit)]
  PROVE  LET m == manifests[CURRENT] IN
         /\ DiskInv' /\ Last(manifests'[CURRENT]) = job.edit
         /\ Ver(manifests'[CURRENT]) = (Ver(m) \ x.inputs) \cup {x.out}
         /\ Ents(tables, Ver(manifests'[CURRENT])) =
              Kept(Ents(tables, x.inputs), x.smallest) \cup Ents(tables, Ver(m) \ x.inputs)
<1> DEFINE m == manifests[CURRENT]
           K == KeptLogs(m, logs)
           T == Ents(tables, Ver(m))
           L == LogEnts(K, logs) \cup MemEnts
<1>0. PICK w : w = manifests'[CURRENT]
  OBVIOUS
<1> DEFINE K1 == KeptLogs(w, logs)
           L1 == LogEnts(K1, logs) \cup MemEnts
           X == Ents(tables, x.inputs)
           Y == Ents(tables, Ver(m) \ x.inputs)
<1>1. /\ Types /\ Semantic /\ ReadsSnapshot /\ Ready
      /\ CURRENT \in DOMAIN manifests /\ Usable(m, CURRENT, tables)
      /\ DiskOf(m) /\ CURRENT = manifestNo /\ CURRENT # 0
      /\ Last(m).seq \in Nat /\ Last(m).next \in Nat /\ Last(m).log \in Nat
      /\ logNo \in DOMAIN logs /\ logNo \in Nat /\ Last(m).log <= logNo
      /\ logNumber \in Nat /\ logNumber <= Last(m).log /\ nextFile \in Nat
  BY OpenFacts
<1>2. /\ LogTypes /\ TableTypes /\ MemTypes /\ Layered /\ OpenVersion /\ LogsMatch /\ Jobs /\ Numbers
      /\ Compacting /\ OtherLogs /\ NumberTypes
  BY <1>1 DEF Types, Semantic
<1>3. PICK t, edit : t = x.out /\ edit = job.edit
  OBVIOUS
<1>4. /\ t # 0 /\ t \in DOMAIN tables /\ tables[t] = Kept(X, x.smallest)
      /\ edit \in Edits /\ DOMAIN edit.add = {t} /\ edit.del = x.inputs /\ edit.log = logNumber
      /\ t < edit.next /\ manifestNo < edit.next /\ Last(m).next <= edit.next
      /\ edit.log < edit.next /\ Last(m).seq <= edit.seq
  BY <1>2, <1>3 DEF Jobs, EditFor, Compacting
<1>5. edit.seq \in Nat /\ edit.next \in Nat /\ x.smallest \in Nat
  BY <1>2, <1>4 DEF Edits, NumberTypes
<1>6. m \in Seq(Edits) /\ w = Append(m, edit)
  BY <1>0, <1>1, <1>3 DEF Usable
<1>7. /\ w \in Seq(Edits) /\ w # << >> /\ Last(w) = edit /\ Ver(w) = (Ver(m) \ x.inputs) \cup {t}
  BY <1>4, <1>6, VerAppend
<1>8. Ents(tables, Ver(w)) = Kept(X, x.smallest) \cup Y
  <2>1. PICK A : A = Ver(m) \ x.inputs
    OBVIOUS
  <2> HIDE DEF m, X
  <2>2. Ver(w) = A \cup {t}
    BY <2>1, <1>7
  <2>3. Ents(tables, Ver(w)) = Ents(tables, A) \cup Ents(tables, {t})
    BY <2>2, EntsUnion
  <2>4. Ents(tables, {t}) = Kept(X, x.smallest)
    BY <1>4, EntsOne
  <2> QED BY <2>1, <2>3, <2>4
<1>9. Usable(w, CURRENT, tables)
  <2>1. Ver(m) \subseteq DOMAIN tables /\ \A f \in Ver(m) : f < Last(m).next
    BY <1>1 DEF Usable
  <2>2. \A f \in DOMAIN tables : f \in Nat
    BY <1>2 DEF TableTypes
  <2>3. Ver(w) \subseteq DOMAIN tables
    BY <2>1, <1>4, <1>7
  <2>4. \A f \in Ver(m) : f < edit.next
    BY <2>1, <2>2, <1>1, <1>4, <1>5
  <2>5. \A f \in Ver(w) : f < edit.next
    BY <2>4, <1>4, <1>7
  <2> HIDE DEF m
  <2> QED BY <2>3, <2>5, <1>1, <1>4, <1>7 DEF Usable
<1>10. x.inputs \subseteq DOMAIN files /\ DOMAIN files \subseteq Ver(m) /\ T = X \cup Y
       /\ X \subseteq Tab /\ Below(X, Y)
  <2>1. x.inputs \subseteq DOMAIN files /\ DOMAIN files \subseteq Ver(m)
    BY <1>2 DEF Compacting, OpenVersion
  <2>2. Ver(m) = x.inputs \cup (Ver(m) \ x.inputs)
    BY <2>1
  <2>3. Below(X, Ents(tables, (Ver(m) \cup DOMAIN files) \ x.inputs))
    BY <1>2 DEF Compacting
  <2>4. Y \subseteq Ents(tables, (Ver(m) \cup DOMAIN files) \ x.inputs)
    <3>1. Ver(m) \ x.inputs \subseteq (Ver(m) \cup DOMAIN files) \ x.inputs
      OBVIOUS
    <3> QED BY <3>1, EntsSubset
  <2>5. Below(X, Y)
    BY <2>3, <2>4 DEF Below
  <2>6. X \subseteq Tab
    BY <2>1, EntsSubset DEF Tab
  <2>7. T = X \cup Y
    <3> HIDE DEF m
    <3> QED BY <2>2, EntsUnion
  <2> QED BY <2>1, <2>5, <2>6, <2>7
<1>11. Disk(Kept(X, x.smallest) \cup Y, K1, logs, synced, L1, edit.seq, groups)
  <2>1. /\ DiskTypes(X \cup Y, K, logs, synced, L, Last(m).seq, groups)
        /\ Disk(X \cup Y, K, logs, synced, L, Last(m).seq, groups)
    <3>1. /\ DiskTypes(T, K, logs, synced, L, Last(m).seq, groups)
          /\ Disk(T, K, logs, synced, L, Last(m).seq, groups)
      BY <1>1, <1>2, DiskTyped DEF DiskOf
    <3> HIDE DEF T, X, Y
    <3> QED BY <3>1, <1>10
  <2>2. MemEnts = mems[logNo] \cup Imm
    BY <1>1, <1>2, MemEntsOpen
  <2>3. \A n \in DOMAIN logs : n \in Nat /\ n <= logNo /\ n # 0
    BY <1>1, <1>2 DEF LogTypes, Numbers
  <2>4. /\ K \subseteq K1 /\ logNo \in K /\ K1 \in SUBSET Nat /\ \A n \in K1 : n \in DOMAIN logs
        /\ \A n \in K1 : n = logNo \/ (n = immNo /\ immNo # 0) \/ ReadLog(logs[n]) = {}
    <3>1. K1 = {n \in DOMAIN logs : n >= logNumber}
      BY <1>4, <1>7 DEF KeptLogs
    <3>2. K \subseteq K1 /\ logNo \in K
      BY <3>1, <2>3, <1>1 DEF KeptLogs
    <3>3. \A n \in K1 : n = logNo \/ n = immNo \/ ReadLog(logs[n]) = {}
      BY <3>1, <1>1, <1>2 DEF OtherLogs
    <3> HIDE DEF K, K1
    <3> QED BY <3>1, <3>2, <3>3, <2>3
  <2>5. /\ Below(Tab, Imm) /\ Below(Tab, mems[logNo]) /\ Below(Tab \cup Imm, Log)
        /\ Tab \subseteq Entry /\ Imm \subseteq Entry
    <3>1. Tab \subseteq Entry
      BY <1>2, EntsType DEF Tab
    <3>2. Imm \subseteq Entry
      BY <1>1, <1>2 DEF Imm, MemTypes, Numbers
    <3> QED BY <3>1, <3>2, <1>1, <1>2 DEF Layered
  <2>6. X \cup Y \subseteq Tab \cup Imm
    BY <1>2, <1>10 DEF OpenVersion, TM
  <2>7. immNo # 0 => ReadLog(logs[immNo]) \subseteq Imm /\ immNo < logNo /\ immNo \in Nat
    BY <1>1, <1>2 DEF LogsMatch, Numbers, NumberTypes
  <2>8. \A e \in Imm : e \in X \cup Y => e \in Y
    <3> SUFFICES ASSUME NEW e \in Imm, e \in X PROVE FALSE
      OBVIOUS
    <3>1. e.seq < e.seq /\ e \in Entry
      BY <2>5, <1>10 DEF Below
    <3> QED BY <3>1, EntryFields
  <2>9. Last(m).log = logNumber \/ (Last(m).log = logNo /\ immNo # 0 /\ Imm \subseteq X \cup Y)
    BY <1>2, <1>10 DEF OpenVersion, TM
  <2>10. Last(m).log = logNumber => K1 = K
    BY <1>4, <1>7 DEF KeptLogs
  <2> HIDE DEF K, K1, X, Y, T
  <2>11. \A n \in K1 : \/ Below(X \cup Y, ReadLog(logs[n]))
                       \/ ReadLog(logs[n]) \subseteq Y /\ \E k \in K1 : n < k
    <3> TAKE n \in K1
    <3>1. CASE n = logNo
      BY <3>1, <2>5, <2>6 DEF Below, Log
    <3>2. CASE ReadLog(logs[n]) = {}
      BY <3>2 DEF Below
    <3>3. CASE n = immNo /\ immNo # 0
      <4>1. ReadLog(logs[n]) \subseteq Imm /\ n < logNo /\ logNo \in K1
        BY <3>3, <2>4, <2>7
      <4>2. CASE Imm \subseteq X \cup Y
        BY <4>1, <4>2, <2>8
      <4>3. CASE Last(m).log = logNumber
        <5>1. n \in K
          BY <4>3, <2>10
        <5>2. Below(X \cup Y, ReadLog(logs[n])) \/ ReadLog(logs[n]) \subseteq X \cup Y
          BY <5>1, <2>1 DEF Disk, LogsNewer
        <5> QED BY <5>2, <4>1, <2>8
      <4> QED BY <4>2, <4>3, <2>9
    <3> QED BY <3>1, <3>2, <3>3, <2>4
  <2>12. LogsOrdered(K1, logs)
    <3> SUFFICES ASSUME NEW n \in K1, NEW k \in K1, n < k
                 PROVE  Below(ReadLog(logs[n]), ReadLog(logs[k]))
      BY DEF LogsOrdered
    <3>1. CASE ReadLog(logs[n]) = {} \/ ReadLog(logs[k]) = {}
      BY <3>1 DEF Below
    <3>2. n # logNo
      BY <2>3, <2>4, <1>1
    <3>3. CASE n = immNo /\ immNo # 0 /\ k = logNo
      BY <3>3, <2>5, <2>7 DEF Below, Log
    <3>4. ~(n = immNo /\ k = immNo)
      BY <2>3, <2>4
    <3> QED BY <3>1, <3>2, <3>3, <3>4, <2>4
  <2>13. \A n \in K1 \ K : ReadLog(logs[n]) \subseteq Y
    <3> TAKE n \in K1 \ K
    <3>1. Last(m).log # logNumber /\ n # logNo
      BY <2>4, <2>10
    <3>2. Imm \subseteq Y
      BY <3>1, <2>8, <2>9
    <3> QED BY <3>1, <3>2, <2>4, <2>7
  <2>14. LogEnts(K1, logs) \subseteq Log \cup Imm
    BY <2>4, <2>7 DEF LogEnts, Log
  <2>15. L1 \in SUBSET L
    <3>1. Log \subseteq LogEnts(K, logs)
      BY <2>4 DEF LogEnts, Log
    <3> QED BY <3>1, <2>2, <2>14
  <2>16. \A f \in L1 : f \in Y \/ \A e \in X : e.seq < f.seq
    <3> SUFFICES ASSUME NEW f \in L1, NEW e \in X PROVE e.seq < f.seq
      OBVIOUS
    <3>1. f \in Log \cup Imm \cup mems[logNo] /\ e \in Tab
      BY <2>2, <2>14, <1>10
    <3> QED BY <3>1, <2>5 DEF Below
  <2>17. PICK smallest, seq, seq1 \in Nat :
           smallest = x.smallest /\ seq = Last(m).seq /\ seq1 = edit.seq /\ seq <= seq1
    BY <1>1, <1>4, <1>5
  <2> HIDE DEF m, L, L1
  <2>18. Disk(Kept(X, smallest) \cup Y, K1, logs, synced, L1, seq1, groups)
    <3>1. DiskTypes(X \cup Y, K, logs, synced, L, seq, groups) /\ Disk(X \cup Y, K, logs, synced, L, seq, groups)
      BY <2>1, <2>17
    <3> QED BY <3>1, <1>10, <2>4, <2>11, <2>12, <2>13, <2>15, <2>16, <2>17, DiskCompact
  <2> QED BY <2>17, <2>18
<1>12. DiskInv'
  <2> HIDE DEF m, X, Y
  <2>1. DiskOf(w)'
    BY <1>7, <1>8, <1>11 DEF DiskOf
  <2>2. CURRENT' = CURRENT /\ CURRENT \in DOMAIN manifests' /\ manifests'[CURRENT'] = w
    BY <1>0, <1>1
  <2>3. Usable(w, CURRENT', tables') /\ CURRENT' # 0
    BY <2>2, <1>1, <1>9
  <2> QED BY <2>1, <2>2, <2>3 DEF DiskInv
<1> QED BY <1>0, <1>3, <1>7, <1>8, <1>12

\* A step of LogAndApply: the memtables, the logs and the tables stay.
LEMMA InstallStep ==
  ASSUME Inv, phase = "open",
         UNCHANGED <<logs, synced, tables, CURRENT, phase, writers, call, mems, logNo, nextFile,
                     lastSeq, reader, snapshot, groups>>,
         NumberTypes', DiskInv', Numbers', OtherLogs', Layered', LogsMatch', OpenVersion',
         Compacting', Jobs', Garbage',
         \A r \in Readers : snapshot[r].seq # 0 => View(snapshot[r].seq)' = View(snapshot[r].seq)
  PROVE  Inv'
<1>1. Types /\ Semantic /\ ReadsSnapshot /\ Reading /\ Leaders
  BY DEF Inv, Semantic
<1>2. Types'
  BY <1>1, SameTypes DEF Types
<1>3. Quiet' /\ ReplayInv' /\ NewVersion'
  BY OnlyWhenOpen
<1>4. Leaders'
  BY <1>1, SameWriters
<1>5. Reading'
  <2>1. lastSeq \in Nat /\ nextFile \in Nat
    BY <1>1 DEF Types, NumberTypes
  <2>2. \A r \in Readers : reader[r].on => reader[r].files \subseteq DOMAIN tables'
    BY <1>1 DEF Reading
  <2> QED BY <1>1, <2>1, <2>2, SameReading
<1>6. ReadsSnapshot'
  <2>1. \A r \in Readers : reader[r].on =>
            Shown(reader[r].mem, reader[r].imm, reader[r].files, reader[r].at)' =
            Shown(reader[r].mem, reader[r].imm, reader[r].files, reader[r].at)
    BY DEF Shown, Lookup, TableEntries
  <2> QED BY <1>1, <2>1, SameReads
<1> QED BY <1>2, <1>3, <1>4, <1>5, <1>6 DEF Inv, Semantic

\* The version after an edit.
LEMMA AppliedVersion ==
  ASSUME files \in Levels, NEW edit \in Edits
  PROVE  /\ DOMAIN Apply(files, edit) = (DOMAIN files \ edit.del) \cup DOMAIN edit.add
         /\ Apply(files, edit) \in Levels
<1>1. PICK S \in SUBSET Nat : files \in [S -> {0, 1}]
  BY DEF Levels
<1>2. PICK R \in SUBSET Nat : edit.add \in [R -> {0, 1}]
  BY DEF Edits, Levels
<1>3. /\ DOMAIN Apply(files, edit) = (DOMAIN files \ edit.del) \cup DOMAIN edit.add
  BY DEF Apply
<1>4. Apply(files, edit) \in [(S \ edit.del) \cup R -> {0, 1}]
  BY <1>1, <1>2 DEF Apply
<1> QED BY <1>3, <1>4 DEF Levels

LEMMA NewGarbage ==
  ASSUME NEW m, bgError \in BOOLEAN, bg' = "clean", manifests'[CURRENT'] = m,
         ~bgError => Ver(m) = DOMAIN files' /\ Last(m).log = logNumber',
         garbage' = IF bgError THEN NoFiles ELSE Obsolete(files', comp', pending', logNumber'),
         \A c \in comp' : c.out # 0 => c.out \in pending',
         UNCHANGED <<reader, manifestNo>>
  PROVE  Garbage'
<1>1. CASE bgError
  BY <1>1 DEF Garbage, NoFiles
<1>2. CASE ~bgError
  <2>1. /\ garbage'.logs = {n \in DOMAIN logs : n < logNumber'}
        /\ garbage'.tables = DOMAIN tables \ Live(files', comp', pending')
        /\ garbage'.manifests = {n \in DOMAIN manifests : n < manifestNo}
    BY <1>2 DEF Obsolete
  <2>2. DOMAIN files' \subseteq Live(files', comp', pending') /\ pending' \subseteq Live(files', comp', pending')
        /\ \A r \in Readers : reader[r].files \subseteq Live(files', comp', pending')
    BY DEF Live
  <2> QED BY <1>2, <2>1, <2>2 DEF Garbage
<1> QED BY <1>1, <1>2

LEMMA InstallFlush ==
  ASSUME Inv, LogAndApply, Flushing
  PROVE  Inv'
<1> DEFINE m == manifests[CURRENT]
<1>0. PICK w, t, edit : w = manifests'[CURRENT] /\ t = job.table /\ edit = job.edit
  OBVIOUS
<1>1. /\ phase = "open" /\ bg = "manifest" /\ immNo' = 0
      /\ manifests' = [manifests EXCEPT ![manifestNo] = Append(@, job.edit)]
      /\ files' = Apply(files, edit) /\ logNumber' = edit.log
      /\ pending' = pending /\ comp' = comp /\ job' = NoJob /\ bg' = "clean"
      /\ garbage' = IF bgError THEN NoFiles ELSE Obsolete(files', comp', pending', logNumber')
      /\ UNCHANGED <<logs, synced, tables, CURRENT, phase, writers, call, mems, logNo, nextFile,
                   lastSeq, manifestNo, descriptorOpen, bgError, todo, reader, snapshot, groups>>
  BY <1>0 DEF LogAndApply
<1>2. /\ Types /\ Semantic /\ ReadsSnapshot /\ Ready
      /\ CURRENT \in DOMAIN manifests /\ Usable(m, CURRENT, tables)
      /\ CURRENT = manifestNo /\ CURRENT # 0 /\ Last(m).next \in Nat
      /\ logNo \in DOMAIN logs /\ logNo \in DOMAIN mems /\ logNo \in Nat
      /\ nextFile \in Nat /\ lastSeq \in Nat
  BY <1>1, OpenFacts
<1>3. /\ LogTypes /\ TableTypes /\ MemTypes /\ NumberTypes /\ Layered /\ OpenVersion /\ LogsMatch
      /\ Jobs /\ Numbers /\ Compacting /\ Leaders /\ OtherLogs /\ Reading
  BY <1>2 DEF Types, Semantic
<1>4. /\ immNo # 0 /\ t \in DOMAIN tables /\ tables[t] = mems[immNo] /\ Imm = mems[immNo]
      /\ edit \in Edits /\ DOMAIN edit.add = {t} /\ edit.del = {} /\ edit.log = logNo
      /\ edit.next <= nextFile /\ edit.seq <= lastSeq /\ t < nextFile
      /\ \A c \in comp : t # c.out
  BY <1>0, <1>1, <1>3 DEF Jobs, EditFor, Imm, Unused
<1>5. Imm' = {} /\ Log' = Log /\ Ready'
  BY <1>1, <1>2 DEF Imm, Log, Ready
<1>6. MemEnts' \subseteq MemEnts
  <2>1. 0 \notin DOMAIN mems
    BY <1>3 DEF MemTypes
  <2> QED BY <2>1, <1>1 DEF MemEnts
<1>7. /\ DiskInv' /\ Last(w) = edit /\ Ver(w) = Ver(m) \cup {t} /\ Ents(tables, Ver(w)) = TM(m) \cup Imm
  BY <1>0, <1>1, <1>6, FlushDisk
<1>8. DOMAIN files' = DOMAIN files \cup {t} /\ files' \in Levels
  BY <1>1, <1>3, <1>4, AppliedVersion DEF NumberTypes
<1>9. Tab' = Tab \cup Imm
  <2>1. PICK A : A = DOMAIN files
    OBVIOUS
  <2>2. Ents(tables, A \cup {t}) = Ents(tables, A) \cup Ents(tables, {t}) /\ Ents(tables, {t}) = tables[t]
    BY <1>4, EntsUnion, EntsOne
  <2> QED BY <2>1, <2>2, <1>1, <1>4, <1>8 DEF Tab
<1>10. NumberTypes'
  BY <1>1, <1>2, <1>3, <1>4, <1>8 DEF NumberTypes, NoJob
<1>11. Numbers'
  <2>1. DOMAIN files' \subseteq DOMAIN tables /\ \A f \in DOMAIN files' : f < nextFile
    BY <1>2, <1>3, <1>4, <1>8 DEF Numbers
  <2>2. logNumber' = logNo /\ logNo <= logNo
    BY <1>1, <1>2, <1>4
  <2> QED BY <2>1, <2>2, <1>1, <1>2, <1>3 DEF Numbers
<1>12. OtherLogs'
  <2>1. \A n \in DOMAIN logs : n <= logNo /\ n \in Nat
    BY <1>2, <1>3 DEF Numbers, LogTypes
  <2> QED BY <2>1, <1>1, <1>2, <1>4 DEF OtherLogs
<1>13. Pending' = Pending /\ InFlight({"insert", "syncError"})' = InFlight({"insert", "syncError"})
  BY <1>1, <1>3, SameWriters
<1>14. Layered'
  <2>1. /\ Below(Tab, Imm) /\ Below(Tab, mems[logNo]) /\ Below(Imm, mems[logNo])
        /\ (\A e \in Tab \cup Imm : e.seq <= lastSeq)
        /\ (\A e \in mems[logNo] \cup Log : e.seq <= lastSeq \/ e \in Pending)
        /\ Unique(Tab \cup Imm \cup mems[logNo] \cup Log)
        /\ Below(Tab \cup Imm, Log)
        /\ \A e \in Tab \cup Imm \cup mems[logNo] : e.del => \E g \in groups : e \in g.entries
    BY <1>2, <1>3 DEF Layered
  <2>2. /\ Below(Tab', {}) /\ Below(Tab', mems[logNo]) /\ Below({}, mems[logNo])
    BY <2>1, <1>9 DEF Below
  <2>3. Unique(Tab' \cup {} \cup mems[logNo] \cup Log) /\ Below(Tab' \cup {}, Log)
    BY <2>1, <1>9 DEF Unique, Below
  <2> QED BY <2>1, <2>2, <2>3, <1>1, <1>5, <1>9, <1>13 DEF Layered
<1>15. LogsMatch'
  BY <1>1, <1>2, <1>3, <1>5, <1>13 DEF LogsMatch
<1>16. OpenVersion'
  <2>1. /\ (~bgError => Ver(m) = DOMAIN files) /\ DOMAIN files \subseteq Ver(m)
        /\ TM(m) \subseteq Tab \cup Imm
    BY <1>1, <1>3 DEF OpenVersion
  <2>2. manifests'[CURRENT'] = w /\ TM(w)' = TM(m) \cup Imm
    BY <1>0, <1>1, <1>7 DEF TM
  <2>3. Last(w).log = logNumber'
    BY <1>1, <1>7
  <2> HIDE DEF m
  <2> QED BY <2>1, <2>2, <2>3, <1>1, <1>2, <1>4, <1>7, <1>8, <1>9 DEF OpenVersion
<1>17. Compacting'
  <2> DEFINE V == Ver(m) \cup DOMAIN files
  <2>1. Ver(w) \cup DOMAIN files' = V \cup {t} /\ manifests'[CURRENT'] = w
    BY <1>0, <1>1, <1>7, <1>8
  <2>2. ASSUME NEW c \in comp
        PROVE  Below(Ents(tables, c.inputs), Ents(tables, (V \cup {t}) \ c.inputs))
    <3>1. c.inputs \subseteq DOMAIN files /\ Below(Ents(tables, c.inputs), Ents(tables, V \ c.inputs))
      BY <1>3 DEF Compacting
    <3>2. Ents(tables, c.inputs) \subseteq Tab
      BY <3>1, EntsSubset DEF Tab
    <3>3. Below(Tab, Imm)
      BY <1>2, <1>3 DEF Layered
    <3>4. Ents(tables, (V \cup {t}) \ c.inputs) \subseteq Ents(tables, V \ c.inputs) \cup Imm
      <4>1. (V \cup {t}) \ c.inputs \subseteq (V \ c.inputs) \cup {t}
        OBVIOUS
      <4>2. PICK A : A = V \ c.inputs
        OBVIOUS
      <4> HIDE DEF V
      <4>3. Ents(tables, (V \cup {t}) \ c.inputs) \subseteq Ents(tables, A \cup {t})
        BY <4>1, <4>2, EntsSubset
      <4>4. Ents(tables, A \cup {t}) = Ents(tables, A) \cup Imm
        <5>1. Ents(tables, A \cup {t}) = Ents(tables, A) \cup Ents(tables, {t})
          BY EntsUnion
        <5>2. Ents(tables, {t}) = Imm
          BY <1>4, EntsOne
        <5> QED BY <5>1, <5>2
      <4> QED BY <4>2, <4>3, <4>4
    <3> HIDE DEF V
    <3> QED BY <3>1, <3>2, <3>3, <3>4 DEF Below
  <2>3. \A c \in comp : c.out # 0 => Unused(c.out)'
    <3> TAKE c \in comp
    <3> HAVE c.out # 0
    <3>1. PICK n : n = c.out /\ n # t /\ Unused(n)
      BY <1>3, <1>4 DEF Compacting
    <3>2. Unused(n)'
      BY <3>1, <2>1, <1>1, <1>7, <1>8 DEF Unused
    <3> QED BY <3>1, <3>2, <1>1
  <2>4. \A c \in comp : c.inputs \subseteq DOMAIN files'
    BY <1>3, <1>8 DEF Compacting
  <2> HIDE DEF V, m
  <2> QED BY <2>1, <2>2, <2>3, <2>4, <1>1, <1>3 DEF Compacting
<1>18. Jobs'
  BY <1>1 DEF Jobs
<1>19. Garbage'
  <2>1. ~bgError => Ver(w) = DOMAIN files' /\ Last(w).log = logNumber'
    BY <1>1, <1>3, <1>7, <1>8 DEF OpenVersion
  <2>2. \A c \in comp' : c.out # 0 => c.out \in pending'
    BY <1>1, <1>3 DEF Compacting
  <2>3. bgError \in BOOLEAN /\ manifests'[CURRENT'] = w
    BY <1>0, <1>1, <1>3 DEF NumberTypes
  <2> QED BY <2>1, <2>2, <2>3, <1>1, NewGarbage
<1>20. ASSUME NEW r \in Readers PROVE View(snapshot[r].seq)' = View(snapshot[r].seq)
  <2>1. PICK snap \in Nat : snap = snapshot[r].seq
    BY <1>2 DEF Types, ReaderTypes
  <2>2. View(snap) = Vis(All, snap)
    BY <1>2, <1>3, ViewAll
  <2>3. View(snap)' = Vis(All', snap)
    <3>1. Types'
      BY <1>1, <1>2, <1>10, SameTypes DEF Types
    <3>2. (Types /\ Numbers /\ Layered /\ Ready)'
      BY <3>1, <1>5, <1>11, <1>14
    <3>3. (View(snap) = Vis(All, snap))'
      BY <3>2, ViewAll, PTL
    <3> QED BY <3>3
  <2>4. All' = All
    BY <1>1, <1>5, <1>9 DEF All
  <2> QED BY <2>1, <2>2, <2>3, <2>4, <1>1
<1> QED BY <1>1, <1>7, <1>10, <1>11, <1>12, <1>14, <1>15, <1>16, <1>17, <1>18, <1>19, <1>20,
           InstallStep

LEMMA InstallCompaction ==
  ASSUME Inv, LogAndApply, ~Flushing
  PROVE  Inv'
<1> DEFINE m == manifests[CURRENT]
<1>a. /\ phase = "open" /\ bg = "manifest" /\ Types /\ Semantic /\ Jobs /\ Compacting
  BY DEF LogAndApply, Inv, Semantic
<1>b. PICK x \in comp : x = TheComp /\ comp = {x}
  BY <1>a, TheCompIs DEF Jobs
<1>0. PICK w, t, edit : w = manifests'[CURRENT] /\ t = x.out /\ edit = job.edit
  OBVIOUS
<1>1. /\ immNo' = immNo /\ manifests' = [manifests EXCEPT ![manifestNo] = Append(@, job.edit)]
      /\ files' = Apply(files, edit) /\ logNumber' = edit.log
      /\ comp' = {} /\ job' = NoJob /\ bg' = "clean"
      /\ garbage' = IF bgError THEN NoFiles ELSE Obsolete(files', comp', pending', logNumber')
      /\ UNCHANGED <<logs, synced, tables, CURRENT, phase, writers, call, mems, logNo, nextFile,
                   lastSeq, manifestNo, descriptorOpen, bgError, todo, reader, snapshot, groups>>
  BY <1>0 DEF LogAndApply
<1>2. /\ Types /\ Semantic /\ ReadsSnapshot /\ Ready
      /\ CURRENT \in DOMAIN manifests /\ Usable(m, CURRENT, tables)
      /\ CURRENT = manifestNo /\ CURRENT # 0 /\ Last(m).next \in Nat
      /\ logNo \in DOMAIN logs /\ logNo \in DOMAIN mems /\ logNo \in Nat
      /\ nextFile \in Nat /\ lastSeq \in Nat
  BY <1>a, OpenFacts
<1>3. /\ LogTypes /\ TableTypes /\ MemTypes /\ NumberTypes /\ Layered /\ OpenVersion /\ LogsMatch
      /\ Numbers /\ Leaders /\ OtherLogs /\ Reading
  BY <1>2 DEF Types, Semantic
<1> DEFINE X == Ents(tables, x.inputs)
           Y == Ents(tables, Ver(m) \ x.inputs)
           Z == Ents(tables, DOMAIN files \ x.inputs)
           KX == Kept(X, x.smallest)
<1>4. /\ t # 0 /\ t \in DOMAIN tables /\ tables[t] = KX /\ t < nextFile
      /\ edit \in Edits /\ DOMAIN edit.add = {t} /\ edit.del = x.inputs /\ edit.log = logNumber
      /\ edit.next <= nextFile /\ edit.seq <= lastSeq /\ x.inputs \subseteq DOMAIN files
      /\ Below(X, Ents(tables, (Ver(m) \cup DOMAIN files) \ x.inputs))
  BY <1>a, <1>0 DEF Jobs, EditFor, Compacting, Unused
<1>5. Imm' = Imm /\ Log' = Log /\ Ready' /\ MemEnts' = MemEnts
  BY <1>a, <1>1, <1>2 DEF Imm, Log, Ready, MemEnts
<1>6. DiskInv' /\ Last(w) = edit /\ Ver(w) = (Ver(m) \ x.inputs) \cup {t} /\ Ents(tables, Ver(w)) = KX \cup Y
  BY <1>a, <1>0, <1>1, <1>5, CompactDisk
<1>7. DOMAIN files' = (DOMAIN files \ x.inputs) \cup {t} /\ files' \in Levels
  BY <1>1, <1>3, <1>4, AppliedVersion DEF NumberTypes
<1>8. Tab = X \cup Z /\ Tab' = KX \cup Z
  <2>1. PICK A : A = DOMAIN files \ x.inputs
    OBVIOUS
  <2>2. DOMAIN files = x.inputs \cup A
    BY <2>1, <1>4
  <2> HIDE DEF KX
  <2>3. Ents(tables, A \cup {t}) = Ents(tables, A) \cup Ents(tables, {t}) /\ Ents(tables, {t}) = KX
    BY <1>4, EntsUnion, EntsOne
  <2>4. Ents(tables, x.inputs \cup A) = Ents(tables, x.inputs) \cup Ents(tables, A)
    BY EntsUnion
  <2> QED BY <2>1, <2>2, <2>3, <2>4, <1>1, <1>7 DEF Tab
<1>9. /\ Below(X, Y) /\ Below(X, Z) /\ KX \subseteq X /\ X \subseteq Entry
  <2>1. Y \subseteq Ents(tables, (Ver(m) \cup DOMAIN files) \ x.inputs)
    <3>1. Ver(m) \ x.inputs \subseteq (Ver(m) \cup DOMAIN files) \ x.inputs
      OBVIOUS
    <3> QED BY <3>1, EntsSubset
  <2>2. Z \subseteq Ents(tables, (Ver(m) \cup DOMAIN files) \ x.inputs)
    <3>1. DOMAIN files \ x.inputs \subseteq (Ver(m) \cup DOMAIN files) \ x.inputs
      OBVIOUS
    <3> QED BY <3>1, EntsSubset
  <2>3. X \subseteq Entry
    BY <1>3, EntsType
  <2> HIDE DEF X, Y, Z, m
  <2> QED BY <2>1, <2>2, <2>3, <1>4 DEF Below, Kept
<1> HIDE DEF X, Y, Z, KX
<1>10. NumberTypes'
  BY <1>1, <1>2, <1>3, <1>4, <1>7 DEF NumberTypes, NoJob
<1>11. Numbers'
  <2>1. DOMAIN files' \subseteq DOMAIN tables /\ \A f \in DOMAIN files' : f < nextFile
    BY <1>2, <1>3, <1>4, <1>7 DEF Numbers
  <2> QED BY <2>1, <1>1, <1>2, <1>3, <1>4 DEF Numbers
<1>12. OtherLogs'
  BY <1>1, <1>2, <1>3, <1>4 DEF OtherLogs
<1>13. Pending' = Pending /\ InFlight({"insert", "syncError"})' = InFlight({"insert", "syncError"})
  BY <1>1, <1>3, SameWriters
<1>14. Layered'
  <2>1. Tab' \subseteq Tab
    BY <1>8, <1>9
  <2>2. /\ Below(Tab, Imm) /\ Below(Tab, mems[logNo]) /\ Below(Imm, mems[logNo])
        /\ (\A e \in Tab \cup Imm : e.seq <= lastSeq)
        /\ (\A e \in mems[logNo] \cup Log : e.seq <= lastSeq \/ e \in Pending)
        /\ Unique(Tab \cup Imm \cup mems[logNo] \cup Log)
        /\ Below(Tab \cup Imm, Log)
        /\ \A e \in Tab \cup Imm \cup mems[logNo] : e.del => \E g \in groups : e \in g.entries
    BY <1>2, <1>3 DEF Layered
  <2>3. Below(Tab', Imm) /\ Below(Tab', mems[logNo]) /\ Below(Tab' \cup Imm, Log)
    BY <2>1, <2>2 DEF Below
  <2>4. Unique(Tab' \cup Imm \cup mems[logNo] \cup Log)
    BY <2>1, <2>2 DEF Unique
  <2> QED BY <2>1, <2>2, <2>3, <2>4, <1>1, <1>5, <1>13 DEF Layered
<1>15. LogsMatch'
  BY <1>1, <1>2, <1>3, <1>5, <1>13 DEF LogsMatch
<1>16. OpenVersion'
  <2>1. /\ (~bgError => Ver(m) = DOMAIN files) /\ DOMAIN files \subseteq Ver(m)
        /\ TM(m) \subseteq Tab \cup Imm
    BY <1>a, <1>3 DEF OpenVersion
  <2>2. manifests'[CURRENT'] = w /\ TM(w)' = KX \cup Y
    BY <1>0, <1>1, <1>6 DEF TM
  <2>3. Last(w).log = logNumber'
    BY <1>1, <1>6
  <2>4. Y \subseteq TM(m)
    <3>1. Ver(m) \ x.inputs \subseteq Ver(m)
      OBVIOUS
    <3> QED BY <3>1, EntsSubset DEF TM, Y
  <2>5. Y \subseteq Z \cup Imm
    <3> SUFFICES ASSUME NEW e \in Y, e \in X PROVE FALSE
      BY <2>1, <2>4, <1>8
    <3>1. e.seq < e.seq /\ e \in Entry
      BY <1>9 DEF Below
    <3> QED BY <3>1, EntryFields
  <2>6. KX \cup Y \subseteq Tab' \cup Imm'
    BY <2>5, <1>5, <1>8
  <2> HIDE DEF m
  <2> QED BY <2>1, <2>2, <2>3, <2>6, <1>a, <1>1, <1>2, <1>4, <1>6, <1>7 DEF OpenVersion
<1>17. Compacting' /\ Jobs'
  BY <1>a, <1>1 DEF Compacting, Jobs
<1>18. Garbage'
  <2>1. ~bgError => Ver(w) = DOMAIN files' /\ Last(w).log = logNumber'
    BY <1>a, <1>1, <1>3, <1>6, <1>7 DEF OpenVersion
  <2>2. \A c \in comp' : c.out # 0 => c.out \in pending'
    BY <1>1
  <2>3. bgError \in BOOLEAN /\ manifests'[CURRENT'] = w
    BY <1>0, <1>1, <1>3 DEF NumberTypes
  <2> QED BY <2>1, <2>2, <2>3, <1>1, NewGarbage
<1>19. ASSUME NEW r \in Readers, snapshot[r].seq # 0 PROVE View(snapshot[r].seq)' = View(snapshot[r].seq)
  <2>1. PICK snap, smallest \in Nat : snap = snapshot[r].seq /\ smallest = x.smallest
    BY <1>b, <1>2, <1>3 DEF Types, ReaderTypes, NumberTypes
  <2>2. smallest <= snap
    BY <1>a, <1>19, <2>1 DEF Compacting
  <2>3. View(snap) = Vis(All, snap) /\ All \subseteq Entry /\ Unique(All)
    BY <1>2, <1>3, ViewAll
  <2>4. View(snap)' = Vis(All', snap)
    <3>1. Types'
      BY <1>1, <1>2, <1>10, SameTypes DEF Types
    <3>2. (Types /\ Numbers /\ Layered /\ Ready)'
      BY <3>1, <1>5, <1>11, <1>14
    <3>3. (View(snap) = Vis(All, snap))'
      BY <3>2, ViewAll, PTL
    <3> QED BY <3>3
  <2>5. PICK R : R = mems[logNo] \cup Imm \cup Z
    OBVIOUS
  <2>6. All = X \cup R /\ All' = KX \cup R
    BY <2>5, <1>1, <1>5, <1>8 DEF All
  <2>7. Below(X, R)
    <3>1. Below(Tab, Imm) /\ Below(Tab, mems[logNo])
      BY <1>2, <1>3 DEF Layered
    <3> QED BY <3>1, <2>5, <1>8, <1>9 DEF Below
  <2>8. Vis(Kept(X, smallest) \cup R, snap) = Vis(X \cup R, snap)
    <3>1. X \in SUBSET Entry /\ R \in SUBSET Entry /\ Unique(X \cup R)
      BY <2>3, <2>6
    <3> QED BY <3>1, <2>2, <2>7, VisMerge
  <2> QED BY <2>1, <2>3, <2>4, <2>6, <2>8, <1>1 DEF KX
<1> QED BY <1>a, <1>1, <1>6, <1>10, <1>11, <1>12, <1>14, <1>15, <1>16, <1>17, <1>18, <1>19,
           InstallStep

LEMMA LogAndApplyKeeps ==
  ASSUME Inv, LogAndApply
  PROVE  Inv'
  BY InstallFlush, InstallCompaction

LEMMA LogAndApplyFailsKeeps ==
  ASSUME Inv, LogAndApplyFails
  PROVE  Inv'
<1> USE DEF memory, versions
<1> DEFINE m == manifests[CURRENT]
<1>1. /\ phase = "open" /\ bg = "manifest" /\ bgError' = TRUE /\ job' = NoJob
      /\ manifests' \in {manifests, [manifests EXCEPT ![manifestNo] = Append(@, job.edit)]}
      /\ pending' = (IF Flushing THEN pending ELSE pending \ {TheComp.out})
      /\ comp' = (IF Flushing THEN comp ELSE {})
      /\ bg' = (IF comp' # {} THEN "merge" ELSE "none")
      /\ UNCHANGED <<logs, synced, tables, CURRENT, phase, writers, call, memory, versions, garbage,
                   todo, reader, snapshot, groups>>
  BY DEF LogAndApplyFails, Resume
<1>2. /\ Types /\ Semantic /\ ReadsSnapshot /\ Ready
      /\ CURRENT \in DOMAIN manifests /\ Usable(m, CURRENT, tables)
      /\ CURRENT = manifestNo /\ CURRENT # 0 /\ Last(m).next \in Nat
      /\ logNo \in DOMAIN logs /\ logNo \in DOMAIN mems /\ logNo \in Nat
      /\ nextFile \in Nat /\ lastSeq \in Nat
  BY <1>1, OpenFacts
<1>3. /\ LogTypes /\ TableTypes /\ MemTypes /\ NumberTypes /\ Layered /\ OpenVersion /\ LogsMatch
      /\ Numbers /\ Leaders /\ OtherLogs /\ Reading /\ Jobs /\ Compacting
  BY <1>2 DEF Types, Semantic
<1>4. NumberTypes' /\ bgError' \in BOOLEAN /\ (bgError => bgError')
  BY <1>1, <1>3 DEF NumberTypes, NoJob
<1>5. Jobs' /\ Garbage'
  BY <1>1 DEF Jobs, Garbage
<1>6. CASE manifests' = manifests
  <2>1. Compacting'
    <3>1. CASE Flushing
      <4>1. \A c \in comp : c.out # 0 => c.out \in DOMAIN tables' /\ c.out \in pending'
        BY <3>1, <1>1, <1>3 DEF Compacting
      <4>2. /\ bg' = "merge" => comp # {}
            /\ comp # {} => bg' \in {"merge", "build", "manifest", "clean"}
            /\ comp' = comp /\ nextFile' \in Nat /\ nextFile <= nextFile'
        BY <3>1, <1>1, <1>2
      <4> QED BY <4>1, <4>2, <1>1, <1>6, CompKept
    <3>2. CASE ~Flushing
      BY <3>2, <1>1 DEF Compacting
    <3> QED BY <3>1, <3>2
  <2>2. /\ nextFile' \in Nat /\ nextFile <= nextFile' /\ TableTypes' /\ job'.table \in Nat
        /\ \A c \in comp' : c.inputs \subseteq Nat /\ c.smallest \in Nat /\ c.out \in Nat
    BY <1>1, <1>2, <1>3, <1>4, SameTypes DEF NumberTypes
  <2>3. bg # "none"
    BY <1>1
  <2> QED BY <2>1, <2>2, <2>3, <1>1, <1>4, <1>5, <1>6, BackgroundStep
<1>7. CASE manifests' = [manifests EXCEPT ![manifestNo] = Append(@, job.edit)]
  <2>1. Numbers' /\ OtherLogs'
    BY <1>1, <1>3, SameNumbers
  <2>2. Pending' = Pending /\ InFlight({"insert", "syncError"})' = InFlight({"insert", "syncError"})
    BY <1>1, <1>3, SameWriters
  <2>3. Layered' /\ LogsMatch'
    BY <2>2, <1>1, <1>3, <1>4, SameLayers
  <2>4. \A r \in Readers : View(snapshot[r].seq)' = View(snapshot[r].seq)
    BY <1>1, SameShown
  <2>5. MemEnts' = MemEnts /\ Tab' = Tab /\ Imm' = Imm
    BY <1>1 DEF MemEnts, Tab, Imm
  <2>6. PICK w, edit : w = manifests'[CURRENT] /\ edit = job.edit
    OBVIOUS
  <2>7. manifests'[CURRENT'] = w /\ TM(w)' = Ents(tables, Ver(w))
    BY <2>6, <1>1 DEF TM
  <2>8. DOMAIN files \subseteq Ver(m) /\ TM(m) \subseteq Tab \cup Imm
    BY <1>1, <1>3 DEF OpenVersion
  <2>9. CASE Flushing
    <3>1. PICK t : t = job.table
      OBVIOUS
    <3>2. /\ DiskInv' /\ Last(w) = edit /\ Ver(w) = Ver(m) \cup {t} /\ Ents(tables, Ver(w)) = TM(m) \cup Imm
      BY <3>1, <2>5, <2>6, <2>9, <1>1, <1>7, FlushDisk
    <3>3. /\ immNo # 0 /\ t \in DOMAIN tables /\ tables[t] = mems[immNo] /\ Imm = mems[immNo]
          /\ edit.log = logNo /\ edit.next <= nextFile /\ edit.seq <= lastSeq
          /\ \A c \in comp : t # c.out
      BY <3>1, <2>6, <2>9, <1>1, <1>3 DEF Jobs, EditFor, Imm
    <3>4. OpenVersion'
      <4>1. TM(w)' \subseteq Tab' \cup Imm' /\ Imm' \subseteq TM(w)'
        BY <3>2, <2>5, <2>7, <2>8
      <4>2. DOMAIN files' \subseteq Ver(w)
        BY <3>2, <2>8, <1>1
      <4> HIDE DEF m
      <4> QED BY <4>1, <4>2, <3>2, <3>3, <2>7, <1>1, <1>2 DEF OpenVersion
    <3>5. Compacting'
      <4> DEFINE V == Ver(m) \cup DOMAIN files
      <4>1. Ver(w) \cup DOMAIN files' = V \cup {t} /\ comp' = comp
        BY <3>2, <2>9, <1>1
      <4>2. ASSUME NEW c \in comp
            PROVE  Below(Ents(tables, c.inputs), Ents(tables, (V \cup {t}) \ c.inputs))
        <5>1. c.inputs \subseteq DOMAIN files /\ Below(Ents(tables, c.inputs), Ents(tables, V \ c.inputs))
          BY <1>3 DEF Compacting
        <5>2. Ents(tables, c.inputs) \subseteq Tab
          BY <5>1, EntsSubset DEF Tab
        <5>3. Below(Tab, Imm)
          BY <1>2, <1>3 DEF Layered
        <5>4. PICK A : A = V \ c.inputs
          OBVIOUS
        <5>5. (V \cup {t}) \ c.inputs \subseteq A \cup {t}
          BY <5>4
        <5> HIDE DEF V
        <5>6. Ents(tables, (V \cup {t}) \ c.inputs) \subseteq Ents(tables, A \cup {t})
          BY <5>5, EntsSubset
        <5>7. Ents(tables, A \cup {t}) = Ents(tables, A) \cup Ents(tables, {t})
          BY EntsUnion
        <5>8. Ents(tables, {t}) = Imm
          BY <3>3, EntsOne
        <5> QED BY <5>1, <5>2, <5>3, <5>4, <5>6, <5>7, <5>8 DEF Below
      <4>3. \A c \in comp : c.out # 0 => Unused(c.out)'
        <5> TAKE c \in comp
        <5> HAVE c.out # 0
        <5>1. PICK n : n = c.out /\ n # t /\ Unused(n)
          BY <1>3, <3>3 DEF Compacting
        <5>2. Unused(n)'
          BY <5>1, <3>2, <2>7, <1>1 DEF Unused
        <5> QED BY <5>1, <5>2
      <4>4. /\ bg' = "merge" => comp # {}
            /\ comp # {} => bg' \in {"merge", "build", "manifest", "clean"} /\ phase' = "open"
            /\ pending' = pending
        BY <2>9, <1>1
      <4> HIDE DEF V, m
      <4> QED BY <4>1, <4>2, <4>3, <4>4, <2>7, <1>1, <1>3 DEF Compacting
    <3> QED BY <3>2, <3>4, <3>5, <2>1, <2>3, <2>4, <1>1, <1>4, <1>5, InstallStep
  <2>10. CASE ~Flushing
    <3>1. PICK x \in comp : x = TheComp
      BY <2>10, <1>1, <1>3, TheCompIs DEF Jobs
    <3>2. PICK t, X, Y : t = x.out /\ X = Ents(tables, x.inputs) /\ Y = Ents(tables, Ver(m) \ x.inputs)
      OBVIOUS
    <3>3. /\ DiskInv' /\ Last(w) = edit /\ Ents(tables, Ver(w)) = Kept(X, x.smallest) \cup Y
      BY <3>2, <2>5, <2>6, <2>10, <1>1, <1>7, CompactDisk
    <3>4. /\ edit.log = logNumber /\ edit.next <= nextFile /\ edit.seq <= lastSeq
          /\ x.inputs \subseteq DOMAIN files
      BY <2>6, <2>10, <1>1, <1>3 DEF Jobs, EditFor, Compacting
    <3>5. X \subseteq Tab /\ Y \subseteq TM(m)
      <4>1. X \subseteq Tab
        BY <3>2, <3>4, EntsSubset DEF Tab
      <4>2. Ver(m) \ x.inputs \subseteq Ver(m)
        OBVIOUS
      <4> HIDE DEF m
      <4>3. Y \subseteq TM(m)
        BY <4>2, <3>2, EntsSubset DEF TM
      <4> QED BY <4>1, <4>3
    <3>6. OpenVersion'
      <4>1. TM(w)' \subseteq Tab' \cup Imm'
        BY <3>3, <3>5, <2>5, <2>7, <2>8 DEF Kept
      <4>2. bg' = "none"
        BY <2>10, <1>1
      <4> HIDE DEF m
      <4> QED BY <4>1, <4>2, <3>3, <3>4, <2>7, <1>1, <1>2 DEF OpenVersion
    <3>7. Compacting'
      BY <2>10, <1>1 DEF Compacting
    <3> QED BY <3>3, <3>6, <3>7, <2>1, <2>3, <2>4, <1>1, <1>4, <1>5, InstallStep
  <2> QED BY <2>9, <2>10
<1> QED BY <1>1, <1>6, <1>7

-----------------------------------------------------------------------------
(* Get, NewIterator and snapshots *)

LEMMA ReaderStep ==
  ASSUME Inv, phase = "open",
         UNCHANGED <<disk, phase, writers, call, memory, versions, background, bgError, todo, groups>>,
         ReaderTypes', Reading', ReadsSnapshot',
         \A r \in Readers : reader'[r].files \subseteq reader[r].files \cup DOMAIN files,
         \A r \in Readers : snapshot'[r].seq # 0 => snapshot'[r].seq \in {snapshot[r].seq, lastSeq}
  PROVE  Inv'
<1> USE DEF disk, memory, versions, background
<1>1. Types /\ Semantic /\ ReadsSnapshot
  BY DEF Inv
<1>2. /\ Leaders /\ Layered /\ LogsMatch /\ Numbers /\ OtherLogs /\ DiskInv /\ Compacting /\ Jobs
      /\ Garbage /\ bgError \in BOOLEAN /\ lastSeq \in Nat /\ nextFile \in Nat
  BY <1>1 DEF Types, NumberTypes, Semantic
<1>3. Types'
  BY <1>1, SameTypes DEF Types
<1>4. DiskInv' /\ Quiet' /\ ReplayInv' /\ NewVersion'
  BY <1>2, SameDisk, OnlyWhenOpen
<1>5. Numbers' /\ OtherLogs'
  BY <1>2, SameNumbers
<1>6. /\ Leaders' /\ Pending' = Pending
      /\ InFlight({"insert", "syncError"})' = InFlight({"insert", "syncError"})
  BY <1>2, SameWriters
<1>7. Layered' /\ LogsMatch'
  BY <1>2, <1>6, SameLayers
<1>8. Imm' = Imm
  BY DEF Imm
<1>9. OpenVersion'
  BY <1>1, <1>2, <1>8, SameVersion
<1>10. \A n : Unused(n) => Unused(n)'
  BY DEF Unused
<1>11. Compacting'
  BY <1>2, <1>10 DEF Compacting
<1>12. Jobs'
  <2>1. \A edit, out : EditFor(edit, out) => EditFor(edit, out)'
    BY DEF EditFor
  <2> QED BY <2>1, <1>2, <1>8, <1>10 DEF Jobs, Flushing
<1>13. Garbage'
  <2>1. bg = "clean" => \A r \in Readers : garbage.tables \cap reader'[r].files = {}
    BY <1>2 DEF Garbage
  <2> QED BY <2>1, <1>2 DEF Garbage
<1> QED BY <1>3, <1>4, <1>5, <1>6, <1>7, <1>9, <1>11, <1>12, <1>13 DEF Inv, Semantic

LEMMA GetStartKeeps ==
  ASSUME Inv, NEW r \in Readers, GetStart(r)
  PROVE  Inv'
<1> USE DEF disk, memory, versions, background
<1>0. Types /\ Semantic /\ ReadsSnapshot /\ Reading /\ Numbers /\ ReaderTypes
  BY DEF Inv, Types, Semantic
<1>1. PICK at, v : at = (IF snapshot[r].seq = 0 THEN lastSeq ELSE snapshot[r].seq)
                   /\ v = [on |-> TRUE, at |-> at, mem |-> logNo, imm |-> immNo,
                           files |-> DOMAIN files, expect |-> View(at)]
  OBVIOUS
<1>2. /\ phase = "open" /\ reader' = [reader EXCEPT ![r] = v]
      /\ UNCHANGED <<disk, phase, writers, call, memory, versions, background, bgError, todo,
                     snapshot, groups>>
  BY <1>1 DEF GetStart
<1>3. reader'[r] = v /\ DOMAIN reader' = Readers /\ \A x \in Readers : x # r => reader'[x] = reader[x]
  BY <1>0, <1>2 DEF ReaderTypes
<1>4. /\ v.on = TRUE /\ v.at = at /\ v.mem = logNo /\ v.imm = immNo /\ v.files = DOMAIN files
      /\ v.expect = View(at)
  BY <1>1
<1>5. /\ Ready /\ logNo \in Nat /\ immNo \in Nat /\ lastSeq \in Nat /\ nextFile \in Nat
      /\ logNo \in DOMAIN mems /\ DOMAIN files \subseteq DOMAIN tables /\ DOMAIN files \subseteq Nat
      /\ (\A f \in DOMAIN files : f < nextFile)
      /\ (immNo # 0 => immNo \in DOMAIN mems /\ immNo # logNo)
  BY <1>0, <1>2 DEF Numbers, Ready, Types, NumberTypes, TableTypes
<1>6. at \in Nat /\ at <= lastSeq
  BY <1>0, <1>1, <1>5 DEF ReaderTypes, Reading
<1>7. ReaderTypes'
  <2>1. \A x \in Readers : /\ snapshot[x].seq \in Nat /\ reader'[x].at \in Nat
                          /\ reader'[x].mem \in Nat /\ reader'[x].imm \in Nat
                          /\ reader'[x].files \subseteq Nat
                          /\ reader'[x].on \in BOOLEAN
    BY <1>0, <1>3, <1>4, <1>5, <1>6 DEF ReaderTypes
  <2> QED BY <2>1, <1>0, <1>2, <1>3 DEF ReaderTypes
<1>8. Reading'
  <2> SUFFICES ASSUME NEW x \in Readers
               PROVE  /\ snapshot[x].seq <= lastSeq
                      /\ \A f \in reader'[x].files : f < nextFile
                      /\ reader'[x].on =>
                         /\ reader'[x].at <= lastSeq /\ reader'[x].files \subseteq DOMAIN tables
                         /\ reader'[x].mem \in DOMAIN mems
                         /\ reader'[x].imm # 0 => reader'[x].imm \in DOMAIN mems /\ reader'[x].imm # logNo
    BY <1>2 DEF Reading
  <2>1. CASE x = r
    BY <2>1, <1>0, <1>3, <1>4, <1>5, <1>6 DEF Reading
  <2>2. CASE x # r
    BY <2>2, <1>0, <1>3 DEF Reading
  <2> QED BY <2>1, <2>2
<1>9. ReadsSnapshot'
  <2>1. \A x \in Readers : View(snapshot[x].seq)' = View(snapshot[x].seq)
    BY <1>2 DEF View, Shown, Lookup, TableEntries
  <2>2. \A mem, imm, fs, snap : Shown(mem, imm, fs, snap)' = Shown(mem, imm, fs, snap)
    BY <1>2 DEF Shown, Lookup, TableEntries
  <2>3. ASSUME NEW x \in Readers, reader'[x].on
        PROVE  Shown(reader'[x].mem, reader'[x].imm, reader'[x].files, reader'[x].at) = reader'[x].expect
    <3>1. CASE x = r
      BY <3>1, <1>3, <1>4 DEF View
    <3>2. CASE x # r
      BY <3>2, <2>3, <1>0, <1>3 DEF ReadsSnapshot
    <3> QED BY <3>1, <3>2
  <2>4. ASSUME NEW x \in Readers, reader'[x].on
        PROVE  Shown(reader[x].mem, reader[x].imm, reader[x].files, reader[x].at)' = reader'[x].expect
    <3>1. PICK mem, imm, fs, snap : mem = reader'[x].mem /\ imm = reader'[x].imm
                                    /\ fs = reader'[x].files /\ snap = reader'[x].at
      OBVIOUS
    <3>2. Shown(mem, imm, fs, snap)' = Shown(mem, imm, fs, snap)
      BY <2>2
    <3> QED BY <3>1, <3>2, <2>3, <2>4
  <2>5. \A x \in Readers : snapshot[x].seq # 0 => View(snapshot[x].seq) = snapshot[x].shown
    BY <1>0, <1>2 DEF ReadsSnapshot
  <2> QED BY <2>1, <2>4, <2>5, <1>2 DEF ReadsSnapshot
<1>10. \A x \in Readers : reader'[x].files \subseteq reader[x].files \cup DOMAIN files
  BY <1>3, <1>4
<1>11. \A x \in Readers : snapshot'[x].seq # 0 => snapshot'[x].seq \in {snapshot[x].seq, lastSeq}
  BY <1>2
<1> QED BY <1>2, <1>7, <1>8, <1>9, <1>10, <1>11, ReaderStep

LEMMA GetEndKeeps ==
  ASSUME Inv, NEW r \in Readers, GetEnd(r)
  PROVE  Inv'
<1> USE DEF disk, memory, versions, background
<1>0. Types /\ Semantic /\ ReadsSnapshot /\ Reading /\ ReaderTypes
  BY DEF Inv, Types, Semantic
<1>1. /\ phase = "open" /\ reader' = [reader EXCEPT ![r] = NoRead]
      /\ UNCHANGED <<disk, phase, writers, call, memory, versions, background, bgError, todo,
                     snapshot, groups>>
  BY DEF GetEnd
<1>2. /\ reader'[r] = NoRead /\ DOMAIN reader' = Readers
      /\ \A x \in Readers : x # r => reader'[x] = reader[x]
  BY <1>0, <1>1 DEF ReaderTypes
<1>3. /\ NoRead.on = FALSE /\ NoRead.at = 0 /\ NoRead.mem = 0 /\ NoRead.imm = 0 /\ NoRead.files = {}
  BY DEF NoRead
<1>4. ReaderTypes'
  <2>1. \A x \in Readers : /\ snapshot[x].seq \in Nat /\ reader'[x].at \in Nat
                          /\ reader'[x].mem \in Nat /\ reader'[x].imm \in Nat
                          /\ reader'[x].files \subseteq Nat
                          /\ reader'[x].on \in BOOLEAN
    <3> TAKE x \in Readers
    <3>1. CASE x = r
      <4>1. PICK v : v = NoRead /\ reader'[x] = v
        BY <3>1, <1>2
      <4>2. v.at = 0 /\ v.mem = 0 /\ v.imm = 0 /\ v.files = {} /\ v.on \in BOOLEAN
        BY <4>1, <1>3
      <4> QED BY <4>1, <4>2, <1>0 DEF ReaderTypes
    <3>2. CASE x # r
      BY <3>2, <1>0, <1>2 DEF ReaderTypes
    <3> QED BY <3>1, <3>2
  <2> QED BY <2>1, <1>0, <1>1, <1>2 DEF ReaderTypes
<1>5. Reading'
  BY <1>0, <1>1, <1>2, <1>3 DEF Reading
<1>6. ReadsSnapshot'
  <2>1. \A mem, imm, fs, snap : Shown(mem, imm, fs, snap)' = Shown(mem, imm, fs, snap)
    BY <1>1 DEF Shown, Lookup, TableEntries
  <2>2. ASSUME NEW x \in Readers, reader'[x].on
        PROVE  Shown(reader[x].mem, reader[x].imm, reader[x].files, reader[x].at)' = reader'[x].expect
    <3>1. reader'[x] = reader[x]
      BY <2>2, <1>2, <1>3
    <3>2. PICK mem, imm, fs, snap : mem = reader'[x].mem /\ imm = reader'[x].imm
                                    /\ fs = reader'[x].files /\ snap = reader'[x].at
      OBVIOUS
    <3>3. Shown(mem, imm, fs, snap)' = Shown(mem, imm, fs, snap)
      BY <2>1
    <3> QED BY <3>1, <3>2, <3>3, <2>2, <1>0 DEF ReadsSnapshot
  <2>3. \A x \in Readers : View(snapshot[x].seq)' = View(snapshot[x].seq)
    BY <1>1 DEF View, Shown, Lookup, TableEntries
  <2> QED BY <2>2, <2>3, <1>0, <1>1 DEF ReadsSnapshot
<1>7. \A x \in Readers : reader'[x].files \subseteq reader[x].files \cup DOMAIN files
  BY <1>2, <1>3
<1>8. \A x \in Readers : snapshot'[x].seq # 0 => snapshot'[x].seq \in {snapshot[x].seq, lastSeq}
  BY <1>1
<1> QED BY <1>1, <1>4, <1>5, <1>6, <1>7, <1>8, ReaderStep

\* A snapshot is taken or given back.
LEMMA SnapshotStep ==
  ASSUME Inv, NEW r \in Readers, NEW v, phase = "open",
         snapshot' = [snapshot EXCEPT ![r] = v], v.seq \in {0, lastSeq},
         v.seq # 0 => View(lastSeq) = v.shown,
         UNCHANGED <<disk, phase, writers, call, memory, versions, background, bgError, todo,
                     reader, groups>>
  PROVE  Inv'
<1> USE DEF disk, memory, versions, background
<1>1. Types /\ Semantic /\ ReadsSnapshot /\ Reading /\ ReaderTypes /\ lastSeq \in Nat
  BY DEF Inv, Types, Semantic, NumberTypes
<1>2. /\ snapshot'[r] = v /\ DOMAIN snapshot' = Readers
      /\ \A x \in Readers : x # r => snapshot'[x] = snapshot[x]
  BY <1>1 DEF ReaderTypes
<1>3. ReaderTypes'
  <2>1. \A x \in Readers : snapshot'[x].seq \in Nat
    BY <1>1, <1>2 DEF ReaderTypes
  <2> QED BY <2>1, <1>1, <1>2 DEF ReaderTypes
<1>4. Reading'
  <2>1. \A x \in Readers : snapshot'[x].seq <= lastSeq
    BY <1>1, <1>2 DEF Reading
  <2> QED BY <2>1, <1>1 DEF Reading
<1>5. ReadsSnapshot'
  <2>1. \A mem, imm, fs, snap : Shown(mem, imm, fs, snap)' = Shown(mem, imm, fs, snap)
    BY DEF Shown, Lookup, TableEntries
  <2>2. ASSUME NEW x \in Readers, reader[x].on
        PROVE  Shown(reader[x].mem, reader[x].imm, reader[x].files, reader[x].at)' = reader[x].expect
    <3>1. PICK mem, imm, fs, snap : mem = reader[x].mem /\ imm = reader[x].imm
                                    /\ fs = reader[x].files /\ snap = reader[x].at
      OBVIOUS
    <3>2. Shown(mem, imm, fs, snap)' = Shown(mem, imm, fs, snap)
      BY <2>1
    <3> QED BY <3>1, <3>2, <2>2, <1>1 DEF ReadsSnapshot
  <2>3. \A s : View(s)' = View(s)
    BY DEF View, Shown, Lookup, TableEntries
  <2>4. ASSUME NEW x \in Readers, snapshot'[x].seq # 0
        PROVE  View(snapshot[x].seq)' = snapshot'[x].shown
    <3>1. View(snapshot'[x].seq) = snapshot'[x].shown
      BY <2>4, <1>1, <1>2 DEF ReadsSnapshot
    <3>2. PICK s : s = snapshot'[x].seq
      OBVIOUS
    <3>3. View(s)' = View(s)
      BY <2>3
    <3> QED BY <3>1, <3>2, <3>3
  <2> QED BY <2>2, <2>4 DEF ReadsSnapshot
<1>6. \A x \in Readers : snapshot'[x].seq # 0 => snapshot'[x].seq \in {snapshot[x].seq, lastSeq}
  BY <1>2
<1> QED BY <1>3, <1>4, <1>5, <1>6, ReaderStep

LEMMA GetSnapshotKeeps ==
  ASSUME Inv, NEW r \in Readers, GetSnapshot(r)
  PROVE  Inv'
<1>1. PICK v : v = [seq |-> lastSeq, shown |-> View(lastSeq)]
  OBVIOUS
<1>2. v.seq = lastSeq /\ v.shown = View(lastSeq)
  BY <1>1
<1> QED BY <1>1, <1>2, SnapshotStep DEF GetSnapshot

LEMMA ReleaseSnapshotKeeps ==
  ASSUME Inv, NEW r \in Readers, ReleaseSnapshot(r)
  PROVE  Inv'
<1>0. NoSnapshot.seq = 0
  BY DEF NoSnapshot
<1>1. PICK v : v = NoSnapshot /\ v.seq = 0
  BY <1>0
<1> QED BY <1>1, SnapshotStep DEF ReleaseSnapshot

-----------------------------------------------------------------------------
(* Crash and Open *)

\* Before the database is open there are no writers, no readers and no
\* background thread.
LEMMA QuietState ==
  ASSUME Quiet, phase # "open", lastSeq \in Nat
  PROVE  /\ Leaders /\ Compacting /\ Jobs /\ Garbage /\ Reading /\ ReadsSnapshot /\ OpenVersion
         /\ Pending = {} /\ InFlight({"insert", "syncError"}) = {}
<1>1. /\ (\A c \in Clients : call[c] = Idle) /\ bg = "none" /\ comp = {}
      /\ \A r \in Readers : reader[r] = NoRead /\ snapshot[r] = NoSnapshot
  BY DEF Quiet
<1>2. Idle.pc = "idle" /\ NoRead.on = FALSE /\ NoRead.files = {} /\ NoSnapshot.seq = 0
  BY DEF Idle, NoRead, NoSnapshot
<1>3. \A c \in Clients : call[c].pc \notin Leading
  BY <1>1, <1>2 DEF Leading
<1>4. Leaders
  BY <1>3 DEF Leaders
<1>5. Pending = {} /\ InFlight({"insert", "syncError"}) = {}
  BY <1>3 DEF Pending, InFlight, Leading
<1>6. Compacting /\ Jobs /\ Garbage /\ OpenVersion
  BY <1>1 DEF Compacting, Jobs, Garbage, OpenVersion
<1>7. Reading
  BY <1>1, <1>2 DEF Reading
<1>8. ReadsSnapshot
  BY <1>1, <1>2 DEF ReadsSnapshot
<1> QED BY <1>4, <1>5, <1>6, <1>7, <1>8

LEMMA EarlyState ==
  ASSUME Types, DiskInv, Quiet, ReplayInv, phase \in {"down", "replay", "newlog"}
  PROVE  Inv
<1>1. ~Ready /\ phase # "open" /\ phase # "opening"
  BY DEF Ready
<1>2. lastSeq \in Nat
  BY DEF Types, NumberTypes
<1>3. Leaders /\ Compacting /\ Jobs /\ Garbage /\ Reading /\ ReadsSnapshot /\ OpenVersion
  BY <1>1, <1>2, QuietState
<1>4. Numbers /\ OtherLogs /\ Layered /\ LogsMatch /\ NewVersion
  BY <1>1 DEF Numbers, OtherLogs, Layered, LogsMatch, NewVersion
<1> QED BY <1>3, <1>4 DEF Inv, Semantic

LEMMA QuietStep ==
  ASSUME Quiet', phase' # "open", lastSeq' \in Nat
  PROVE  /\ Leaders' /\ Compacting' /\ Jobs' /\ Garbage' /\ Reading' /\ ReadsSnapshot' /\ OpenVersion'
         /\ Pending' = {} /\ InFlight({"insert", "syncError"})' = {}
<1>1. (Quiet /\ phase # "open" /\ lastSeq \in Nat)'
  OBVIOUS
<1>2. (/\ Leaders /\ Compacting /\ Jobs /\ Garbage /\ Reading /\ ReadsSnapshot /\ OpenVersion
       /\ Pending = {} /\ InFlight({"insert", "syncError"}) = {})'
  BY <1>1, QuietState, PTL
<1> QED BY <1>2

LEMMA EarlyStep ==
  ASSUME Types', DiskInv', Quiet', ReplayInv', phase' \in {"down", "replay", "newlog"}
  PROVE  Inv'
<1>1. (Types /\ DiskInv /\ Quiet /\ ReplayInv /\ phase \in {"down", "replay", "newlog"})'
  OBVIOUS
<1> QED BY <1>1, EarlyState, PTL

LEMMA NoLevels == [f \in {} |-> 0] \in Levels /\ DOMAIN [f \in {} |-> 0] = {}
<1>1. [f \in {} |-> 0] \in [{} -> {0, 1}] /\ {} \in SUBSET Nat
  OBVIOUS
<1> QED BY <1>1 DEF Levels

LEMMA NewDBKeeps ==
  ASSUME Inv, NewDB
  PROVE  Inv'
<1> USE DEF memory, versions, background
<1>0. PICK edit : edit = [add |-> [f \in {} |-> 0], del |-> {}, log |-> 0, next |-> 2, seq |-> 0]
  OBVIOUS
<1>1. /\ phase = "down" /\ CURRENT = 0 /\ manifests' = With(manifests, 1, << edit >>) /\ CURRENT' = 1
      /\ UNCHANGED <<logs, synced, tables, phase, writers, call, memory, versions, background,
                   bgError, todo, reader, snapshot, groups>>
  BY <1>0 DEF NewDB
<1>2. Types /\ Quiet /\ DOMAIN logs = {} /\ groups = {} /\ DOMAIN mems = {} /\ TableTypes
  BY <1>1 DEF Inv, Types, Semantic, DiskInv, Quiet
<1>3. Types'
  <2>1. NumberTypes'
    BY <1>1, <1>2 DEF Types, NumberTypes
  <2> QED BY <2>1, <1>1, <1>2, SameTypes DEF Types
<1>4. edit \in Edits /\ DOMAIN edit.add = {} /\ edit.next = 2 /\ edit.log = 0 /\ edit.seq = 0
  BY <1>0, NoLevels DEF Edits
<1>5. << edit >> \in Seq(Edits) /\ << edit >> # << >> /\ Last(<< edit >>) = edit /\ Ver(<< edit >>) = {}
  BY <1>4, VerFirst
<1>6. PICK w : w = << edit >>
  OBVIOUS
<1>7. manifests'[CURRENT'] = w /\ CURRENT' \in DOMAIN manifests' /\ CURRENT' # 0
  BY <1>1, <1>6 DEF With
<1>8. Usable(w, CURRENT', tables')
  BY <1>1, <1>4, <1>5, <1>6 DEF Usable
<1>9. DiskOf(w)'
  <2>1. Ents(tables', Ver(w)) = {} /\ KeptLogs(w, logs') = {} /\ groups' = {}
    BY <1>1, <1>2, <1>5, <1>6 DEF Ents, KeptLogs
  <2>2. LogEnts({}, logs') = {}
    BY DEF LogEnts
  <2>3. \A lg, sy, L, seq : Disk({}, {}, lg, sy, L, seq, {})
    BY DEF Disk, TablesNumbered, LogsNewer, LogsOrdered, Unique, DeletionsKnown, RecordsKnown,
           GroupsSafe, SyncedSafe, LogEnts
  <2> QED BY <2>1, <2>3 DEF DiskOf
<1>10. DiskInv'
  BY <1>7, <1>8, <1>9 DEF DiskInv
<1>11. Quiet' /\ ReplayInv'
  BY <1>1, <1>2 DEF Quiet, ReplayInv
<1> QED BY <1>1, <1>3, <1>10, <1>11, EarlyStep

\* The version of a MANIFEST has levels.
LEMMA VersionLevels ==
  ASSUME NEW m \in Seq(Edits)
  PROVE  ManifestFiles(m) \in Levels
<1> DEFINE adds(f) == {i \in DOMAIN m : f \in DOMAIN m[i].add}
<1>1. DOMAIN m = 1 .. Len(m) /\ Len(m) \in Nat /\ \A i \in DOMAIN m : m[i] \in Edits
  OBVIOUS
<1>2. ASSUME NEW f \in Ver(m) PROVE f \in Nat /\ m[Max(adds(f))].add[f] \in {0, 1}
  <2>1. adds(f) # {} /\ adds(f) \in SUBSET Nat /\ \A i \in adds(f) : i <= Len(m)
    BY <1>1, <1>2, VerMember
  <2>2. \E x \in adds(f) : \A y \in adds(f) : y <= x
    BY <2>1, <1>1, GreatestElement
  <2>3. Max(adds(f)) \in adds(f)
    BY <2>1, <2>2 DEF Max
  <2>4. PICK i \in DOMAIN m : i = Max(adds(f)) /\ f \in DOMAIN m[i].add
    BY <2>3
  <2>5. m[i].add \in Levels
    BY <2>4, <1>1 DEF Edits
  <2>6. PICK S \in SUBSET Nat : m[i].add \in [S -> {0, 1}]
    BY <2>5 DEF Levels
  <2> QED BY <2>4, <2>6
<1>3. ManifestFiles(m) = [f \in Ver(m) |-> m[Max(adds(f))].add[f]]
  BY DEF ManifestFiles, Ver
<1>4. ManifestFiles(m) \in [Ver(m) -> {0, 1}] /\ Ver(m) \in SUBSET Nat
  BY <1>2, <1>3
<1> QED BY <1>4 DEF Levels

LEMMA RecoverKeeps ==
  ASSUME Inv, Recover
  PROVE  Inv'
<1> USE DEF memory, disk
<1> DEFINE m == manifests[CURRENT]
<1>1. /\ phase = "down" /\ CURRENT # 0 /\ files' = ManifestFiles(m) /\ logNumber' = Last(m).log
      /\ nextFile' = Last(m).next + 1 /\ lastSeq' = Last(m).seq
      /\ descriptorOpen' = ReuseManifest(m)
      /\ manifestNo' = (IF ReuseManifest(m) THEN CURRENT ELSE Last(m).next)
      /\ todo' = {n \in DOMAIN logs : n >= logNumber'}
      /\ job' = [table |-> 0, edit |-> [n \in {} |-> 0]] /\ phase' = "replay"
      /\ UNCHANGED <<disk, writers, call, memory, pending, bg, comp, garbage, bgError, reader,
                   snapshot, groups>>
  BY DEF Recover
<1>2. Types /\ Quiet /\ DiskInv /\ NumberTypes
  BY DEF Inv, Types, Semantic
<1>3. CURRENT \in DOMAIN manifests /\ Usable(m, CURRENT, tables) /\ DiskOf(m)
  BY <1>1, <1>2 DEF DiskInv
<1>4. /\ m \in Seq(Edits) /\ Last(m).log \in Nat /\ Last(m).next \in Nat /\ Last(m).seq \in Nat
      /\ CURRENT \in Nat /\ ReuseManifest(m) \in BOOLEAN
  BY <1>2, <1>3, LastEdit DEF NumberTypes, ReuseManifest
<1>5. job'.table = 0 /\ job'.edit \in Levels /\ DOMAIN job'.edit = {}
  <2>1. job'.table = 0 /\ job'.edit = [n \in {} |-> 0]
    BY <1>1
  <2> QED BY <2>1, NoLevels
<1>6. Types'
  <2>1. files' \in Levels
    BY <1>1, <1>4, VersionLevels
  <2>2. descriptorOpen' \in BOOLEAN /\ manifestNo' \in Nat
    BY <1>1, <1>4
  <2>3. NumberTypes'
    BY <2>1, <2>2, <1>1, <1>2, <1>4, <1>5 DEF NumberTypes
  <2> QED BY <2>3, <1>1, <1>2, SameTypes DEF Types
<1>7. DiskInv'
  <2>1. MemEnts' = MemEnts /\ m' = m
    BY <1>1 DEF MemEnts
  <2> HIDE DEF m
  <2>2. DiskOf(m)'
    BY <2>1, <1>1, <1>3 DEF DiskOf
  <2> QED BY <2>1, <2>2, <1>1, <1>3 DEF DiskInv, m
<1>8. DOMAIN mems = {} /\ logNo = 0 /\ Quiet'
  BY <1>1, <1>2 DEF Quiet
<1>9. Replayed(m)'
  <2>1. DOMAIN files' = Ver(m) /\ files' \in Levels
    BY <1>1, <1>6 DEF Ver, Types, NumberTypes
  <2>2. todo' = KeptLogs(m, logs')
    BY <1>1 DEF KeptLogs
  <2>3. Ents(tables', DOMAIN job'.edit) = {}
    BY <1>5 DEF Ents
  <2>4. Last(m).next < nextFile' /\ Last(m).seq <= lastSeq'
    BY <1>1, <1>4
  <2>5. IF descriptorOpen' THEN manifestNo' = CURRENT' ELSE manifestNo' = Last(m).next
    BY <1>1, <1>4
  <2>6. m' = m
    BY <1>1
  <2> HIDE DEF m
  <2> QED BY <2>1, <2>2, <2>3, <2>4, <2>5, <2>6, <1>1, <1>5, <1>8 DEF Replayed
<1>10. ReplayInv'
  <2> HIDE DEF m
  <2> QED BY <1>1, <1>9 DEF ReplayInv, m
<1> QED BY <1>1, <1>6, <1>7, <1>8, <1>10, EarlyStep

LEMMA MaxProperties ==
  ASSUME NEW S \in SUBSET Nat, S # {}, NEW b \in Nat, \A x \in S : x <= b
  PROVE  Max(S) \in S /\ \A y \in S : y <= Max(S)
<1>1. \E x \in S : \A y \in S : y <= x
  BY GreatestElement
<1> QED BY <1>1 DEF Max

LEMMA MaxSeqProperties ==
  ASSUME NEW S \in SUBSET Entry, NEW seq \in Nat, NEW b \in Nat, \A e \in S : e.seq <= b
  PROVE  /\ MaxSeq(S, seq) \in Nat /\ seq <= MaxSeq(S, seq) /\ \A e \in S : e.seq <= MaxSeq(S, seq)
<1>1. PICK R : R = {e.seq : e \in S} \cup {seq}
  OBVIOUS
<1>2. \A e \in S : e.seq \in Nat
  BY EntryFields
<1>3. R \in SUBSET Nat /\ R # {} /\ seq + b \in Nat /\ \A x \in R : x <= seq + b
  BY <1>1, <1>2
<1>4. Max(R) \in R /\ \A y \in R : y <= Max(R)
  BY <1>3, MaxProperties
<1> QED BY <1>1, <1>3, <1>4 DEF MaxSeq

LEMMA MarkProperties ==
  ASSUME NEW next \in Nat, NEW n \in Nat
  PROVE  /\ MarkFileNumberUsed(next, n) \in Nat \ {0} /\ next <= MarkFileNumberUsed(next, n)
         /\ n < MarkFileNumberUsed(next, n)
<1>1. PICK R : R = {next, n + 1}
  OBVIOUS
<1>2. R \in SUBSET Nat /\ R # {} /\ next + n + 1 \in Nat /\ \A x \in R : x <= next + n + 1
  BY <1>1
<1>3. Max(R) \in R /\ \A y \in R : y <= Max(R)
  BY <1>2, MaxProperties
<1> QED BY <1>1, <1>2, <1>3 DEF MarkFileNumberUsed

\* One log is replayed: its entries are in a table that job collects, or it is
\* the log that is written on.
LEMMA ReplayStep ==
  ASSUME Inv, phase = "replay", NEW n \in todo, \A k \in todo : n <= k,
         NEW entries, entries = ReadLog(logs[n]), todo' = todo \ {n},
         lastSeq' \in Nat, lastSeq <= lastSeq', \A e \in entries : e.seq <= lastSeq',
         nextFile' \in Nat, nextFile <= nextFile', n < nextFile',
         UNCHANGED <<logs, synced, manifests, CURRENT, phase, writers, call, immNo, files,
                     logNumber, manifestNo, descriptorOpen, pending, bg, comp, garbage, bgError,
                     reader, snapshot, groups>>,
         job'.table = 0, job'.edit \in Levels, DOMAIN job'.edit \subseteq DOMAIN tables',
         \A f \in DOMAIN job'.edit : (nextFile <= f /\ f < nextFile') \/ f \in DOMAIN job.edit,
         \A f \in DOMAIN tables : f \in DOMAIN tables' /\ (f < nextFile => tables'[f] = tables[f]),
         TableTypes',
         Ents(tables', DOMAIN job'.edit) =
            Ents(tables, DOMAIN job.edit) \cup (IF logNo' = n THEN {} ELSE entries),
         \/ logNo' = n /\ DOMAIN mems' = {n} /\ mems'[n] = entries /\ todo = {n}
         \/ logNo' = logNo /\ mems' = mems
  PROVE  Inv'
<1> DEFINE m == manifests[CURRENT]
           K == KeptLogs(m, logs)
           T == Ents(tables, Ver(m))
           L == LogEnts(K, logs) \cup MemEnts
<1>1. Types /\ Quiet /\ DiskInv /\ ReplayInv /\ LogTypes /\ TableTypes /\ MemTypes /\ NumberTypes
  BY DEF Inv, Types, Semantic
<1>2. CURRENT # 0 /\ Replayed(m)
  BY <1>1 DEF ReplayInv
<1>3. CURRENT \in DOMAIN manifests /\ Usable(m, CURRENT, tables) /\ DiskOf(m)
  BY <1>1, <1>2 DEF DiskInv
<1>4. /\ m \in Seq(Edits) /\ Last(m).log \in Nat /\ Last(m).next \in Nat /\ Last(m).seq \in Nat
      /\ lastSeq \in Nat /\ nextFile \in Nat /\ immNo = 0
  BY <1>1, <1>3, LastEdit DEF NumberTypes, Quiet
<1>5. /\ DOMAIN files = Ver(m) /\ logNumber = Last(m).log /\ files \in Levels
      /\ Last(m).next < nextFile /\ Last(m).seq <= lastSeq
      /\ (IF descriptorOpen THEN manifestNo = CURRENT ELSE manifestNo = Last(m).next)
      /\ todo \subseteq K /\ DOMAIN job.edit \subseteq DOMAIN tables
      /\ (\A f \in DOMAIN job.edit : Last(m).next <= f /\ f < nextFile)
      /\ (\A k \in K \ todo :
           /\ k < nextFile /\ (\A j \in todo : k < j)
           /\ (\A e \in ReadLog(logs[k]) : e.seq <= lastSeq)
           /\ (k = logNo \/ ReadLog(logs[k]) \subseteq Ents(tables, DOMAIN job.edit)))
      /\ Ents(tables, DOMAIN job.edit) \subseteq LogEnts({k \in K \ todo : k # logNo}, logs)
      /\ logNo = 0 /\ DOMAIN mems = {}
    BY <1>2 DEF Replayed
<1>6. /\ \A k \in K : k \in Nat /\ k # 0 /\ k \in DOMAIN logs
  BY <1>1 DEF KeptLogs, LogTypes
<1>7. n \in K /\ entries \subseteq Entry /\ entries \subseteq LogEnts(K, logs)
  <2>1. n \in K /\ logs[n] \in Seq(Record)
    BY <1>1, <1>5, <1>6 DEF LogTypes
  <2>2. entries \subseteq LogEnts(K, logs)
    BY <2>1, LogEntsMember
  <2> QED BY <2>1, <2>2, ReadLogType
<1>8. MemEnts = {} /\ MemEnts' \subseteq entries /\ MemTypes'
  <2>1. MemEnts = {}
    BY <1>5 DEF MemEnts
  <2>2. CASE logNo' = n /\ DOMAIN mems' = {n} /\ mems'[n] = entries /\ todo = {n}
    <3>1. MemEnts' = entries
      <4>1. {logNo', immNo'} \cap DOMAIN mems' = {n}
        BY <2>2, <1>4, <1>6, <1>7
      <4> QED BY <4>1, <2>2 DEF MemEnts
    <3>2. MemTypes'
      BY <2>2, <1>6, <1>7 DEF MemTypes
    <3> QED BY <2>1, <3>1, <3>2
  <2>3. CASE logNo' = logNo /\ mems' = mems
    BY <2>1, <2>3, <1>1 DEF MemEnts, MemTypes
  <2> QED BY <2>2, <2>3
<1>9. Types'
  <2>1. LogTypes' /\ CallTypes' /\ ReaderTypes'
    BY <1>1, SameTypes
  <2>2. NumberTypes'
    BY <1>1, <1>4, <1>5, <1>6, <1>7 DEF NumberTypes, Quiet
  <2> QED BY <2>1, <2>2, <1>8 DEF Types
<1>10. \A f \in Ver(m) : f \in DOMAIN tables /\ f < nextFile
  <2>1. Ver(m) \subseteq DOMAIN tables /\ \A f \in Ver(m) : f < Last(m).next
    BY <1>3 DEF Usable
  <2>2. \A f \in DOMAIN tables : f \in Nat
    BY <1>1 DEF TableTypes
  <2> QED BY <2>1, <2>2, <1>4, <1>5
<1>11. Ents(tables', Ver(m)) = T
  <2>1. \A f \in Ver(m) : f \in DOMAIN tables' /\ tables'[f] = tables[f]
    BY <1>10
  <2>2. Ver(m) \subseteq DOMAIN tables
    BY <1>10
  <2> QED BY <2>1, <2>2, EntsSame
<1>12. DiskInv'
  <2>1. Usable(m, CURRENT, tables')
    BY <1>3, <1>10 DEF Usable
  <2>2. DiskTypes(T, K, logs, synced, L, Last(m).seq, groups) /\ Disk(T, K, logs, synced, L, Last(m).seq, groups)
    BY <1>1, <1>3, DiskTyped DEF DiskOf
  <2>3. L \in SUBSET Entry /\ LogEnts(K, logs) \cup MemEnts' = L
    BY <2>2, <1>7, <1>8 DEF DiskTypes
  <2>4. m' = m
    OBVIOUS
  <2> HIDE DEF m, T, K, L
  <2>5. DiskOf(m)'
    BY <2>2, <2>3, <2>4, <1>11 DEF DiskOf, K
  <2> QED BY <2>1, <2>4, <2>5, <1>2, <1>3 DEF DiskInv, m
<1>13. Quiet'
  BY <1>1 DEF Quiet
<1>14. K \ todo' = (K \ todo) \cup {n} /\ todo' \subseteq K
  BY <1>5, <1>7
<1>15. ASSUME NEW k \in K \ todo'
       PROVE  /\ k < nextFile' /\ (\A j \in todo' : k < j)
              /\ (\A e \in ReadLog(logs[k]) : e.seq <= lastSeq')
              /\ (k = logNo' \/ ReadLog(logs[k]) \subseteq Ents(tables', DOMAIN job'.edit))
  <2>1. CASE k = n
    <3>1. \A j \in todo' : n < j
      BY <1>5, <1>6, <1>7
    <3> QED BY <2>1, <3>1
  <2>2. CASE k \in K \ todo
    <3>1. k < nextFile' /\ \A j \in todo' : k < j
      BY <2>2, <1>4, <1>5, <1>6
    <3>2. k \in DOMAIN logs
      BY <2>2, <1>6
    <3>3. \A e \in ReadLog(logs[k]) : e.seq <= lastSeq'
      <4>1. ReadLog(logs[k]) \subseteq Entry
        BY <3>2, <1>1, ReadLogType DEF LogTypes
      <4>2. \A e \in ReadLog(logs[k]) : e.seq \in Nat /\ e.seq <= lastSeq
        BY <4>1, <2>2, <1>5, EntryFields
      <4> QED BY <4>2, <1>4
    <3>4. ReadLog(logs[k]) \subseteq Ents(tables', DOMAIN job'.edit)
      BY <2>2, <1>5, <1>6
    <3> QED BY <3>1, <3>3, <3>4
  <2> QED BY <2>1, <2>2, <1>14
<1>16. Ents(tables', DOMAIN job'.edit) \subseteq LogEnts({k \in K \ todo' : k # logNo'}, logs)
  <2> SUFFICES ASSUME NEW e \in Ents(tables', DOMAIN job'.edit)
               PROVE  \E k \in {j \in K \ todo' : j # logNo'} : e \in ReadLog(logs[k])
    BY LogEntsMember
  <2>1. CASE e \in Ents(tables, DOMAIN job.edit)
    <3>0. PICK J : J = {j \in K \ todo : j # logNo}
      OBVIOUS
    <3>1. PICK k \in J : e \in ReadLog(logs[k])
      <4>1. e \in LogEnts(J, logs)
        BY <2>1, <3>0, <1>5
      <4> QED BY <4>1, LogEntsMember
    <3>2. k \in K \ todo' /\ k # n /\ k # 0
      BY <3>0, <3>1, <1>6, <1>14
    <3> QED BY <3>1, <3>2, <1>5
  <2>2. CASE e \in entries /\ logNo' # n
    BY <2>2, <1>14
  <2> QED BY <2>1, <2>2
<1>17. Replayed(m)'
  <2>1. Last(m).next < nextFile' /\ Last(m).seq <= lastSeq'
    BY <1>4, <1>5
  <2>2. \A f \in DOMAIN job'.edit : Last(m).next <= f /\ f < nextFile'
    <3> TAKE f \in DOMAIN job'.edit
    <3>1. f \in Nat
      BY DEF TableTypes
    <3> QED BY <3>1, <1>4, <1>5
  <2>3. IF logNo' = 0 THEN DOMAIN mems' = {} /\ phase' = "replay"
        ELSE /\ todo' = {} /\ logNo' \in K
             /\ DOMAIN mems' = {logNo'} /\ mems'[logNo'] = ReadLog(logs[logNo'])
             /\ \A k \in DOMAIN logs : k <= logNo'
    <3>1. CASE logNo' = n /\ DOMAIN mems' = {n} /\ mems'[n] = entries /\ todo = {n}
      <4>1. \A k \in K : k <= n
        BY <3>1, <1>5, <1>6, <1>7
      <4>2. \A k \in DOMAIN logs : k \in Nat /\ (k \in K \/ k < Last(m).log)
        BY <1>1, <1>4 DEF KeptLogs, LogTypes
      <4>3. Last(m).log <= n
        BY <1>7 DEF KeptLogs
      <4>4. \A k \in DOMAIN logs : k <= n
        BY <4>1, <4>2, <4>3, <1>4, <1>6, <1>7
      <4>5. n # 0
        BY <1>6, <1>7
      <4> QED BY <3>1, <4>4, <4>5, <1>7
    <3>2. CASE logNo' = logNo /\ mems' = mems
      BY <3>2, <1>5
    <3> QED BY <3>1, <3>2
  <2>4. m' = m /\ K' = K
    OBVIOUS
  <2> HIDE DEF m
  <2> QED BY <2>1, <2>2, <2>3, <2>4, <1>5, <1>14, <1>15, <1>16 DEF Replayed
<1>18. ReplayInv'
  <2>1. m' = m
    OBVIOUS
  <2> HIDE DEF m
  <2> QED BY <2>1, <1>2, <1>17 DEF ReplayInv, m
<1> QED BY <1>9, <1>12, <1>13, <1>18, EarlyStep

LEMMA RecoverLogFileKeeps ==
  ASSUME Inv, RecoverLogFile
  PROVE  Inv'
<1>1. Types /\ ReplayInv /\ LogTypes /\ TableTypes /\ NumberTypes /\ phase = "replay" /\ todo # {}
  BY DEF Inv, Types, Semantic, RecoverLogFile
<1>2. /\ todo \subseteq DOMAIN logs /\ DOMAIN job.edit \subseteq DOMAIN tables
      /\ job.table = 0 /\ job.edit \in Levels /\ logNo = 0 /\ DOMAIN mems = {}
      /\ \A f \in DOMAIN job.edit : f < nextFile
  <2>1. PICK m : m = manifests[CURRENT] /\ Replayed(m)
    BY <1>1 DEF ReplayInv
  <2>2. todo \subseteq KeptLogs(m, logs) /\ KeptLogs(m, logs) \subseteq DOMAIN logs
    BY <2>1 DEF Replayed, KeptLogs
  <2> QED BY <2>1, <2>2, <1>1 DEF Replayed
<1>3. PICK n : n = Min(todo) /\ n \in todo /\ \A k \in todo : n <= k
  <2>1. todo \in SUBSET Nat
    BY <1>1, <1>2 DEF LogTypes
  <2>2. \E x \in todo : \A y \in todo : x <= y
    BY <2>1, <1>1, LeastElement
  <2> QED BY <2>2 DEF Min
<1>4. PICK entries : entries = ReadLog(logs[n])
  OBVIOUS
<1>5. n \in Nat /\ n # 0 /\ entries \subseteq Entry /\ \E b \in Nat : \A e \in entries : e.seq <= b
  BY <1>1, <1>2, <1>3, <1>4, ReadLogType DEF LogTypes
<1>6. /\ lastSeq' = MaxSeq(entries, lastSeq) /\ todo' = todo \ {n}
      /\ UNCHANGED <<logs, synced, manifests, CURRENT, phase, writers, call, immNo, files,
                     logNumber, manifestNo, descriptorOpen, pending, bg, comp, garbage, bgError,
                     reader, snapshot, groups>>
  BY <1>3, <1>4 DEF RecoverLogFile
<1>7. IF ReuseLogs /\ todo = {n} /\ Cardinality(entries) < MemLimit
      THEN /\ mems' = With(mems, n, entries) /\ logNo' = n
           /\ nextFile' = MarkFileNumberUsed(nextFile, n) /\ UNCHANGED <<tables, job>>
      ELSE IF entries = {}
      THEN /\ nextFile' = MarkFileNumberUsed(nextFile, n) /\ UNCHANGED <<mems, logNo, tables, job>>
      ELSE /\ tables' = BuildTable(nextFile, entries)
           /\ job' = [table |-> 0, edit |-> With(job.edit, nextFile, 0)]
           /\ nextFile' = MarkFileNumberUsed(nextFile + 1, n) /\ UNCHANGED <<mems, logNo>>
  BY <1>3, <1>4 DEF RecoverLogFile
<1>8. lastSeq' \in Nat /\ lastSeq <= lastSeq' /\ \A e \in entries : e.seq <= lastSeq'
  BY <1>1, <1>5, <1>6, MaxSeqProperties DEF NumberTypes
<1>9. nextFile \in Nat /\ nextFile + 1 \in Nat
  BY <1>1 DEF NumberTypes
<1>10. ASSUME tables' = tables, job' = job, nextFile' = MarkFileNumberUsed(nextFile, n),
              \/ logNo' = n /\ DOMAIN mems' = {n} /\ mems'[n] = entries /\ todo = {n}
              \/ logNo' = logNo /\ mems' = mems /\ entries = {}
       PROVE  Inv'
  <2>1. nextFile' \in Nat /\ nextFile <= nextFile' /\ n < nextFile'
    BY <1>5, <1>9, <1>10, MarkProperties
  <2>2. TableTypes' /\ \A f \in DOMAIN job'.edit : (nextFile <= f /\ f < nextFile') \/ f \in DOMAIN job.edit
    BY <1>1, <1>10 DEF TableTypes
  <2>3. Ents(tables', DOMAIN job'.edit) =
            Ents(tables, DOMAIN job.edit) \cup (IF logNo' = n THEN {} ELSE entries)
    BY <1>10, <1>2, <1>5
  <2>4. job'.table = 0 /\ job'.edit \in Levels /\ DOMAIN job'.edit \subseteq DOMAIN tables'
    BY <1>10, <1>2
  <2>5. \A f \in DOMAIN tables : f \in DOMAIN tables' /\ (f < nextFile => tables'[f] = tables[f])
    BY <1>10
  <2> QED BY <2>1, <2>2, <2>3, <2>4, <2>5, <1>1, <1>3, <1>4, <1>6, <1>8, <1>10, ReplayStep
<1>11. CASE ReuseLogs /\ todo = {n} /\ Cardinality(entries) < MemLimit
  <2>1. DOMAIN mems' = {n} /\ mems'[n] = entries
    BY <1>11, <1>7, <1>2 DEF With
  <2> QED BY <2>1, <1>11, <1>7, <1>10
<1>12. CASE ~(ReuseLogs /\ todo = {n} /\ Cardinality(entries) < MemLimit) /\ entries = {}
  BY <1>12, <1>7, <1>10
<1>13. CASE ~(ReuseLogs /\ todo = {n} /\ Cardinality(entries) < MemLimit) /\ entries # {}
  <2>1. /\ tables' = BuildTable(nextFile, entries)
        /\ job' = [table |-> 0, edit |-> With(job.edit, nextFile, 0)]
        /\ nextFile' = MarkFileNumberUsed(nextFile + 1, n) /\ UNCHANGED <<mems, logNo>>
    BY <1>13, <1>7
  <2>2. nextFile' \in Nat /\ nextFile < nextFile' /\ n < nextFile'
    BY <2>1, <1>5, <1>9, MarkProperties
  <2>3. /\ DOMAIN tables' = DOMAIN tables \cup {nextFile} /\ tables'[nextFile] = entries
        /\ \A f \in DOMAIN tables : f < nextFile => tables'[f] = tables[f]
    <3>1. \A f \in DOMAIN tables : f \in Nat
      BY <1>1 DEF TableTypes
    <3> QED BY <3>1, <2>1, <1>9 DEF BuildTable, With
  <2>4. TableTypes'
    <3>1. \A f \in DOMAIN tables : f # nextFile => tables'[f] = tables[f]
      BY <2>1 DEF BuildTable, With
    <3> QED BY <3>1, <2>3, <1>1, <1>5, <1>9 DEF TableTypes
  <2>5. job'.table = 0 /\ job'.edit = With(job.edit, nextFile, 0)
    BY <2>1
  <2>6. job'.edit \in Levels /\ DOMAIN job'.edit = DOMAIN job.edit \cup {nextFile}
    <3>1. PICK S \in SUBSET Nat : job.edit \in [S -> {0, 1}]
      BY <1>2 DEF Levels
    <3>2. job'.edit \in [S \cup {nextFile} -> {0, 1}] /\ S \cup {nextFile} \in SUBSET Nat
      BY <3>1, <2>5, <1>9 DEF With
    <3> QED BY <3>1, <3>2 DEF Levels
  <2>7. PICK D : D = DOMAIN job.edit
    OBVIOUS
  <2>8. Ents(tables', DOMAIN job'.edit) = Ents(tables, D) \cup entries
    <3>1. PICK tb, one : tb = tables' /\ one = {nextFile}
      OBVIOUS
    <3>2. Ents(tb, D \cup one) = Ents(tb, D) \cup Ents(tb, one)
      BY EntsUnion
    <3>3. Ents(tb, D) = Ents(tables, D)
      <4>1. D \subseteq DOMAIN tables /\ \A f \in D : f \in DOMAIN tb /\ tb[f] = tables[f]
        BY <3>1, <2>3, <2>7, <1>2
      <4> QED BY <4>1, EntsSame
    <3>4. Ents(tb, one) = entries
      BY <3>1, <2>3, EntsOne
    <3> QED BY <3>1, <3>2, <3>3, <3>4, <2>6, <2>7
  <2>9. logNo' # n
    BY <2>1, <1>2, <1>5
  <2>10. \A f \in DOMAIN job'.edit : (nextFile <= f /\ f < nextFile') \/ f \in DOMAIN job.edit
    BY <2>2, <2>6, <1>9
  <2>11. \A f \in DOMAIN tables : f \in DOMAIN tables' /\ (f < nextFile => tables'[f] = tables[f])
    BY <2>3
  <2>12. DOMAIN job'.edit \subseteq DOMAIN tables' /\ nextFile <= nextFile'
    BY <2>2, <2>3, <2>6, <1>2, <1>9
  <2>13. logNo' = logNo /\ mems' = mems
    BY <2>1
  <2>14. Ents(tables', DOMAIN job'.edit) =
            Ents(tables, DOMAIN job.edit) \cup (IF logNo' = n THEN {} ELSE entries)
    BY <2>7, <2>8, <2>9
  <2> QED BY <2>2, <2>4, <2>5, <2>6, <2>10, <2>11, <2>12, <2>13, <2>14,
             <1>1, <1>3, <1>4, <1>6, <1>8, ReplayStep
<1> QED BY <1>11, <1>12, <1>13

LEMMA OpenLogKeeps ==
  ASSUME Inv, OpenLog
  PROVE  Inv'
<1> USE DEF background
<1> DEFINE m == manifests[CURRENT]
           K == KeptLogs(m, logs)
           T == Ents(tables, Ver(m))
           L == LogEnts(K, logs) \cup MemEnts
<1>1. /\ Types /\ Quiet /\ DiskInv /\ ReplayInv /\ LogTypes /\ TableTypes /\ MemTypes /\ NumberTypes
      /\ phase = "replay" /\ todo = {} /\ phase' = "newlog"
      /\ UNCHANGED <<tables, manifests, CURRENT, writers, call, immNo, files, logNumber, lastSeq,
                   manifestNo, descriptorOpen, pending, bg, job, comp, garbage, bgError, todo, reader,
                   snapshot, groups>>
  BY DEF Inv, Types, Semantic, OpenLog
<1>2. CURRENT # 0 /\ Replayed(m)
  BY <1>1 DEF ReplayInv
<1>3. CURRENT \in DOMAIN manifests /\ Usable(m, CURRENT, tables) /\ DiskOf(m)
  BY <1>1, <1>2 DEF DiskInv
<1>4. immNo = 0 /\ Quiet'
  BY <1>1 DEF Quiet
<1>5. CASE logNo # 0
  <2>1. UNCHANGED <<logs, synced, mems, logNo, nextFile>>
    BY <1>5 DEF OpenLog
  <2>2. Types'
    BY <2>1, <1>1, SameTypes DEF Types, NumberTypes
  <2>3. MemEnts' = MemEnts /\ m' = m
    BY <2>1, <1>1 DEF MemEnts
  <2> HIDE DEF m
  <2>4. DiskOf(m)' /\ Replayed(m)'
    BY <2>1, <2>3, <1>1, <1>2, <1>3, <1>5 DEF DiskOf, Replayed
  <2>5. DiskInv' /\ ReplayInv'
    BY <2>1, <2>3, <2>4, <1>1, <1>2, <1>3 DEF DiskInv, ReplayInv, m
  <2> QED BY <2>2, <2>5, <1>1, <1>4, EarlyStep
<1>6. CASE logNo = 0
  <2>1. /\ logs' = With(logs, nextFile, <<>>) /\ synced' = With(synced, nextFile, 0)
        /\ mems' = With(mems, nextFile, {}) /\ logNo' = nextFile /\ nextFile' = nextFile + 1
    BY <1>6 DEF OpenLog
  <2>2. PICK f \in Nat : f = nextFile /\ f # 0
    BY <1>1 DEF NumberTypes
  <2>3. /\ m \in Seq(Edits) /\ Last(m).log \in Nat /\ Last(m).next \in Nat /\ Last(m).seq \in Nat
        /\ Last(m).log < f /\ Last(m).next < f
    <3>1. Last(m).log \in Nat /\ Last(m).next \in Nat /\ Last(m).seq \in Nat /\ m \in Seq(Edits)
      BY <1>3, LastEdit
    <3>2. Last(m).log < Last(m).next /\ Last(m).next < f
      BY <2>2, <1>2, <1>3 DEF Usable, Replayed
    <3> QED BY <3>1, <3>2, <2>2
  <2>4. \A n \in DOMAIN logs : n \in Nat /\ n < f /\ n # 0
    <3> TAKE n \in DOMAIN logs
    <3>1. n \in Nat /\ n # 0
      BY <1>1 DEF LogTypes
    <3>2. CASE n \in K
      BY <3>2, <2>2, <1>1, <1>2, <3>1 DEF Replayed
    <3>3. CASE n \notin K
      <4>1. n < Last(m).log
        BY <3>1, <3>3, <2>3 DEF KeptLogs
      <4> QED BY <4>1, <3>1, <2>3, <2>2
    <3> QED BY <3>2, <3>3
  <2>5. /\ DOMAIN logs' = DOMAIN logs \cup {f} /\ logs'[f] = << >> /\ synced'[f] = 0
        /\ DOMAIN synced' = DOMAIN logs \cup {f}
        /\ \A n \in DOMAIN logs : logs'[n] = logs[n] /\ synced'[n] = synced[n]
        /\ DOMAIN mems' = {f} /\ mems'[f] = {} /\ logNo' = f /\ nextFile' = f + 1
    <3>1. DOMAIN synced = DOMAIN logs /\ DOMAIN mems = {}
      BY <1>1, <1>2, <1>6 DEF LogTypes, Replayed
    <3>2. \A n \in DOMAIN logs : n # f
      BY <2>2, <2>4
    <3> QED BY <3>1, <3>2, <2>1, <2>2 DEF With
  <2>6. Types'
    <3>1. LogTypes'
      <4>1. ReadLog(<< >>) = {} /\ << >> \in Seq(Record) /\ Len(<< >>) = 0 /\ 0 \in 0 .. 0
        BY ReadLogEmpty
      <4>2. /\ DOMAIN logs' \subseteq Nat \ {0} /\ DOMAIN synced' = DOMAIN logs'
            /\ \A n \in DOMAIN logs' : logs'[n] \in Seq(Record) /\ synced'[n] \in 0 .. Len(logs'[n])
        BY <4>1, <2>2, <2>4, <2>5, <1>1 DEF LogTypes
      <4>3. PICK b \in Nat : \A n \in DOMAIN logs : \A e \in ReadLog(logs[n]) : e.seq <= b
        BY <1>1 DEF LogTypes
      <4>4. \A n \in DOMAIN logs' : \A e \in ReadLog(logs'[n]) : e.seq <= b
        BY <4>1, <4>3, <2>5
      <4> QED BY <4>2, <4>4, <1>1 DEF LogTypes
    <3>2. MemTypes'
      BY <2>2, <2>5 DEF MemTypes
    <3>3. TableTypes' /\ CallTypes' /\ ReaderTypes'
      BY <1>1, SameTypes DEF Types
    <3>4. NumberTypes'
      BY <1>1, <2>2, <2>5 DEF NumberTypes
    <3> QED BY <3>1, <3>2, <3>3, <3>4 DEF Types
  <2>7. KeptLogs(m, logs') = K \cup {f} /\ f \notin K
    BY <2>2, <2>3, <2>4, <2>5 DEF KeptLogs
  <2>8. MemEnts' = {} /\ m' = m
    <3>1. {logNo', immNo'} \cap DOMAIN mems' = {f}
      BY <2>5
    <3> QED BY <3>1, <2>5, <1>1 DEF MemEnts
  <2>9. DiskTypes(T, K, logs, synced, L, Last(m).seq, groups) /\ Disk(T, K, logs, synced, L, Last(m).seq, groups)
    BY <1>1, <1>3, DiskTyped DEF DiskOf
  <2>10. PICK lg1, sy1 : lg1 = logs' /\ sy1 = synced'
    OBVIOUS
  <2>11. PICK L1 \in SUBSET Entry : L1 = LogEnts(K, logs) /\ L1 \subseteq L
    BY <2>9 DEF DiskTypes
  <2>12. \A n \in K : n \in DOMAIN logs
    BY DEF KeptLogs
  <2>13. lg1[f] = << >> /\ \A n \in K : lg1[n] = logs[n] /\ sy1[n] = synced[n]
    BY <2>5, <2>10, <2>12
  <2>14. Replayed(m)'
    <3>1. KeptLogs(m, logs') \ todo' = K \cup {f} /\ todo' = {} /\ K \ todo = K
      BY <2>7, <1>1
    <3>2. /\ DOMAIN files = Ver(m) /\ logNumber = Last(m).log /\ files \in Levels
          /\ Last(m).seq <= lastSeq /\ job.table = 0 /\ job.edit \in Levels
          /\ (IF descriptorOpen THEN manifestNo = CURRENT ELSE manifestNo = Last(m).next)
          /\ DOMAIN job.edit \subseteq DOMAIN tables
          /\ (\A k \in DOMAIN job.edit : Last(m).next <= k /\ k < f)
          /\ (\A k \in K : /\ (\A e \in ReadLog(logs[k]) : e.seq <= lastSeq)
                           /\ (k = logNo \/ ReadLog(logs[k]) \subseteq Ents(tables, DOMAIN job.edit)))
          /\ Ents(tables, DOMAIN job.edit) \subseteq LogEnts({k \in K : k # logNo}, logs)
      BY <3>1, <1>2, <2>2 DEF Replayed
    <3>3. ASSUME NEW k \in K \cup {f}
          PROVE  /\ k < f + 1 /\ (\A e \in ReadLog(logs'[k]) : e.seq <= lastSeq)
                 /\ (k = f \/ ReadLog(logs'[k]) \subseteq Ents(tables, DOMAIN job.edit))
      <4>1. CASE k = f
        BY <4>1, <2>5, ReadLogEmpty
      <4>2. CASE k \in K
        BY <4>2, <3>2, <2>4, <2>5, <2>12, <1>6
      <4> QED BY <4>1, <4>2
    <3>4. LogEnts({k \in K : k # logNo}, logs) \subseteq LogEnts({k \in K \cup {f} : k # f}, logs')
      <4>1. {k \in K : k # logNo} = K /\ {k \in K \cup {f} : k # f} = K
        BY <1>6, <2>4, <2>7, <2>12
      <4>2. \A k \in K : logs'[k] = logs[k]
        BY <2>5, <2>12
      <4> HIDE DEF K
      <4>3. LogEnts(K, logs) \subseteq LogEnts(K, logs')
        BY <4>2 DEF LogEnts
      <4> QED BY <4>1, <4>3
    <3>5. \A k \in DOMAIN job.edit : Last(m).next <= k /\ k < f + 1
      <4>1. \A k \in DOMAIN job.edit : k \in Nat
        BY <3>2, <1>1 DEF TableTypes
      <4> QED BY <4>1, <3>2, <2>2
    <3>6. \A n \in DOMAIN logs' : n <= f
      BY <2>4, <2>5
    <3>7. mems'[f] = ReadLog(logs'[f])
      BY <2>5, ReadLogEmpty
    <3>8. Last(m).next < f + 1
      BY <2>2, <2>3
    <3> HIDE DEF m, K
    <3> QED BY <3>1, <3>2, <3>3, <3>4, <3>5, <3>6, <3>7, <3>8, <2>2, <2>5, <2>7, <2>8, <1>1 DEF Replayed
  <2> HIDE DEF m, K, T, L
  <2>15. PICK seq : seq = Last(m).seq
    OBVIOUS
  <2>16. /\ LogEnts(K \cup {f}, lg1) = LogEnts(K, logs)
         /\ Disk(T, K \cup {f}, lg1, sy1, L1, seq, groups)
    BY <2>7, <2>9, <2>11, <2>13, <2>15, DiskNewLog
  <2>17. LogEnts(KeptLogs(m, logs'), logs') \cup MemEnts' = L1
    BY <2>7, <2>8, <2>10, <2>11, <2>16
  <2>18. DiskOf(m)'
    BY <2>7, <2>8, <2>10, <2>15, <2>16, <2>17, <1>1 DEF DiskOf, T
  <2>19. DiskInv' /\ ReplayInv'
    BY <2>8, <2>14, <2>18, <1>1, <1>2, <1>3 DEF DiskInv, ReplayInv, m
  <2> QED BY <2>6, <2>19, <1>1, <1>4, EarlyStep
<1> QED BY <1>5, <1>6

\* When the logs are replayed, the tables of the version and those that job
\* collects are older than the log that is written on, and its memtable has
\* all of it.
Collected(m, T, A, K) ==
    /\ m = manifests[CURRENT] /\ T = Ents(tables, Ver(m)) /\ A = Ents(tables, DOMAIN job.edit)
    /\ K = KeptLogs(m, logs)
Saved(m, T, A, K) ==
    /\ Types /\ Quiet /\ DiskInv /\ CURRENT # 0 /\ CURRENT \in DOMAIN manifests
    /\ Usable(m, CURRENT, tables) /\ DiskOf(m) /\ Replayed(m)
    /\ logNo # 0 /\ logNo \in K /\ logNo \in DOMAIN logs /\ todo = {} /\ logNo < nextFile
    /\ immNo = 0 /\ DOMAIN mems = {logNo} /\ mems[logNo] = Log /\ MemEnts = Log
    /\ \A n \in DOMAIN logs : n \in Nat /\ n <= logNo
    /\ \A n \in K : n # logNo => ReadLog(logs[n]) \subseteq A
    /\ T \subseteq Entry /\ A \subseteq LogEnts(K, logs) /\ LogEnts(K, logs) \subseteq Entry
    /\ Log \subseteq LogEnts(K, logs)
    /\ Below(T \cup A, Log) /\ Unique(T \cup A \cup Log)
    /\ \A e \in T \cup A \cup Log :
         e.seq <= lastSeq /\ (e.del => \E g \in groups : e \in g.entries)

LEMMA SavedFacts ==
  ASSUME Inv, phase = "newlog", NEW m, NEW T, NEW A, NEW K, Collected(m, T, A, K)
  PROVE  Saved(m, T, A, K)
<1> USE DEF Collected
<1>1. Types /\ Quiet /\ DiskInv /\ ReplayInv /\ LogTypes /\ TableTypes /\ MemTypes /\ NumberTypes
  BY DEF Inv, Types, Semantic
<1>2. CURRENT # 0 /\ Replayed(m)
  BY <1>1 DEF ReplayInv
<1>3. CURRENT \in DOMAIN manifests /\ Usable(m, CURRENT, tables) /\ DiskOf(m)
  BY <1>1, <1>2 DEF DiskInv
<1>4. logNo # 0
  BY <1>2 DEF Replayed
<1>5. /\ todo = {} /\ logNo \in K /\ DOMAIN mems = {logNo} /\ mems[logNo] = Log
      /\ \A n \in DOMAIN logs : n <= logNo
  BY <1>2, <1>4 DEF Replayed, Log
<1>6. /\ \A n \in K : /\ n < nextFile /\ (\A e \in ReadLog(logs[n]) : e.seq <= lastSeq)
                      /\ (n = logNo \/ ReadLog(logs[n]) \subseteq A)
      /\ A \subseteq LogEnts({n \in K : n # logNo}, logs) /\ Last(m).seq <= lastSeq
  <2>1. K \ todo = K
    BY <1>5
  <2> QED BY <2>1, <1>2 DEF Replayed
<1>7. \A n \in DOMAIN logs : n \in Nat /\ n <= logNo
  BY <1>1, <1>5 DEF LogTypes
<1>8. immNo = 0 /\ MemEnts = Log /\ logNo \in DOMAIN logs
  <2>1. immNo = 0 /\ logNo \in DOMAIN logs
    BY <1>1, <1>5 DEF Quiet, KeptLogs
  <2>2. {logNo, immNo} \cap DOMAIN mems = {logNo}
    BY <1>5
  <2> QED BY <2>1, <2>2, <1>5 DEF MemEnts
<1>9. T \subseteq Entry /\ LogEnts(K, logs) \subseteq Entry /\ \A n \in K : n \in DOMAIN logs
  BY <1>1, EntsType, KeptTypes
<1>10. PICK J : J = {n \in K : n # logNo}
  OBVIOUS
<1>11. \A e \in A : \E n \in K : n # logNo /\ e \in ReadLog(logs[n])
  <2> TAKE e \in A
  <2>1. e \in LogEnts(J, logs)
    BY <1>6, <1>10
  <2>2. PICK n \in J : e \in ReadLog(logs[n])
    BY <2>1, LogEntsMember
  <2> QED BY <2>2, <1>10
<1>12. A \subseteq LogEnts(K, logs)
  BY <1>11, LogEntsMember
<1>13. Log \subseteq LogEnts(K, logs)
  BY <1>5, LogEntsMember DEF Log
<1>14. Disk(T, K, logs, synced, LogEnts(K, logs) \cup MemEnts, Last(m).seq, groups)
  BY <1>3 DEF DiskOf
<1>15. /\ TablesNumbered(T, Last(m).seq) /\ LogsNewer(T, K, logs) /\ LogsOrdered(K, logs)
       /\ Unique(T \cup LogEnts(K, logs)) /\ DeletionsKnown(T, groups)
       /\ RecordsKnown(T, K, logs, groups)
  BY <1>14 DEF Disk
<1>16. Below(T, Log)
  <2>1. ~ \E k \in K : logNo < k
    BY <1>5, <1>7, <1>9
  <2> QED BY <2>1, <1>5, <1>15 DEF LogsNewer, Log
<1>17. Below(A, Log)
  <2> SUFFICES ASSUME NEW e \in A, NEW f \in Log PROVE e.seq < f.seq
    BY DEF Below
  <2>1. PICK n \in K : n # logNo /\ e \in ReadLog(logs[n])
    BY <1>11
  <2>2. n < logNo
    BY <2>1, <1>5, <1>7, <1>9
  <2>3. Below(ReadLog(logs[n]), ReadLog(logs[logNo]))
    BY <2>2, <1>5, <1>15 DEF LogsOrdered
  <2> QED BY <2>1, <2>3 DEF Below, Log
<1>18. \A e \in T : e.seq <= lastSeq
  <2>1. Last(m).seq \in Nat /\ lastSeq \in Nat
    BY <1>1, <1>3, LastEdit DEF NumberTypes
  <2>2. \A e \in T : e.seq \in Nat /\ e.seq <= Last(m).seq
    BY <1>9, <1>15, EntryFields DEF TablesNumbered
  <2> QED BY <2>1, <2>2, <1>6
<1>19. \A e \in LogEnts(K, logs) : e.seq <= lastSeq /\ (e.del => \E g \in groups : e \in g.entries)
  <2> TAKE e \in LogEnts(K, logs)
  <2>1. PICK n \in K : e \in ReadLog(logs[n])
    BY LogEntsMember
  <2>2. PICK i \in DOMAIN logs[n] : logs[n][i] # Torn /\ e \in logs[n][i]
    BY <2>1, ReadLogMember
  <2>3. logs[n][i] \subseteq T \/ \E g \in groups : g.entries = logs[n][i]
    BY <2>2, <1>15 DEF RecordsKnown
  <2>4. e.del => \E g \in groups : e \in g.entries
    BY <2>2, <2>3, <1>15 DEF DeletionsKnown
  <2> QED BY <2>1, <2>4, <1>6
<1>20. \A e \in T : e.del => \E g \in groups : e \in g.entries
  BY <1>15 DEF DeletionsKnown
<1>21. Unique(T \cup A \cup Log)
  BY <1>12, <1>13, <1>15 DEF Unique
<1>22. Below(T \cup A, Log)
  BY <1>16, <1>17 DEF Below
<1>23. \A e \in T \cup A \cup Log : e.seq <= lastSeq /\ (e.del => \E g \in groups : e \in g.entries)
  BY <1>12, <1>13, <1>18, <1>19, <1>20
<1>24. logNo < nextFile /\ \A n \in K : n # logNo => ReadLog(logs[n]) \subseteq A
  BY <1>5, <1>6
<1> QED BY <1>1, <1>2, <1>3, <1>4, <1>5, <1>7, <1>8, <1>9, <1>12, <1>13, <1>21, <1>22, <1>23, <1>24
     DEF Saved

\* A MANIFEST that adds those tables and asks for that log only can be used.
LEMMA SavedDisk ==
  ASSUME Inv, phase = "newlog", NEW w, NEW n, w \in Seq(Edits), w # << >>,
         Ver(w) = Ver(manifests[CURRENT]) \cup DOMAIN job.edit,
         Last(w).log = logNo, Last(w).seq = lastSeq, Last(w).next = nextFile,
         n \in Nat, n < nextFile
  PROVE  DiskOf(w) /\ Usable(w, n, tables)
<1>0. PICK m, T, A, K : Collected(m, T, A, K)
  BY DEF Collected
<1>1. /\ m = manifests[CURRENT] /\ T = Ents(tables, Ver(m))
      /\ A = Ents(tables, DOMAIN job.edit) /\ K = KeptLogs(m, logs)
  BY <1>0 DEF Collected
<1>2. /\ Types /\ Usable(m, CURRENT, tables) /\ DiskOf(m) /\ Replayed(m)
      /\ logNo \in K /\ logNo \in DOMAIN logs /\ logNo < nextFile /\ MemEnts = Log
      /\ \A k \in DOMAIN logs : k \in Nat /\ k <= logNo
      /\ \A k \in K : k # logNo => ReadLog(logs[k]) \subseteq A
      /\ T \subseteq Entry /\ A \subseteq LogEnts(K, logs) /\ LogEnts(K, logs) \subseteq Entry
      /\ Log \subseteq LogEnts(K, logs)
      /\ Below(T \cup A, Log) /\ Unique(T \cup A \cup Log)
      /\ \A e \in T \cup A \cup Log :
              e.seq <= lastSeq /\ (e.del => \E g \in groups : e \in g.entries)
  <2>1. Saved(m, T, A, K)
    BY <1>0, SavedFacts
  <2> QED BY <2>1 DEF Saved
<1>3. LogTypes /\ TableTypes /\ MemTypes /\ NumberTypes
  BY <1>2 DEF Types
<1>4. KeptLogs(w, logs) = {logNo}
  BY <1>2 DEF KeptLogs
<1>5. Ents(tables, Ver(w)) = T \cup A
  <2>1. PICK B, C : B = Ver(m) /\ C = DOMAIN job.edit
    OBVIOUS
  <2>2. Ents(tables, B \cup C) = Ents(tables, B) \cup Ents(tables, C)
    BY EntsUnion
  <2>3. Ver(w) = B \cup C /\ T = Ents(tables, B) /\ A = Ents(tables, C)
    BY <2>1, <1>1
  <2> QED BY <2>2, <2>3
<1>6. PICK L, K1, seq : L = LogEnts(K, logs) \cup MemEnts /\ K1 = {logNo} /\ seq = Last(m).seq
  OBVIOUS
<1>7. DiskTypes(T, K, logs, synced, L, seq, groups) /\ Disk(T, K, logs, synced, L, seq, groups)
  BY <1>1, <1>2, <1>3, <1>6, DiskTyped DEF DiskOf
<1>8. LogEnts(K1, logs) = Log
  BY <1>6 DEF LogEnts, Log
<1>9. A \in SUBSET L /\ K1 \in SUBSET K /\ Log \in SUBSET L
  BY <1>2, <1>6
<1>10. lastSeq \in Nat /\ seq <= lastSeq /\ \A e \in A : e.seq <= lastSeq
  BY <1>2, <1>3, <1>6 DEF NumberTypes, Replayed
<1>11. \A k \in K \ K1 : ReadLog(logs[k]) \subseteq T \cup A
  BY <1>2, <1>6
<1>12. \A k \in K1 : Below(T \cup A, ReadLog(logs[k]))
  BY <1>2, <1>6 DEF Log
<1>13. DeletionsKnown(A, groups) /\ Unique(T \cup A \cup LogEnts(K1, logs))
  BY <1>2, <1>8 DEF DeletionsKnown
<1>14. PICK L1 \in SUBSET L : L1 = Log
  BY <1>9
<1>15. Disk(T \cup A, K1, logs, synced, L1, lastSeq, groups)
  BY <1>7, <1>9, <1>10, <1>11, <1>12, <1>13, DiskAddTables
<1>16. LogEnts(KeptLogs(w, logs), logs) \cup MemEnts = L1
  BY <1>2, <1>4, <1>6, <1>8, <1>14
<1>17. DiskOf(w)
  BY <1>4, <1>5, <1>6, <1>15, <1>16 DEF DiskOf
<1>18. Usable(w, n, tables)
  <2>1. Ver(m) \subseteq DOMAIN tables /\ \A f \in Ver(m) : f < Last(m).next
    BY <1>2 DEF Usable
  <2>2. Last(m).next \in Nat /\ Last(m).next < nextFile /\ nextFile \in Nat
    BY <1>2, <1>3, LastEdit DEF Replayed, NumberTypes
  <2>3. DOMAIN job.edit \subseteq DOMAIN tables /\ \A f \in DOMAIN job.edit : f < nextFile
    BY <1>2 DEF Replayed
  <2>4. \A f \in DOMAIN tables : f \in Nat
    BY <1>3 DEF TableTypes
  <2>5. \A f \in Ver(m) : f < nextFile
    BY <2>1, <2>2, <2>4
  <2> QED BY <2>1, <2>3, <2>5, <1>1, <1>2 DEF Usable
<1> QED BY <1>17, <1>18

\* The version with the tables of the logs is the one in memory, and w is the
\* MANIFEST that describes it.
SavedIn(w) ==
    /\ manifestNo' \in DOMAIN manifests' /\ manifests'[manifestNo'] = w
    /\ Usable(w, manifestNo, tables) /\ DiskOf(w)
    /\ Ver(w) = DOMAIN files' /\ Last(w).log = logNumber' /\ Last(w).next <= nextFile
    /\ Last(w).seq <= lastSeq
    /\ files' \in Levels /\ DOMAIN files' = DOMAIN files \cup DOMAIN job.edit
    /\ logNumber' = logNo \/ (logNumber' = logNumber /\ DOMAIN job.edit = {})

LEMMA SaveStep ==
  ASSUME Inv, phase = "newlog", phase' = "opening", NEW w, SavedIn(w), DiskInv', job' = NoJob,
         UNCHANGED <<logs, synced, tables, CURRENT, writers, call, mems, logNo, immNo, nextFile, lastSeq,
                   manifestNo, descriptorOpen, pending, bg, comp, garbage, bgError, todo, reader,
                   snapshot, groups>>
  PROVE  Inv'
<1>0. PICK m, T, A, K : Collected(m, T, A, K)
  BY DEF Collected
<1>1. /\ m = manifests[CURRENT] /\ T = Ents(tables, Ver(m))
      /\ A = Ents(tables, DOMAIN job.edit) /\ K = KeptLogs(m, logs)
  BY <1>0 DEF Collected
<1>2. Saved(m, T, A, K)
  BY <1>0, SavedFacts
<1>3. /\ Types /\ Quiet /\ Usable(m, CURRENT, tables) /\ Replayed(m)
      /\ logNo # 0 /\ logNo \in K /\ logNo \in DOMAIN logs /\ todo = {} /\ logNo < nextFile
      /\ immNo = 0 /\ DOMAIN mems = {logNo} /\ mems[logNo] = Log /\ MemEnts = Log
      /\ \A n \in DOMAIN logs : n \in Nat /\ n <= logNo
      /\ \A n \in K : n # logNo => ReadLog(logs[n]) \subseteq A
  BY <1>2 DEF Saved
<1>4. /\ T \subseteq Entry /\ LogEnts(K, logs) \subseteq Entry /\ A \subseteq LogEnts(K, logs)
      /\ Below(T \cup A, Log) /\ Unique(T \cup A \cup Log)
      /\ \A e \in T \cup A \cup Log :
              e.seq <= lastSeq /\ (e.del => \E g \in groups : e \in g.entries)
  BY <1>2 DEF Saved
<1>5. LogTypes /\ TableTypes /\ MemTypes /\ NumberTypes
  BY <1>3 DEF Types
<1>6. /\ DOMAIN files = Ver(m) /\ logNumber = Last(m).log /\ DOMAIN job.edit \subseteq DOMAIN tables
      /\ (\A f \in DOMAIN job.edit : f < nextFile) /\ Last(m).next < nextFile
      /\ (IF descriptorOpen THEN manifestNo = CURRENT ELSE manifestNo = Last(m).next)
  BY <1>3 DEF Replayed
<1>7. /\ Ver(m) \subseteq DOMAIN tables /\ (\A f \in Ver(m) : f < Last(m).next)
      /\ CURRENT < Last(m).next
  BY <1>3 DEF Usable
<1>8. /\ Last(m).next \in Nat /\ Last(m).log \in Nat /\ nextFile \in Nat /\ CURRENT \in Nat
      /\ logNo \in Nat /\ logNumber \in Nat /\ lastSeq \in Nat
  BY <1>3, <1>5, LastEdit DEF NumberTypes
<1>9. Quiet'
  BY <1>3 DEF Quiet
<1>10. Types'
  <2>1. job'.table = 0
    BY DEF NoJob
  <2>2. files' \in Levels /\ logNumber' \in Nat
    BY <1>8 DEF SavedIn
  <2>3. NumberTypes'
    BY <2>1, <2>2, <1>5 DEF NumberTypes
  <2> QED BY <2>3, <1>3, SameTypes DEF Types
<1>11. Tab' = T \cup A
  <2>1. PICK B, C : B = Ver(m) /\ C = DOMAIN job.edit
    OBVIOUS
  <2>2. Ents(tables, B \cup C) = Ents(tables, B) \cup Ents(tables, C)
    BY EntsUnion
  <2>3. DOMAIN files' = B \cup C /\ T = Ents(tables, B) /\ A = Ents(tables, C)
    BY <2>1, <1>1, <1>6 DEF SavedIn
  <2> QED BY <2>2, <2>3 DEF Tab
<1>12. /\ Log' = Log /\ Imm' = {} /\ mems'[logNo'] = Log
  BY <1>3 DEF Log, Imm
<1>13. /\ Leaders' /\ Compacting' /\ Jobs' /\ Garbage' /\ Reading' /\ ReadsSnapshot' /\ OpenVersion'
       /\ Pending' = {} /\ InFlight({"insert", "syncError"})' = {}
  BY <1>8, <1>9, QuietStep
<1>14. Numbers'
  <2>1. logNumber' <= logNo
    BY <1>1, <1>3, <1>6, <1>8 DEF SavedIn, KeptLogs
  <2>2. \A f \in DOMAIN files' : f \in DOMAIN tables /\ f < nextFile
    <3>1. \A f \in DOMAIN tables : f \in Nat
      BY <1>5 DEF TableTypes
    <3> QED BY <3>1, <1>6, <1>7, <1>8 DEF SavedIn
  <2>3. manifestNo < nextFile
    BY <1>6, <1>7, <1>8
  <2> QED BY <2>1, <2>2, <2>3, <1>3 DEF Numbers
<1>15. OtherLogs'
  <2> SUFFICES ASSUME NEW n \in DOMAIN logs, n >= logNumber'
               PROVE  n = logNo \/ ReadLog(logs[n]) = {}
    BY DEF OtherLogs
  <2>1. CASE logNumber' = logNo
    BY <2>1, <1>3, <1>8
  <2>2. CASE logNumber' = logNumber /\ DOMAIN job.edit = {}
    <3>1. n \in K
      BY <2>2, <1>1, <1>6 DEF KeptLogs
    <3>2. A = {}
      BY <2>2, <1>1 DEF Ents
    <3> QED BY <3>1, <3>2, <1>3
  <2> QED BY <2>1, <2>2 DEF SavedIn
<1>16. Layered'
  <2>1. Below(T \cup A, {}) /\ Below({}, Log) /\ Below(T \cup A, Log)
    BY <1>4 DEF Below
  <2>2. Unique(T \cup A \cup {} \cup Log \cup Log)
    BY <1>4 DEF Unique
  <2>3. Below(T \cup A \cup {}, Log)
    BY <1>4 DEF Below
  <2> HIDE DEF Log
  <2> QED BY <2>1, <2>2, <2>3, <1>4, <1>11, <1>12 DEF Layered
<1>17. LogsMatch'
  BY <1>3, <1>12 DEF LogsMatch
<1>18. ReplayInv'
  BY DEF ReplayInv
<1>19. NewVersion'
  <2>1. MemEnts' = MemEnts
    BY DEF MemEnts
  <2>2. DiskOf(w)'
    BY <2>1 DEF SavedIn, DiskOf
  <2>3. manifests'[manifestNo'] = w
    BY DEF SavedIn
  <2>4. manifestNo # 0
    <3>1. Saved(m, T, A, K)
      BY <1>2
    <3> QED BY <3>1, <1>6, <1>7, <1>8 DEF Saved
  <2> QED BY <2>2, <2>3, <2>4 DEF SavedIn, NewVersion
<1> QED BY <1>9, <1>10, <1>13, <1>14, <1>15, <1>16, <1>17, <1>18, <1>19 DEF Inv, Semantic

LEMMA SaveManifestKeeps ==
  ASSUME Inv, SaveManifest
  PROVE  Inv'
<1>1. /\ phase = "newlog" /\ phase' = "opening" /\ job' = NoJob
      /\ UNCHANGED <<logs, synced, tables, CURRENT, writers, call, mems, logNo, immNo, nextFile, lastSeq,
                   manifestNo, descriptorOpen, pending, bg, comp, garbage, bgError, todo, reader,
                   snapshot, groups>>
  BY DEF SaveManifest, memory
<1>2. PICK m, T, A, K : Collected(m, T, A, K)
  BY DEF Collected
<1>3. m = manifests[CURRENT] /\ Saved(m, T, A, K)
  BY <1>1, <1>2, SavedFacts DEF Collected
<1>4. /\ Types /\ CURRENT # 0 /\ CURRENT \in DOMAIN manifests
      /\ Usable(m, CURRENT, tables) /\ DiskOf(m) /\ Replayed(m)
  BY <1>3 DEF Saved
<1>5. NumberTypes /\ m \in Seq(Edits) /\ Last(m).next \in Nat /\ CURRENT < Last(m).next
  BY <1>4, LastEdit DEF Types, Usable
<1>6. /\ DOMAIN files = Ver(m) /\ logNumber = Last(m).log /\ files \in Levels /\ job.edit \in Levels
      /\ Last(m).next < nextFile /\ Last(m).seq <= lastSeq
      /\ (IF descriptorOpen THEN manifestNo = CURRENT ELSE manifestNo = Last(m).next)
  BY <1>4 DEF Replayed
<1>7. /\ CURRENT \in Nat /\ manifestNo \in Nat /\ nextFile \in Nat /\ logNo \in Nat /\ lastSeq \in Nat
      /\ logNumber \in Nat
  BY <1>5 DEF NumberTypes
<1>8. MemEnts' = MemEnts
  BY <1>1 DEF MemEnts
<1>9. ASSUME manifests'[CURRENT] = m, CURRENT \in DOMAIN manifests'
      PROVE  DiskInv'
  <2>1. DiskOf(m)'
    BY <1>1, <1>4, <1>8 DEF DiskOf
  <2> QED BY <2>1, <1>1, <1>4, <1>9 DEF DiskInv
<1>10. CASE descriptorOpen /\ job.edit = [n \in {} |-> 0]
  <2>1. manifests' = manifests /\ files' = files /\ logNumber' = logNumber
    BY <1>10 DEF SaveManifest
  <2>2. DOMAIN job.edit = {}
    BY <1>10
  <2>3. manifestNo = CURRENT
    BY <1>10, <1>6
  <2>4. SavedIn(m)
    BY <2>1, <2>2, <2>3, <1>1, <1>3, <1>4, <1>5, <1>6, <1>7 DEF SavedIn
  <2>5. DiskInv'
    BY <2>1, <1>3, <1>4, <1>9
  <2> QED BY <2>4, <2>5, <1>1, SaveStep
<1>11. CASE ~(descriptorOpen /\ job.edit = [n \in {} |-> 0])
  <2>1. PICK edit : edit = Edit(job.edit, {}, logNo)
    OBVIOUS
  <2>2. /\ files' = Apply(files, edit) /\ logNumber' = logNo
        /\ manifests' = IF descriptorOpen
                        THEN [manifests EXCEPT ![manifestNo] = Append(@, edit)]
                        ELSE With(manifests, manifestNo, <<Snapshot, edit>>)
    BY <2>1, <1>11 DEF SaveManifest
  <2>3. /\ edit \in Edits /\ edit.add = job.edit /\ edit.del = {} /\ edit.log = logNo
        /\ edit.next = nextFile /\ edit.seq = lastSeq
    BY <2>1, <1>6, <1>7 DEF Edit, Edits
  <2>4. DOMAIN files' = DOMAIN files \cup DOMAIN job.edit /\ files' \in Levels
    BY <2>2, <2>3, <1>6, AppliedVersion
  <2>5. manifestNo < nextFile
    BY <1>5, <1>6, <1>7
  <2>6. ASSUME NEW w, w \in Seq(Edits), w # << >>, Ver(w) = Ver(m) \cup DOMAIN job.edit, Last(w) = edit,
               manifestNo \in DOMAIN manifests', manifests'[manifestNo] = w
        PROVE  SavedIn(w) /\ DiskOf(w) /\ Usable(w, manifestNo, tables)
    <3>1. Last(w).log = logNo /\ Last(w).seq = lastSeq /\ Last(w).next = nextFile
      BY <2>3, <2>6
    <3>2. DiskOf(w) /\ Usable(w, manifestNo, tables)
      BY <3>1, <2>5, <2>6, <1>1, <1>3, <1>7, SavedDisk
    <3>3. Last(w).next <= nextFile /\ Last(w).seq <= lastSeq
      BY <3>1, <1>7
    <3> QED BY <3>1, <3>2, <3>3, <2>2, <2>4, <2>6, <1>1, <1>6 DEF SavedIn
  <2>7. CASE descriptorOpen
    <3>1. PICK w : w = Append(m, edit)
      OBVIOUS
    <3>2. w \in Seq(Edits) /\ w # << >> /\ Last(w) = edit /\ Ver(w) = Ver(m) \cup DOMAIN job.edit
      BY <3>1, <2>3, <1>5, VerAppend
    <3>3. /\ manifestNo = CURRENT /\ DOMAIN manifests' = DOMAIN manifests /\ manifests'[manifestNo] = w
      BY <3>1, <2>2, <2>7, <1>3, <1>4, <1>6
    <3>4. SavedIn(w) /\ DiskOf(w) /\ Usable(w, manifestNo, tables)
      BY <3>2, <3>3, <2>6, <1>4
    <3>5. DiskOf(w)'
      BY <3>4, <1>1, <1>8 DEF DiskOf
    <3>6. DiskInv'
      BY <3>3, <3>4, <3>5, <1>1, <1>4 DEF DiskInv
    <3> QED BY <3>4, <3>6, <1>1, SaveStep
  <2>8. CASE ~descriptorOpen
    <3>1. PICK w, s : w = << s, edit >> /\ s = Snapshot
      OBVIOUS
    <3>2. s \in Edits /\ s.add = files
      BY <3>1, <1>6, <1>7 DEF Snapshot, Edits
    <3>3. w \in Seq(Edits) /\ w # << >> /\ Last(w) = edit /\ Ver(w) = Ver(m) \cup DOMAIN job.edit
      <4>1. PICK u : u = << s >>
        OBVIOUS
      <4>2. u \in Seq(Edits) /\ Ver(u) = DOMAIN files
        BY <4>1, <3>2, VerFirst
      <4>3. w = Append(u, edit)
        BY <4>1, <3>1
      <4> QED BY <4>2, <4>3, <2>3, <1>6, VerAppend
    <3>4. /\ DOMAIN manifests' = DOMAIN manifests \cup {manifestNo} /\ manifests'[manifestNo] = w
          /\ \A n \in DOMAIN manifests : n # manifestNo => manifests'[n] = manifests[n]
      BY <3>1, <2>2, <2>8 DEF With
    <3>5. CURRENT # manifestNo
      BY <2>8, <1>5, <1>6, <1>7
    <3>6. SavedIn(w)
      BY <3>3, <3>4, <2>6
    <3>7. DiskInv'
      BY <3>4, <3>5, <1>3, <1>4, <1>9
    <3> QED BY <3>6, <3>7, <1>1, SaveStep
  <2> QED BY <2>7, <2>8
<1> QED BY <1>10, <1>11

LEMMA SetCurrentFileKeeps ==
  ASSUME Inv, SetCurrentFile
  PROVE  Inv'
<1> USE DEF memory, background
<1>1. /\ phase = "opening" /\ CURRENT' = manifestNo /\ descriptorOpen' = TRUE
      /\ UNCHANGED <<logs, synced, tables, manifests, phase, writers, call, memory, files,
                   logNumber, nextFile, lastSeq, manifestNo, background, bgError, todo, reader,
                   snapshot, groups>>
  BY DEF SetCurrentFile
<1>2. PICK w, n : w = manifests[manifestNo] /\ n = manifestNo
  OBVIOUS
<1>3. /\ Types /\ Quiet /\ NewVersion /\ Numbers /\ OtherLogs /\ Layered /\ LogsMatch /\ NumberTypes
  BY DEF Inv, Semantic, Types
<1>4. /\ n \in DOMAIN manifests /\ Usable(w, n, tables) /\ DiskOf(w) /\ n # 0
  BY <1>1, <1>2, <1>3 DEF NewVersion
<1>5. Types'
  <2>1. NumberTypes'
    BY <1>1, <1>3 DEF NumberTypes
  <2> QED BY <2>1, <1>1, <1>3, SameTypes DEF Types
<1>6. MemEnts' = MemEnts
  BY <1>1 DEF MemEnts
<1>7. DiskOf(w)'
  BY <1>1, <1>4, <1>6 DEF DiskOf
<1>8. DiskInv'
  BY <1>1, <1>2, <1>4, <1>7 DEF DiskInv
<1>9. Quiet' /\ ReplayInv'
  BY <1>1, <1>3 DEF Quiet, ReplayInv
<1>10. NewVersion'
  BY <1>1, <1>2, <1>3, <1>4, <1>7 DEF NewVersion
<1>11. /\ Leaders' /\ Compacting' /\ Jobs' /\ Garbage' /\ Reading' /\ ReadsSnapshot' /\ OpenVersion'
  BY <1>1, <1>5, <1>9, QuietStep DEF Types, NumberTypes
<1>12. Numbers' /\ OtherLogs'
  BY <1>1, <1>3, SameNumbers
<1>13. Layered' /\ LogsMatch'
  BY <1>1, <1>3 DEF Layered, LogsMatch, Ready, Log, Imm, Tab, Pending, InFlight
<1> QED BY <1>5, <1>8, <1>9, <1>10, <1>11, <1>12, <1>13 DEF Inv, Semantic

LEMMA OpenedKeeps ==
  ASSUME Inv, Opened
  PROVE  Inv'
<1> USE DEF memory, versions
<1>0. PICK m, gl, gt, gm : /\ m = manifests[CURRENT] /\ gl = Obsolete(files, {}, {}, logNumber).logs
                           /\ gt = Obsolete(files, {}, {}, logNumber).tables
                           /\ gm = Obsolete(files, {}, {}, logNumber).manifests
  OBVIOUS
<1>1. /\ phase = "opening" /\ CURRENT = manifestNo /\ phase' = "open"
      /\ logs' = Without(logs, gl) /\ synced' = Without(synced, gl) /\ tables' = Without(tables, gt)
      /\ manifests' = Without(manifests, gm) /\ bgError' = bgError /\ bg' = Scheduled(0, files)
      /\ UNCHANGED <<CURRENT, writers, call, memory, versions, pending, job, comp, garbage, todo,
                   reader, snapshot, groups>>
  BY <1>0 DEF Opened
<1>2. /\ Types /\ Quiet /\ NewVersion /\ Numbers /\ OtherLogs /\ Layered /\ LogsMatch /\ NumberTypes
      /\ LogTypes /\ TableTypes
  BY DEF Inv, Semantic, Types
<1>3. /\ CURRENT \in DOMAIN manifests /\ CURRENT # 0 /\ Usable(m, CURRENT, tables) /\ DiskOf(m)
      /\ Ver(m) = DOMAIN files /\ Last(m).log = logNumber /\ Last(m).next <= nextFile
      /\ Last(m).seq <= lastSeq
  BY <1>0, <1>1, <1>2 DEF NewVersion
<1>4. /\ gl = {n \in DOMAIN logs : n < logNumber} /\ gt \cap DOMAIN files = {}
      /\ gm = {n \in DOMAIN manifests : n < manifestNo}
  <2>1. /\ gl = {n \in DOMAIN logs : n < logNumber} /\ gt = DOMAIN tables \ Live(files, {}, {})
        /\ gm = {n \in DOMAIN manifests : n < manifestNo}
    BY <1>0 DEF Obsolete
  <2>2. DOMAIN files \subseteq Live(files, {}, {})
    BY DEF Live
  <2> QED BY <2>1, <2>2
<1>5. /\ logNo \in Nat /\ logNumber \in Nat /\ manifestNo \in Nat /\ lastSeq \in Nat /\ nextFile \in Nat
      /\ files \in Levels /\ bgError \in BOOLEAN
  BY <1>2 DEF NumberTypes
<1>6. /\ DiskInv' /\ LogTypes' /\ TableTypes' /\ manifests'[CURRENT'] = m
      /\ CURRENT \in DOMAIN manifests'
      /\ Ents(tables', Ver(m)) = Ents(tables, Ver(m))
      /\ DOMAIN tables' = DOMAIN tables \ gt /\ \A f \in DOMAIN tables \ gt : tables'[f] = tables[f]
      /\ DOMAIN logs' = DOMAIN logs \ gl
      /\ \A n \in DOMAIN logs \ gl : logs'[n] = logs[n] /\ synced'[n] = synced[n]
  <2>1. \A n \in gl : n < Last(manifests[CURRENT]).log
    BY <1>0, <1>3, <1>4
  <2>2. gt \cap Ver(manifests[CURRENT]) = {} /\ CURRENT \notin gm
    BY <1>0, <1>1, <1>3, <1>4, <1>5
  <2>3. UNCHANGED <<CURRENT, groups, mems, logNo, immNo>>
    BY <1>1
  <2>4. Usable(manifests[CURRENT], CURRENT, tables) /\ DiskOf(manifests[CURRENT])
    BY <1>0, <1>3
  <2>5. /\ logs' = Without(logs, gl) /\ synced' = Without(synced, gl) /\ tables' = Without(tables, gt)
        /\ manifests' = Without(manifests, gm)
    BY <1>1
  <2>6. /\ DiskInv' /\ LogTypes' /\ TableTypes' /\ manifests'[CURRENT'] = manifests[CURRENT]
        /\ CURRENT \in DOMAIN manifests'
        /\ Ents(tables', Ver(manifests[CURRENT])) = Ents(tables, Ver(manifests[CURRENT]))
        /\ DOMAIN tables' = DOMAIN tables \ gt /\ \A f \in DOMAIN tables \ gt : tables'[f] = tables[f]
        /\ DOMAIN logs' = DOMAIN logs \ gl
        /\ \A n \in DOMAIN logs \ gl : logs'[n] = logs[n] /\ synced'[n] = synced[n]
    BY <2>1, <2>2, <2>3, <2>4, <2>5, <1>2, <1>3, RemovalDisk
  <2> QED BY <2>6, <1>0
<1>7. /\ writers = <<>> /\ (\A c \in Clients : call[c] = Idle) /\ immNo = 0 /\ bg = "none" /\ comp = {}
      /\ ~bgError /\ \A r \in Readers : reader[r] = NoRead /\ snapshot[r] = NoSnapshot
  BY <1>1, <1>2 DEF Quiet
<1>8. Types'
  <2>1. NumberTypes'
    BY <1>1, <1>2 DEF NumberTypes
  <2> QED BY <2>1, <1>1, <1>2, <1>6, SameTypes DEF Types
<1>9. /\ logNo \in DOMAIN logs /\ logNo \in DOMAIN mems /\ logNo # 0 /\ logNumber <= logNo
      /\ logNo < nextFile /\ (\A n \in DOMAIN logs : n <= logNo) /\ (\A n \in DOMAIN mems : n < nextFile)
      /\ DOMAIN files \subseteq DOMAIN tables /\ (\A f \in DOMAIN files : f < nextFile)
      /\ manifestNo < nextFile
  BY <1>1, <1>2 DEF Numbers, Ready
<1>10. logNo \notin gl /\ logs'[logNo] = logs[logNo] /\ logNo \in DOMAIN logs'
  BY <1>4, <1>5, <1>6, <1>9
<1>11. Numbers'
  <2>1. DOMAIN files \subseteq DOMAIN tables'
    BY <1>4, <1>6, <1>9
  <2> QED BY <2>1, <1>1, <1>6, <1>7, <1>9, <1>10 DEF Numbers
<1>12. OtherLogs'
  <2>1. \A n \in DOMAIN logs : n >= logNumber => n = logNo \/ n = immNo \/ ReadLog(logs[n]) = {}
    BY <1>1, <1>2 DEF OtherLogs, Ready
  <2> QED BY <2>1, <1>1, <1>6 DEF OtherLogs
<1>13. Tab' = Tab /\ Imm' = Imm /\ Log' = Log /\ mems'[logNo'] = mems[logNo] /\ Imm = {}
  <2>1. Tab' = Tab
    BY <1>1, <1>3, <1>6 DEF Tab
  <2> QED BY <2>1, <1>1, <1>7, <1>10 DEF Imm, Log
<1>14. /\ Pending = {} /\ Pending' = {} /\ InFlight({"insert", "syncError"})' = {}
       /\ InFlight({"insert", "syncError"}) = {} /\ Leaders'
  <2>1. \A c \in Clients : call[c].pc = "idle" /\ call'[c].pc = "idle"
    BY <1>1, <1>7 DEF Idle
  <2> QED BY <2>1 DEF Pending, InFlight, Leaders, Leading
<1>15. Layered'
  BY <1>1, <1>2, <1>13, <1>14 DEF Layered, Ready
<1>16. LogsMatch'
  BY <1>1, <1>2, <1>7, <1>10, <1>13, <1>14 DEF LogsMatch, Ready
<1>17. bg' \in {"none", "scheduled"}
  BY <1>1, <1>7 DEF Scheduled
<1>18. Compacting' /\ Jobs' /\ Garbage'
  BY <1>1, <1>7, <1>17 DEF Compacting, Jobs, Garbage
<1>19. OpenVersion'
  <2>1. TM(m)' = Tab'
    BY <1>1, <1>3 DEF TM, Tab
  <2> QED BY <2>1, <1>1, <1>3, <1>6 DEF OpenVersion
<1>20. Reading' /\ ReadsSnapshot'
  <2>1. \A r \in Readers : reader'[r] = NoRead /\ snapshot'[r] = NoSnapshot
    BY <1>1, <1>7
  <2>2. NoRead.on = FALSE /\ NoRead.files = {} /\ NoSnapshot.seq = 0
    BY DEF NoRead, NoSnapshot
  <2>3. lastSeq' \in Nat
    BY <1>1, <1>5
  <2> QED BY <2>1, <2>2, <2>3 DEF Reading, ReadsSnapshot
<1>21. Quiet' /\ ReplayInv' /\ NewVersion'
  BY <1>1, OnlyWhenOpen
<1> QED BY <1>6, <1>8, <1>11, <1>12, <1>14, <1>15, <1>16, <1>18, <1>19, <1>20, <1>21 DEF Inv, Semantic

-----------------------------------------------------------------------------
(* A start, and a crash *)

Start ==
    /\ phase = "down" /\ writers = <<>> /\ call = [c \in Clients |-> Idle]
    /\ mems = [n \in {} |-> {}] /\ logNo = 0 /\ immNo = 0
    /\ files = [n \in {} |-> 0] /\ logNumber = 0 /\ nextFile = 2 /\ lastSeq = 0
    /\ manifestNo = 0 /\ descriptorOpen = FALSE
    /\ pending = {} /\ bg = "none" /\ job = NoJob /\ comp = {} /\ garbage = NoFiles
    /\ bgError = FALSE /\ todo = {}
    /\ reader = [r \in Readers |-> NoRead] /\ snapshot = [r \in Readers |-> NoSnapshot]

LEMMA StartFacts ==
  ASSUME Start, CURRENT \in Nat
  PROVE  MemTypes /\ NumberTypes /\ CallTypes /\ ReaderTypes /\ Quiet /\ ReplayInv /\ MemEnts = {}
<1> USE DEF Start
<1>1. DOMAIN mems = {}
  OBVIOUS
<1>2. MemTypes /\ MemEnts = {}
  BY <1>1 DEF MemTypes, MemEnts
<1>3. NumberTypes
  <2>1. NoJob.table = 0
    BY DEF NoJob
  <2>2. files \in Levels /\ job.table = 0 /\ phase = "down" /\ comp = {}
    BY <2>1, NoLevels
  <2>3. descriptorOpen \in BOOLEAN /\ bgError \in BOOLEAN
    OBVIOUS
  <2>4. /\ logNo \in Nat /\ immNo \in Nat /\ logNumber \in Nat
        /\ nextFile \in Nat \ {0} /\ lastSeq \in Nat /\ manifestNo \in Nat
    OBVIOUS
  <2> HIDE DEF Start
  <2> QED BY <2>2, <2>3, <2>4 DEF NumberTypes
<1>4. CallTypes
  <2>1. Idle \in Writer
    BY DEF Idle, Writer
  <2> QED BY <2>1 DEF CallTypes
<1>5. ReaderTypes
  <2>1. /\ NoSnapshot.seq = 0 /\ NoRead.at = 0 /\ NoRead.mem = 0 /\ NoRead.imm = 0 /\ NoRead.files = {}
        /\ NoRead.on \in BOOLEAN
    BY DEF NoSnapshot, NoRead
  <2>2. \A r \in Readers : reader[r] = NoRead /\ snapshot[r] = NoSnapshot
    OBVIOUS
  <2>4. \A r \in Readers : snapshot[r].seq = 0 /\ reader[r].at = 0 /\ reader[r].mem = 0 /\ reader[r].imm = 0
                            /\ reader[r].files = {} /\ reader[r].on \in BOOLEAN
    BY <2>1, <2>2
  <2>3. DOMAIN reader = Readers /\ DOMAIN snapshot = Readers
    OBVIOUS
  <2> HIDE DEF Start
  <2> QED BY <2>3, <2>4 DEF ReaderTypes
<1>6. Quiet
  <2>1. \A c \in Clients : call[c] = Idle
    OBVIOUS
  <2>4. \A r \in Readers : reader[r] = NoRead /\ snapshot[r] = NoSnapshot
    OBVIOUS
  <2>2. ~bgError
    OBVIOUS
  <2>3. writers = <<>> /\ immNo = 0 /\ bg = "none" /\ comp = {} /\ pending = {} /\ logNo = 0 /\ todo = {}
    OBVIOUS
  <2> HIDE DEF Start
  <2> QED BY <2>1, <2>2, <2>3, <2>4, <1>1 DEF Quiet
<1>7. ReplayInv
  BY DEF ReplayInv
<1> QED BY <1>2, <1>3, <1>4, <1>5, <1>6, <1>7

LEMMA InitKeeps ==
  ASSUME Init
  PROVE  Inv
<1>1. /\ DOMAIN logs = {} /\ DOMAIN synced = {} /\ DOMAIN tables = {} /\ CURRENT = 0 /\ phase = "down"
      /\ groups = {} /\ Start
  BY DEF Init, Start
<1>2. LogTypes /\ TableTypes
  BY <1>1 DEF LogTypes, TableTypes
<1>3. MemTypes /\ NumberTypes /\ CallTypes /\ ReaderTypes /\ Quiet /\ ReplayInv
  BY <1>1, StartFacts
<1>4. DiskInv
  BY <1>1 DEF DiskInv
<1> QED BY <1>1, <1>2, <1>3, <1>4, EarlyState DEF Types

\* What is left of a log has the synced records, and nothing that was not in
\* it but an incomplete record.
LEMMA RemainsFacts ==
  ASSUME LogTypes, NEW n \in DOMAIN logs, NEW r \in Remains(n)
  PROVE  /\ r \in Seq(Record) /\ ReadLog(r) \subseteq ReadLog(logs[n])
         /\ \A i \in DOMAIN r : (i \in DOMAIN logs[n] /\ r[i] = logs[n][i]) \/ r[i] = Torn
         /\ \A i \in 1 .. synced[n] : i \in DOMAIN r /\ r[i] = logs[n][i]
<1>1. PICK log : log = logs[n]
  OBVIOUS
<1>2. /\ log \in Seq(Record) /\ Len(log) \in Nat /\ DOMAIN log = 1 .. Len(log)
      /\ synced[n] \in Nat /\ synced[n] <= Len(log)
  BY <1>1 DEF LogTypes
<1>3. ASSUME NEW i \in synced[n] .. Len(log)
      PROVE  /\ SubSeq(log, 1, i) \in Seq(Record) /\ Len(SubSeq(log, 1, i)) = i
             /\ DOMAIN SubSeq(log, 1, i) = 1 .. i /\ \A j \in 1 .. i : SubSeq(log, 1, i)[j] = log[j]
  BY <1>2, <1>3
<1>4. Torn \in Record
  BY DEF Record
<1>5. /\ r \in Seq(Record)
      /\ \A i \in DOMAIN r : (i \in DOMAIN log /\ r[i] = log[i]) \/ r[i] = Torn
      /\ \A i \in 1 .. synced[n] : i \in DOMAIN r /\ r[i] = log[i]
  <2>1. CASE r = log
    BY <2>1, <1>2
  <2>2. CASE \E i \in synced[n] .. Len(log) : r = SubSeq(log, 1, i)
    <3>1. PICK i \in synced[n] .. Len(log) : r = SubSeq(log, 1, i)
      BY <2>2
    <3>2. r \in Seq(Record) /\ DOMAIN r = 1 .. i /\ \A j \in 1 .. i : r[j] = log[j]
      BY <3>1, <1>3
    <3>3. i \in Nat /\ i <= Len(log) /\ synced[n] <= i
      BY <1>2
    <3>4. \A j \in 1 .. i : j \in DOMAIN log
      BY <3>3, <1>2
    <3>5. \A j \in 1 .. synced[n] : j \in 1 .. i
      BY <3>3, <1>2
    <3> QED BY <3>2, <3>4, <3>5
  <2>3. CASE \E i \in synced[n] .. Len(log) - 1 : r = Append(SubSeq(log, 1, i), Torn)
    <3>1. PICK i \in synced[n] .. Len(log) - 1 : r = Append(SubSeq(log, 1, i), Torn)
      BY <2>3
    <3>2. i \in synced[n] .. Len(log) /\ i \in Nat
      BY <1>2
    <3>3. PICK s : s = SubSeq(log, 1, i)
      OBVIOUS
    <3>4. s \in Seq(Record) /\ Len(s) = i /\ DOMAIN s = 1 .. i /\ \A j \in 1 .. i : s[j] = log[j]
      BY <3>2, <3>3, <1>3
    <3>5. /\ r \in Seq(Record) /\ DOMAIN r = 1 .. i + 1 /\ r[i + 1] = Torn
          /\ \A j \in 1 .. i : r[j] = s[j]
      BY <3>1, <3>2, <3>3, <3>4, <1>4
    <3>6. \A j \in 1 .. i + 1 : j \in 1 .. i \/ j = i + 1
      BY <3>2
    <3>7. \A j \in 1 .. i : j \in DOMAIN log
      BY <3>2, <1>2
    <3>8. \A j \in 1 .. synced[n] : j \in 1 .. i /\ j \in 1 .. i + 1
      BY <3>2, <1>2
    <3> QED BY <3>4, <3>5, <3>6, <3>7, <3>8
  <2> QED BY <2>1, <2>2, <2>3, <1>1 DEF Remains
<1>6. ReadLog(r) \subseteq ReadLog(log)
  <2> SUFFICES ASSUME NEW e \in ReadLog(r) PROVE e \in ReadLog(log)
    OBVIOUS
  <2>1. PICK i \in DOMAIN r : r[i] # Torn /\ e \in r[i]
    BY ReadLogMember
  <2>2. i \in DOMAIN log /\ log[i] # Torn /\ e \in log[i]
    BY <2>1, <1>5
  <2> QED BY <2>2, ReadLogMember
<1> QED BY <1>1, <1>5, <1>6

LEMMA CrashKeeps ==
  ASSUME Inv, Crash
  PROVE  Inv'
<1>1. /\ phase # "down" /\ Start' /\ UNCHANGED <<tables, manifests, CURRENT>>
      /\ groups' = {g \in groups : g.entries \notin Lost(logs')}
  BY DEF Crash, Start
<1>2. Types /\ DiskInv /\ LogTypes /\ TableTypes /\ MemTypes /\ NumberTypes
  BY DEF Inv, Semantic, Types
<1>3. PICK m, K, T, L, seq : /\ m = manifests[CURRENT] /\ K = KeptLogs(m, logs)
                             /\ T = Ents(tables, Ver(m)) /\ L = LogEnts(K, logs) \cup MemEnts
                             /\ seq = Last(m).seq
  OBVIOUS
<1>4. CURRENT # 0 /\ CURRENT \in DOMAIN manifests /\ Usable(m, CURRENT, tables) /\ DiskOf(m)
  BY <1>1, <1>2, <1>3 DEF DiskInv
<1>5. PICK lg1, sy1, gr1, lost : lg1 = logs' /\ sy1 = synced' /\ gr1 = groups' /\ lost = Lost(lg1)
  OBVIOUS
<1>6. /\ DOMAIN lg1 = DOMAIN logs /\ DOMAIN sy1 = DOMAIN logs
      /\ \A n \in DOMAIN logs : lg1[n] \in Remains(n) /\ sy1[n] = Len(lg1[n])
  <2>1. /\ lg1 \in [DOMAIN logs -> UNION {Remains(n) : n \in DOMAIN logs}]
        /\ \A n \in DOMAIN logs : lg1[n] \in Remains(n)
    BY <1>5 DEF Crash
  <2>2. sy1 = [n \in DOMAIN logs |-> Len(lg1[n])]
    BY <1>5 DEF Crash
  <2> QED BY <2>1, <2>2
<1>7. ASSUME NEW n \in DOMAIN logs
      PROVE  /\ lg1[n] \in Seq(Record) /\ ReadLog(lg1[n]) \subseteq ReadLog(logs[n])
             /\ \A i \in DOMAIN lg1[n] : (i \in DOMAIN logs[n] /\ lg1[n][i] = logs[n][i]) \/ lg1[n][i] = Torn
             /\ \A i \in 1 .. synced[n] : i \in DOMAIN lg1[n] /\ lg1[n][i] = logs[n][i]
  <2>1. PICK r : r = lg1[n]
    OBVIOUS
  <2>2. r \in Remains(n)
    BY <2>1, <1>6
  <2>3. /\ r \in Seq(Record) /\ ReadLog(r) \subseteq ReadLog(logs[n])
        /\ \A i \in DOMAIN r : (i \in DOMAIN logs[n] /\ r[i] = logs[n][i]) \/ r[i] = Torn
        /\ \A i \in 1 .. synced[n] : i \in DOMAIN r /\ r[i] = logs[n][i]
    BY <2>2, <1>2, RemainsFacts
  <2> QED BY <2>1, <2>3
<1>8. gr1 = {g \in groups : g.entries \notin lost}
  BY <1>1, <1>5
<1>9. LogTypes'
  <2>1. DOMAIN logs' \subseteq Nat \ {0} /\ DOMAIN synced' = DOMAIN logs' /\ groups' \subseteq Group
    BY <1>2, <1>5, <1>6, <1>8 DEF LogTypes
  <2>2. \A n \in DOMAIN logs' : logs'[n] \in Seq(Record) /\ synced'[n] \in 0 .. Len(logs'[n])
    BY <1>5, <1>6, <1>7
  <2>3. PICK b \in Nat : \A n \in DOMAIN logs : \A e \in ReadLog(logs[n]) : e.seq <= b
    BY <1>2 DEF LogTypes
  <2>4. \A n \in DOMAIN logs' : \A e \in ReadLog(logs'[n]) : e.seq <= b
    BY <2>3, <1>5, <1>6, <1>7
  <2> QED BY <2>1, <2>2, <2>3, <2>4 DEF LogTypes
<1>10. (MemTypes /\ NumberTypes /\ CallTypes /\ ReaderTypes /\ Quiet /\ ReplayInv /\ MemEnts = {})'
  <2>1. (Start /\ CURRENT \in Nat)'
    BY <1>1, <1>2 DEF NumberTypes
  <2> QED BY <2>1, StartFacts, PTL
<1>11. Types'
  BY <1>1, <1>2, <1>9, <1>10, SameTypes DEF Types
<1>12. DiskTypes(T, K, logs, synced, L, seq, groups) /\ Disk(T, K, logs, synced, L, seq, groups)
  BY <1>2, <1>3, <1>4, DiskTyped DEF DiskOf
<1>13. \A n \in K : n \in DOMAIN logs
  BY <1>3 DEF KeptLogs
<1>14. \A r : r \in lost <=> /\ \E n \in K : r \in Range(logs[n]) \ Range(lg1[n])
                             /\ ~(r \subseteq T)
  <2>1. K = {n \in DOMAIN logs : n >= Last(manifests[CURRENT]).log}
    BY <1>3 DEF KeptLogs
  <2>2. TableEntries(DOMAIN ManifestFiles(manifests[CURRENT])) = T
    BY <1>2, <1>3, EntsType DEF Ver
  <2>3. lost = {rec \in UNION {Range(logs[n]) \ Range(lg1[n]) : n \in K} : ~(rec \subseteq T)}
    BY <2>1, <2>2, <1>5 DEF Lost
  <2> QED BY <2>3
<1>15. \A n \in K : lg1[n] \in Seq(Record) /\ sy1[n] = Len(lg1[n])
  BY <1>6, <1>7, <1>13
<1>16. \A n \in K : \A i \in DOMAIN lg1[n] :
          (i \in DOMAIN logs[n] /\ lg1[n][i] = logs[n][i]) \/ lg1[n][i] = Torn
  BY <1>7, <1>13
<1>17. \A n \in K : \A i \in 1 .. synced[n] : i \in DOMAIN lg1[n] /\ lg1[n][i] = logs[n][i]
  BY <1>7, <1>13
<1>18. LogEnts(K, logs) \subseteq L
  BY <1>3
<1>19. Disk(T, K, lg1, sy1, LogEnts(K, lg1), seq, gr1)
  <2>1. Crashed(T, K, logs, synced, groups, lg1, sy1, lost, gr1)
    BY <1>8, <1>14, <1>15, <1>16, <1>17 DEF Crashed
  <2> QED BY <2>1, <1>12, <1>18, DiskCrash
<1>20. DiskOf(m)'
  <2>1. MemEnts' = {}
    BY <1>10
  <2>2. KeptLogs(m, logs') = K
    BY <1>3, <1>5, <1>6 DEF KeptLogs
  <2>3. LogEnts(K, lg1) \cup MemEnts' = LogEnts(K, lg1)
    BY <2>1
  <2> QED BY <2>2, <2>3, <1>1, <1>3, <1>5, <1>19 DEF DiskOf
<1>21. DiskInv'
  BY <1>1, <1>3, <1>4, <1>20 DEF DiskInv
<1>22. Quiet' /\ ReplayInv' /\ phase' = "down"
  BY <1>1, <1>10 DEF Start
<1> QED BY <1>11, <1>21, <1>22, EarlyStep

-----------------------------------------------------------------------------
(* Every step *)

LEMMA StutterKeeps ==
  ASSUME Inv, UNCHANGED vars
  PROVE  Inv'
<1> USE DEF vars, disk, memory, versions, background
<1>1. Types'
  <2>1. Types
    BY DEF Inv
  <2> QED BY <2>1, SameTypes DEF Types
<1>2. /\ DiskInv /\ Quiet /\ ReplayInv /\ Numbers /\ OtherLogs /\ Layered /\ LogsMatch
      /\ Leaders /\ NewVersion /\ OpenVersion /\ Compacting /\ Jobs /\ Garbage /\ Reading /\ ReadsSnapshot
  BY DEF Inv, Semantic
<1>3. DiskInv' /\ NewVersion'
  <2>1. MemEnts' = MemEnts
    BY DEF MemEnts
  <2> QED BY <2>1, <1>2 DEF DiskInv, NewVersion, DiskOf
<1>4. Quiet' /\ ReplayInv'
  BY <1>2 DEF Quiet, ReplayInv, Replayed
<1>5. Numbers' /\ OtherLogs' /\ Layered' /\ LogsMatch' /\ Leaders'
  <2>1. Leaders' /\ Pending' = Pending /\ InFlight({"insert", "syncError"})' = InFlight({"insert", "syncError"})
    BY <1>2, SameWriters
  <2>2. Numbers' /\ OtherLogs'
    BY <1>2, SameNumbers
  <2> QED BY <2>1, <2>2, <1>2, SameLayers
<1>6. OpenVersion' /\ Compacting' /\ Garbage' /\ Reading'
  BY <1>2 DEF OpenVersion, Compacting, Garbage, Reading, Tab, Imm, TM, Unused
<1>7. Jobs'
  BY <1>2 DEF Jobs, Imm, Unused, EditFor, Flushing
<1>8. ReadsSnapshot'
  <2>1. \A a, b, fs, s : Shown(a, b, fs, s)' = Shown(a, b, fs, s)
    BY DEF Shown, Lookup, TableEntries
  <2>2. \A s : View(s)' = View(s)
    BY DEF View, Shown, Lookup, TableEntries
  <2>3. ReadsSnapshot /\ UNCHANGED <<reader, snapshot, phase>>
    BY <1>2
  <2> HIDE DEF vars
  <2> QED BY <2>1, <2>2, <2>3 DEF ReadsSnapshot
<1> QED BY <1>1, <1>3, <1>4, <1>5, <1>6, <1>7, <1>8 DEF Inv, Semantic

LEMMA NextKeeps ==
  ASSUME Inv, [Next]_vars
  PROVE  Inv'
<1>1. ASSUME NEW c \in Clients, Write(c) \/ Lead(c) \/ WriteFaults(c) PROVE Inv'
  BY <1>1, WriteKeeps, WaitForRoomKeeps, WriteRefusedKeeps, SwitchMemTableKeeps, BuildBatchGroupKeeps, AddRecordKeeps,
     InsertIntoKeeps, PublishKeeps, SwitchFailsKeeps, AddRecordFailsKeeps, SyncFailsKeeps
     DEF Lead, WriteFaults
<1>2. CASE Background \/ BackgroundFaults
  BY <1>2, BackgroundIdleKeeps, FlushStartKeeps, FlushBuildKeeps, CompactionStartKeeps,
     CompactionOpenKeeps, CompactionFinishKeeps, LogAndApplyKeeps, RemoveFilesKeeps,
     FlushFailsKeeps, LogAndApplyFailsKeeps DEF Background, BackgroundFaults
<1>3. ASSUME NEW r \in Readers, GetStart(r) \/ GetEnd(r) \/ GetSnapshot(r) \/ ReleaseSnapshot(r)
      PROVE  Inv'
  BY <1>3, GetStartKeeps, GetEndKeeps, GetSnapshotKeeps, ReleaseSnapshotKeeps
<1>4. CASE Open \/ Crash
  BY <1>4, NewDBKeeps, RecoverKeeps, RecoverLogFileKeeps, OpenLogKeeps, SaveManifestKeeps,
     SetCurrentFileKeeps, OpenedKeeps, CrashKeeps DEF Open
<1>5. CASE UNCHANGED vars
  BY <1>5, StutterKeeps
<1> QED BY <1>1, <1>2, <1>3, <1>4, <1>5 DEF Next

-----------------------------------------------------------------------------
(* What the invariant says *)

LEMMA InvReopens ==
  ASSUME Inv
  PROVE  Reopens
<1>1. DiskInv
  BY DEF Inv, Semantic
<1> QED BY <1>1 DEF DiskInv, Usable, Ver, Reopens

\* An entry that the tables outlived stands.
LEMMA OldStands ==
  ASSUME NEW T, NEW L, NEW seq, NEW e \in Entry, Old(T, L, seq, groups, e), groups \subseteq Group,
         NEW S \in SUBSET Entry, T \subseteq S, S \subseteq T \cup L
  PROVE  Stands(e, S)
<1>1. CASE \E f \in T : f.key = e.key /\ f.seq >= e.seq
  BY <1>1 DEF Stands
<1>2. CASE /\ \A f \in T : f.key # e.key
           /\ \E g \in groups : \E d \in g.entries :
                /\ d.del /\ d.key = e.key /\ d.seq >= e.seq /\ d.seq <= seq
                /\ \A f \in L : f \in T \/ f.seq > d.seq
  <2>1. PICK g \in groups : \E d \in g.entries :
                /\ d.del /\ d.key = e.key /\ d.seq >= e.seq /\ d.seq <= seq
                /\ \A f \in L : f \in T \/ f.seq > d.seq
    BY <1>2
  <2>2. PICK d \in g.entries :
                /\ d.del /\ d.key = e.key /\ d.seq >= e.seq /\ d.seq <= seq
                /\ \A f \in L : f \in T \/ f.seq > d.seq
    BY <2>1
  <2>3. d \in Entry
    BY <2>2, GroupFields
  <2>4. CASE \E f \in S : f.key = e.key
    <3>1. PICK f \in S : f.key = e.key
      BY <2>4
    <3>2. f \in L /\ f \notin T
      BY <3>1, <1>2
    <3>3. f.seq > d.seq
      BY <3>2, <2>2
    <3>4. f.seq \in Nat /\ d.seq \in Nat /\ e.seq \in Nat
      BY <2>3, <3>1, EntryFields
    <3>5. f.seq >= e.seq
      BY <3>3, <3>4, <2>2
    <3> QED BY <3>1, <3>5 DEF Stands
  <2>5. CASE \A f \in S : f.key # e.key
    BY <2>5, <2>2 DEF Stands
  <2> QED BY <2>4, <2>5
<1> QED BY <1>1, <1>2 DEF Old

\* What a restart finds, in the terms of Disk.
LEMMA OnDiskIs ==
  ASSUME Inv, CURRENT # 0, NEW m, m = manifests[CURRENT], NEW K, K = KeptLogs(m, logs), NEW read
  PROVE  OnDisk(read) = Ents(tables, Ver(m)) \cup UNION {read[n] : n \in K}
<1>1. TableEntries(Ver(m)) = Ents(tables, Ver(m))
  BY EntsType DEF Inv, Types
<1>2. K = {k \in DOMAIN logs : k >= Last(m).log}
  BY DEF KeptLogs
<1> QED BY <1>1, <1>2 DEF OnDisk, Ver

LEMMA InvAckedOnDisk ==
  ASSUME Inv
  PROVE  AckedOnDisk
<1> SUFFICES ASSUME NEW g \in groups, g.acked, g.whole, NEW e \in g.entries
             PROVE  /\ Stands(e, OnDisk(AllRecords)) /\ g.sync => Stands(e, OnDisk(SyncedRecords))
  BY DEF AckedOnDisk
<1>1. Types /\ DiskInv /\ LogTypes /\ TableTypes /\ MemTypes
  BY DEF Inv, Semantic, Types
<1>2. PICK m, K, T, L, seq : /\ m = manifests[CURRENT] /\ K = KeptLogs(m, logs)
                             /\ T = Ents(tables, Ver(m)) /\ L = LogEnts(K, logs) \cup MemEnts
                             /\ seq = Last(m).seq
  OBVIOUS
<1>3. CURRENT # 0 /\ Usable(m, CURRENT, tables) /\ DiskOf(m)
  BY <1>1, <1>2 DEF DiskInv
<1>4. DiskTypes(T, K, logs, synced, L, seq, groups) /\ Disk(T, K, logs, synced, L, seq, groups)
  BY <1>1, <1>2, <1>3, DiskTyped DEF DiskOf
<1>5. T \subseteq Entry /\ L \subseteq Entry /\ groups \subseteq Group /\ g.entries \subseteq Entry /\ e \in Entry
  <2>1. groups \subseteq Group
    BY <1>1 DEF LogTypes
  <2> QED BY <2>1, <1>4, GroupFields DEF DiskTypes
<1>6. g.entries # Torn
  BY <1>5, NoEntryIsNone
<1>7. PICK S, R : S = OnDisk(AllRecords) /\ R = OnDisk(SyncedRecords)
  OBVIOUS
<1>8. \A n \in K : /\ n \in DOMAIN logs /\ logs[n] \in Seq(Record) /\ synced[n] \in 0 .. Len(logs[n])
                   /\ AllRecords[n] = ReadLog(logs[n])
                   /\ SyncedRecords[n] = ReadLog(SubSeq(logs[n], 1, synced[n]))
  BY <1>1, <1>2 DEF KeptLogs, LogTypes, AllRecords, SyncedRecords
<1>9. ASSUME NEW n \in K
      PROVE  /\ DOMAIN SubSeq(logs[n], 1, synced[n]) = 1 .. synced[n]
             /\ \A i \in 1 .. synced[n] : SubSeq(logs[n], 1, synced[n])[i] = logs[n][i]
             /\ 1 .. synced[n] \subseteq DOMAIN logs[n]
  BY <1>8
<1>10. S = T \cup UNION {AllRecords[n] : n \in K} /\ R = T \cup UNION {SyncedRecords[n] : n \in K}
  BY <1>2, <1>3, <1>7, OnDiskIs
<1>11. \A n \in K : SyncedRecords[n] \subseteq ReadLog(logs[n])
  <2> SUFFICES ASSUME NEW n \in K, NEW f \in SyncedRecords[n] PROVE f \in ReadLog(logs[n])
    OBVIOUS
  <2>1. PICK s : s = SubSeq(logs[n], 1, synced[n])
    OBVIOUS
  <2>2. f \in ReadLog(s)
    BY <2>1, <1>8
  <2>3. PICK i \in DOMAIN s : s[i] # Torn /\ f \in s[i]
    BY <2>2, ReadLogMember
  <2>4. i \in DOMAIN logs[n] /\ logs[n][i] # Torn /\ f \in logs[n][i]
    BY <2>1, <2>3, <1>9
  <2> QED BY <2>4, ReadLogMember
<1>12. /\ T \subseteq S /\ S \subseteq T \cup L /\ T \subseteq R /\ R \subseteq T \cup L
  <2>1. \A n \in K : ReadLog(logs[n]) \subseteq L
    BY <1>2 DEF LogEnts
  <2> QED BY <2>1, <1>8, <1>10, <1>11
<1>13. S \in SUBSET Entry /\ R \in SUBSET Entry
  BY <1>5, <1>12
<1>14. \A X \in SUBSET Entry : e \in X => Stands(e, X)
  <2>1. e.seq >= e.seq
    BY <1>5, EntryFields
  <2> QED BY <2>1 DEF Stands
<1>15. Stands(e, S)
  <2>1. CASE \E n \in K : \E i \in DOMAIN logs[n] : logs[n][i] = g.entries
    <3>1. PICK n \in K : \E i \in DOMAIN logs[n] : logs[n][i] = g.entries
      BY <2>1
    <3>2. e \in ReadLog(logs[n])
      BY <3>1, <1>6, ReadLogMember
    <3>3. e \in S
      BY <3>2, <1>8, <1>10
    <3> QED BY <3>3, <1>13, <1>14
  <2>2. CASE \A d \in g.entries : Old(T, L, seq, groups, d)
    BY <2>2, <1>5, <1>12, <1>13, OldStands
  <2> QED BY <2>1, <2>2, <1>4 DEF Disk, GroupsSafe
<1>16. ASSUME g.sync PROVE Stands(e, R)
  <2>1. CASE \E n \in K : \E i \in 1 .. synced[n] : logs[n][i] = g.entries
    <3>1. PICK n \in K : \E i \in 1 .. synced[n] : logs[n][i] = g.entries
      BY <2>1
    <3>2. PICK i \in 1 .. synced[n] : logs[n][i] = g.entries
      BY <3>1
    <3>3. PICK s : s = SubSeq(logs[n], 1, synced[n])
      OBVIOUS
    <3>4. i \in DOMAIN s /\ s[i] # Torn /\ e \in s[i]
      BY <3>2, <3>3, <1>6, <1>9
    <3>5. e \in ReadLog(s)
      BY <3>4, ReadLogMember
    <3>6. e \in R
      BY <3>3, <3>5, <1>8, <1>10
    <3> QED BY <3>6, <1>13, <1>14
  <2>2. CASE \A d \in g.entries : Old(T, L, seq, groups, d)
    BY <2>2, <1>5, <1>12, <1>13, OldStands
  <2> QED BY <2>1, <2>2, <1>4, <1>16 DEF Disk, SyncedSafe
<1> QED BY <1>7, <1>15, <1>16

LEMMA InvRestartSame ==
  ASSUME Inv
  PROVE  RestartSame
<1> SUFFICES ASSUME phase = "open", ~bgError, \A n \in DOMAIN logs : Torn \notin Range(logs[n])
             PROVE  View(lastSeq) = {e \in {Newest(OnDisk(AllRecords), k, lastSeq) : k \in Keys} : ~e.del}
  BY DEF RestartSame
<1>1. /\ Types /\ Semantic /\ Ready /\ CURRENT # 0 /\ lastSeq \in Nat /\ logNo \in DOMAIN logs
      /\ Numbers /\ Layered /\ LogsMatch /\ Leaders /\ OpenVersion
  <2>1. /\ Types /\ Semantic /\ Ready /\ CURRENT # 0 /\ lastSeq \in Nat /\ logNo \in DOMAIN logs
    BY OpenFacts
  <2> QED BY <2>1 DEF Semantic
<1>2. PICK m, K, S : m = manifests[CURRENT] /\ K = KeptLogs(m, logs) /\ S = OnDisk(AllRecords)
  OBVIOUS
<1>3. View(lastSeq) = Vis(All, lastSeq)
  BY <1>1, ViewAll
<1>4. Ver(m) = DOMAIN files /\ Ents(tables, Ver(m)) = Tab
  BY <1>1, <1>2 DEF OpenVersion, Tab
<1>5. S = Tab \cup LogEnts(K, logs)
  <2>1. S = Ents(tables, Ver(m)) \cup UNION {AllRecords[n] : n \in K}
    BY <1>1, <1>2, OnDiskIs
  <2>2. \A n \in K : AllRecords[n] = ReadLog(logs[n])
    BY <1>2 DEF KeptLogs, AllRecords
  <2>3. UNION {AllRecords[n] : n \in K} = LogEnts(K, logs)
    BY <2>2 DEF LogEnts
  <2> QED BY <2>1, <2>3, <1>4
<1>6. LogEnts(K, logs) = Log \cup Imm
  <2>1. /\ logNo \in K /\ LogEnts(K, logs) \subseteq Log \cup Imm
    BY <1>2, KeptLogsOpen
  <2>2. Log \subseteq LogEnts(K, logs)
    BY <2>1, LogEntsMember DEF Log
  <2>3. Imm \subseteq LogEnts(K, logs)
    <3>1. CASE immNo = 0
      BY <3>1 DEF Imm
    <3>2. CASE immNo # 0
      <4>1. immNo \in DOMAIN logs /\ logNumber <= immNo
        BY <3>2, <1>1 DEF Numbers
      <4>2. Last(m).log = logNumber
        BY <1>1, <1>2 DEF OpenVersion
      <4>3. logNumber \in Nat /\ immNo \in Nat
        BY <1>1 DEF Types, NumberTypes
      <4>4. immNo \in K
        BY <4>1, <4>2, <4>3, <1>2 DEF KeptLogs
      <4>5. Imm \subseteq ReadLog(logs[immNo])
        BY <3>2, <4>1, <1>1 DEF LogsMatch
      <4> QED BY <4>4, <4>5, LogEntsMember
    <3> QED BY <3>1, <3>2
  <2> QED BY <2>1, <2>2, <2>3
<1>7. mems[logNo] \subseteq Log
  BY <1>1 DEF LogsMatch
<1>8. \A e \in Log : e \in mems[logNo] \/ ~(e.seq <= lastSeq)
  <2> TAKE e \in Log
  <2>1. e \in mems[logNo] \/ e \in InFlight({"insert", "syncError"})
    BY <1>1 DEF LogsMatch
  <2>2. ASSUME e \in InFlight({"insert", "syncError"}) PROVE ~(e.seq <= lastSeq)
    <3>1. PICK c \in Clients : call[c].pc \in {"insert", "syncError"} /\ e \in call[c].group
      BY <2>2 DEF InFlight
    <3>2. lastSeq < e.seq
      BY <3>1, <1>1 DEF Leaders, Leading
    <3>3. e \in Entry
      <4>1. logs[logNo] \in Seq(Record)
        BY <1>1 DEF Types, LogTypes
      <4> QED BY <4>1, ReadLogType DEF Log
    <3>4. e.seq \in Nat
      BY <3>3, EntryFields
    <3> QED BY <3>2, <3>4, <1>1
  <2> QED BY <2>1, <2>2
<1>9. \A k \in Keys : Newest(S, k, lastSeq) = Newest(All, k, lastSeq)
  <2> TAKE k \in Keys
  <2>1. Seen(S, k, lastSeq) = Seen(All, k, lastSeq)
    BY <1>5, <1>6, <1>7, <1>8 DEF Seen, All
  <2> QED BY <2>1, NewestSame
<1>10. Vis(All, lastSeq) = {e \in {Newest(S, k, lastSeq) : k \in Keys} : ~e.del}
  BY <1>9 DEF Vis
<1> QED BY <1>2, <1>3, <1>10

-----------------------------------------------------------------------------
(* Theorems *)

\* The invariant holds in every state that DBImpl reaches: the files on disk
\* and the state in memory fit together in every phase of Open, of a write, of
\* a flush, of a compaction and of a removal of files, through every crash and
\* failing file operation.
THEOREM DBInvariant == Spec => []Inv
<1>1. Init => Inv
  BY InitKeeps
<1>2. Inv /\ [Next]_vars => Inv'
  BY NextKeeps
<1> QED BY <1>1, <1>2, PTL DEF Spec

\* A restart always finds its MANIFEST and every table it names.
THEOREM AlwaysReopens == Spec => []Reopens
<1>1. Inv => Reopens
  BY InvReopens
<1> QED BY <1>1, DBInvariant, PTL

\* A write that returned OK is found by a restart after any sequence of
\* switches, flushes, compactions, removals, failures and crashes; one that was
\* synced even if the machine fails.
THEOREM AckedStaysOnDisk == Spec => []AckedOnDisk
<1>1. Inv => AckedOnDisk
  BY InvAckedOnDisk
<1> QED BY <1>1, DBInvariant, PTL

\* A Get or an iterator shows what the database held when it took its
\* references, and a snapshot what it held when it was taken.
THEOREM ReadersSeeOneState == Spec => []ReadsSnapshot
<1>1. Inv => ReadsSnapshot
  BY DEF Inv
<1> QED BY <1>1, DBInvariant, PTL

\* What Get shows is what it would show after a restart.
THEOREM RestartShowsTheSame == Spec => []RestartSame
<1>1. Inv => RestartSame
  BY InvRestartSame
<1> QED BY <1>1, DBInvariant, PTL

=============================================================================
