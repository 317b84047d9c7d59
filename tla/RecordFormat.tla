---------------------------- MODULE RecordFormat ----------------------------
(***************************************************************************)
(* What the log's records hold: WriteBatch in the write-ahead log and      *)
(* VersionEdit in the MANIFEST (src/database/leveldb/db/write_batch.cc,    *)
(* version_edit.cc), written with the varints and length-prefixed strings  *)
(* of util/coding.cc, decoded again from bytes that may end anywhere.      *)
(*                                                                         *)
(* A byte holds GroupBits bits of a varint and the mark that more follow   *)
(* (seven and 128 in the code); numbers have NumberBits bits (32).         *)
(***************************************************************************)
EXTENDS Integers, Sequences, FiniteSetsExt

CONSTANTS GroupBits, NumberBits,
          KLevels,       \* config::kNumLevels
          Batches,       \* operations and fields that are encoded:
          Edits          \* sets of sequences of [tag, args]

VARIABLES kind,      \* "batch", "edit"
          source,    \* what was encoded
          bytes,     \* what is left of it
          at,        \* how much is decoded: length of the prefix removed
          got,       \* what the handler, or the edit, has received
          verdict    \* "going on", "ok", "corrupt"
recordVars == <<kind, source, bytes, at, got, verdict>>

Group == 2 ^ GroupBits
More == Group                \* the mark, added to a group
MaxGroups == (NumberBits + GroupBits - 1) \div GroupBits

-----------------------------------------------------------------------------
(* util/coding.cc *)

VarintLength(v) == Min({n \in 1 .. MaxGroups : v < Group ^ n})
EncodeVarint(v) ==
    [i \in 1 .. VarintLength(v) |->
        ((v \div Group ^ (i - 1)) % Group) + (IF i < VarintLength(v) THEN More ELSE 0)]

\* Mutant: one group too few.
GetVarintShort(p) ==
    LET ends == {n \in 1 .. MaxGroups - 1 : /\ p + n <= Len(bytes)
                                            /\ bytes[p + n] < More
                                            /\ \A i \in 1 .. n - 1 : bytes[p + i] >= More}
        n == Min(ends)
        sum[i \in 0 .. MaxGroups] ==
            IF i = 0 THEN 0 ELSE sum[i - 1] + (bytes[p + i] % Group) * Group ^ (i - 1)
    IN  IF ends = {} THEN [ok |-> FALSE, value |-> 0, to |-> p]
        ELSE [ok |-> TRUE, value |-> sum[n] % 2 ^ NumberBits, to |-> p + n]

\* GetVarint32PtrFallback: the value and where it ends, 0 if it does not end
\* within the input or the number of groups a number has.
GetVarint(p) ==
    LET ends == {n \in 1 .. MaxGroups : /\ p + n <= Len(bytes)
                                        /\ bytes[p + n] < More
                                        /\ \A i \in 1 .. n - 1 : bytes[p + i] >= More}
        n == Min(ends)
        sum[i \in 0 .. MaxGroups] ==
            IF i = 0 THEN 0 ELSE sum[i - 1] + (bytes[p + i] % Group) * Group ^ (i - 1)
    IN  IF ends = {} THEN [ok |-> FALSE, value |-> 0, to |-> p]
        ELSE [ok |-> TRUE, value |-> sum[n] % 2 ^ NumberBits, to |-> p + n]

EncodeSlice(s) == EncodeVarint(Len(s)) \o s
GetSlice(p) ==
    LET len == GetVarint(p)
    IN  IF ~len.ok \/ len.to + len.value > Len(bytes) THEN [ok |-> FALSE, value |-> <<>>, to |-> p]
        ELSE [ok |-> TRUE, value |-> SubSeq(bytes, len.to + 1, len.to + len.value),
              to |-> len.to + len.value]

\* GetInternalKey, InternalKey::DecodeFrom: an internal key is not empty
GetInternalKey(p) == LET s == GetSlice(p) IN [s EXCEPT !.ok = s.ok /\ s.value # <<>>]

\* GetLevel
GetLevel(p) == LET v == GetVarint(p) IN [v EXCEPT !.ok = v.ok /\ v.value < KLevels]

-----------------------------------------------------------------------------
(* Fields: VersionEdit's tags and WriteBatch's operations *)

Signature ==
    [edit |-> [t \in {1, 2, 3, 4, 5, 6, 7, 9} |->
                CASE t = 1 -> <<"slice">>                          \* kComparator
                  [] t \in {2, 3, 4, 9} -> <<"number">>            \* file and sequence numbers
                  [] t = 5 -> <<"level", "key">>                   \* kCompactPointer
                  [] t = 6 -> <<"level", "number">>                \* kDeletedFile
                  [] t = 7 -> <<"level", "number", "number", "key", "key">>],  \* kNewFile
     batch |-> [t \in {0, 1} |-> IF t = 0 THEN <<"slice">> ELSE <<"slice", "slice">>]]

EncodeArg(type, a) == IF type \in {"slice", "key"} THEN EncodeSlice(a) ELSE EncodeVarint(a)
GetArg(type, p) == CASE type = "slice" -> GetSlice(p)
                     [] type = "key" -> GetInternalKey(p)
                     [] type = "level" -> GetLevel(p)
                     [] type = "number" -> GetVarint(p)

\* EncodeTo for a field; Put and Delete for an operation.
EncodeField(k, f) ==
    LET sig == Signature[k][f.tag]
        upto[i \in 0 .. Len(sig)] ==
            IF i = 0 THEN EncodeVarint(f.tag) ELSE upto[i - 1] \o EncodeArg(sig[i], f.args[i])
    IN  upto[Len(sig)]
Encode(k, fields) ==
    LET upto[i \in 0 .. Len(fields)] ==
            IF i = 0 THEN <<>> ELSE upto[i - 1] \o EncodeField(k, fields[i])
    IN  upto[Len(fields)]

\* The arguments of a tag, one after the other.
GetArgs(sig, p) ==
    LET upto[i \in 0 .. Len(sig)] ==
            IF i = 0 THEN [ok |-> TRUE, args |-> <<>>, to |-> p]
            ELSE LET before == upto[i - 1]
                     a == GetArg(sig[i], before.to)
                 IN  IF ~before.ok THEN before
                     ELSE [ok |-> a.ok, args |-> Append(before.args, a.value), to |-> a.to]
    IN  upto[Len(sig)]

-----------------------------------------------------------------------------
(* VersionEdit::DecodeFrom and WriteBatch::Iterate, a field at a time *)

\* The tag of an edit is a varint; that of an operation is one byte.
Tag == IF kind = "edit" THEN GetVarint(at)
       ELSE [ok |-> at < Len(bytes), to |-> at + 1,
             value |-> IF at < Len(bytes) THEN bytes[at + 1] ELSE 0]

DecodeField ==
    /\ verdict = "going on" /\ Tag.ok
    /\ LET known == Tag.value \in DOMAIN Signature[kind]
           a == GetArgs(Signature[kind][Tag.value], Tag.to)
       IN  IF known /\ a.ok
           THEN /\ got' = Append(got, [tag |-> Tag.value, args |-> a.args])
                /\ at' = a.to
                /\ UNCHANGED verdict
           ELSE /\ verdict' = "corrupt"
                /\ UNCHANGED <<got, at>>
    /\ UNCHANGED <<kind, source, bytes>>

\* The end: an edit must have used all of the input, a batch must have as
\* many operations as its header counts.
EndDecode ==
    /\ verdict = "going on" /\ ~Tag.ok
    /\ verdict' = IF kind = "edit" THEN (IF at = Len(bytes) THEN "ok" ELSE "corrupt")
                  ELSE (IF Len(got) = Len(source) THEN "ok" ELSE "corrupt")
    /\ UNCHANGED <<kind, source, bytes, at, got>>

RecordInit ==
    /\ kind \in {"batch", "edit"}
    /\ source \in IF kind = "batch" THEN Batches ELSE Edits
    /\ LET all == Encode(kind, source) IN \E n \in 0 .. Len(all) : bytes = SubSeq(all, 1, n)
    /\ at = 0 /\ got = <<>> /\ verdict = "going on"
RecordNext == DecodeField \/ EndDecode
RecordSpec == RecordInit /\ [][RecordNext]_recordVars

KeysValid(fields) ==
    \A i \in DOMAIN fields :
        LET sig == Signature[kind][fields[i].tag]
        IN  \A j \in DOMAIN sig : sig[j] = "key" => fields[i].args[j] # <<>>

\* What is decoded is what was encoded, from the front; all of it if all of
\* the bytes are there, unless an internal key was left empty: such a field, and
\* what follows it, is never taken.  A batch that lost its end is found out.
DecodesWhatWasEncoded ==
    /\ Len(got) <= Len(source) /\ got = SubSeq(source, 1, Len(got)) /\ KeysValid(got)
    /\ verdict # "going on" /\ bytes = Encode(kind, source) =>
         (verdict = "ok" <=> KeysValid(source))
    /\ verdict = "ok" /\ (kind = "batch" \/ bytes = Encode(kind, source)) => got = source
=============================================================================
