----------------------------- MODULE RangeCodec -----------------------------
(***************************************************************************)
(* The bytes that the index keeps (ztreamer-chain: codec; ztreamer-index:  *)
(* tables, checked_range, metadata): the record of a block, a sealed       *)
(* range, and the state row.                                               *)
(*                                                                         *)
(* Bytes are a sequence of words.  A word stands for one field of fixed    *)
(* width (a version, a height, a hash, an offset, a length, a flag), or    *)
(* for one field of the protobuf block.  Positions and lengths count       *)
(* words.  The rows of a range are stored, then sealed into the range, and *)
(* the range is read or goes to a replica.  Before and after the seal some *)
(* words may become different.                                             *)
(***************************************************************************)
EXTENDS Integers, Sequences, SequencesExt

CONSTANTS
    RANGE_SIZE,     \* blocks in a range
    MAX_RECORD_BYTES,
    Words,          \* the values of a damaged word
    Start,          \* the first height of the range
    States,         \* the states of the index that are stored
    MaxDamage       \* bound: changes to the stored words

CodecBounds == RANGE_SIZE \in Nat \ {0} /\ MaxDamage \in Nat

VARIABLES
    rows,       \* the mutable_blocks rows of the range, or Error
    state,      \* the state to store, or Error
    bytes,      \* the range, or the state row
    damage,     \* the number of changes
    fresh       \* no word changed since the seal

vars == <<rows, state, bytes, damage, fresh>>

Error == <<>>
FORMAT == 1     \* BLOCK_FORMAT_VERSION, RANGE_FORMAT_VERSION

-----------------------------------------------------------------------------
(* A record: version, height, hash, previous hash, length, payload. The     *)
(* payload is the protobuf block: the three ids again, the tree sizes (one  *)
(* pool here), and the other fields.  A protobuf decode skips a field that  *)
(* it does not know, so one block has many payloads.                        *)

TX == 3         \* a transaction with shielded data
NO_DATA == 7    \* a transaction without
UNKNOWN == 8    \* a field that the decode skips

Payload(r) == <<r.height, r.hash, r.previous_hash, r.size>> \o r.transactions
EncodeRecord(r) ==
    <<FORMAT, r.height, r.hash, r.previous_hash, Len(Payload(r))>> \o Payload(r)

\* protobuf_envelope: the length is that of all the words after it.
IsEnvelope(b) == Len(b) \in 5..MAX_RECORD_BYTES /\ b[1] = FORMAT /\ 5 + b[5] = Len(b)

\* EncodedBlockRecord::decode: the ids of the envelope, and a payload that is not parsed.
DecodeEncoded(b) ==
    IF IsEnvelope(b)
    THEN [height |-> b[2], hash |-> b[3], previous_hash |-> b[4],
          block |-> SubSeq(b, 6, Len(b))]
    ELSE Error

\* CompactBlockRecord::decode: the payload parses, and has the ids of the envelope.
FromProto(p) ==
    IF Len(p) >= 4
    THEN [height |-> p[1], hash |-> p[2], previous_hash |-> p[3], size |-> p[4],
          transactions |-> SelectSeq(SubSeq(p, 5, Len(p)), LAMBDA w : w # UNKNOWN)]
    ELSE Error
SameIds(e, r) ==
    r.height = e.height /\ r.hash = e.hash /\ r.previous_hash = e.previous_hash
DecodeRecord(b) ==
    LET e == DecodeEncoded(b)
        r == IF e = Error THEN Error ELSE FromProto(e.block) IN
    IF r # Error /\ SameIds(e, r) THEN r ELSE Error

\* CompactBlockRecord::check: each transaction has shielded data.
HasData(r) == \A i \in DOMAIN r.transactions : r.transactions[i] # NO_DATA

-----------------------------------------------------------------------------
(* A range: version, first and last height, previous hash of the first      *)
(* block, hash of the last one; RANGE_SIZE + 1 offsets; for each record its *)
(* length and its words.                                                    *)

RANGE_ENVELOPE == 5
OffsetsEnd == RANGE_ENVELOPE + RANGE_SIZE + 1

\* write_range refuses records that are not one aligned range with its links.
IsRange(ids) ==
    /\ Len(ids) = RANGE_SIZE
    /\ \A i \in 1..Len(ids) : ids[i] # Error
    /\ ids[1].height % RANGE_SIZE = 0
    /\ \A i \in 2..Len(ids) : /\ ids[i].height = ids[i - 1].height + 1
                              /\ ids[i].previous_hash = ids[i - 1].hash
Body(parts) == FlattenSeq([i \in DOMAIN parts |-> <<Len(parts[i])>> \o parts[i]])
\* The offset of record i + 1: where the records before it end, with their length words.
OffsetOf(parts, i) == Len(Body(SubSeq(parts, 1, i)))
WriteRange(parts) ==
    LET ids == [i \in DOMAIN parts |-> DecodeEncoded(parts[i])] IN
    IF IsRange(ids)
    THEN <<FORMAT, ids[1].height, Last(ids).height, ids[1].previous_hash, Last(ids).hash>>
         \o [i \in 1..(RANGE_SIZE + 1) |-> OffsetOf(parts, i - 1)]
         \o Body(parts)
    ELSE Error

\* RangeDecoder::new.
Offset(b, i) == b[RANGE_ENVELOPE + 1 + i]
BodyOf(b) == SubSeq(b, OffsetsEnd + 1, Len(b))
\* (OffsetsInside: a mutant that looks only whether each offset is in the body.)
OffsetsInside(b) == \A i \in 0..RANGE_SIZE : Offset(b, i) <= Len(BodyOf(b))
OffsetsAreInOrder(b) ==
    /\ Offset(b, 0) = 0 /\ Offset(b, RANGE_SIZE) = Len(BodyOf(b))
    /\ \A i \in 1..RANGE_SIZE : Offset(b, i - 1) <= Offset(b, i)
Opens(b) ==
    /\ Len(b) >= OffsetsEnd /\ b[1] = FORMAT
    /\ b[2] % RANGE_SIZE = 0 /\ b[3] = b[2] + RANGE_SIZE - 1
    /\ OffsetsAreInOrder(b)

\* record_as: the words between two offsets are a length and as many words. The record `r` that
\* they decode to has the height of its place, and the ends of the range have the hashes of the
\* range envelope.
Slice(b, i) ==
    LET part == SubSeq(BodyOf(b), Offset(b, i) + 1, Offset(b, i + 1)) IN
    IF part # <<>> /\ part[1] = Len(part) - 1 THEN Tail(part) ELSE Error
RecordAs(b, i, r) ==
    IF /\ r # Error
       /\ r.height = b[2] + i
       /\ i = 0 => r.previous_hash = b[4]
       /\ i = RANGE_SIZE - 1 => r.hash = b[5]
    THEN r ELSE Error

\* CheckedRange::check: each record decodes and obeys the rules of a record, links to the one
\* below, and its trees do not shrink.
Records(b) == [i \in 1..RANGE_SIZE |-> RecordAs(b, i - 1, DecodeRecord(Slice(b, i - 1)))]
ChainOf(rs) ==
    /\ \A i \in 1..Len(rs) : rs[i] # Error /\ HasData(rs[i])
    /\ \A i \in 2..Len(rs) : /\ rs[i].previous_hash = rs[i - 1].hash
                             /\ rs[i].size >= rs[i - 1].size
Checked(b) == Opens(b) /\ ChainOf(Records(b))

\* read_checked: the rows go into a range as they are, after a decode and the rules of a record.
RowIsRecord(row) == DecodeRecord(row) # Error /\ HasData(DecodeRecord(row))

-----------------------------------------------------------------------------
(* The state row: encode_state and decode_state. *)

NoHeight == -1
Flag(x) == IF x = NoHeight THEN 0 ELSE 1
Value(x) == IF x = NoHeight THEN 0 ELSE x
EncodeState(s) ==
    <<IF s.verified = NoHeight THEN 1 ELSE 2, s.tip, s.hash, Flag(s.sealed), Value(s.sealed),
      s.generation, s.size>>
    \o (IF s.verified = NoHeight THEN <<>> ELSE <<1, s.verified>>)

RowLen(version) == CASE version = 1 -> 7 [] version = 2 -> 9 [] OTHER -> 0
RangeEndAt(h) == h % RANGE_SIZE = RANGE_SIZE - 1
DecodeState(row) ==
    LET sealed == IF row[4] = 1 THEN row[5] ELSE NoHeight
        verified == IF Len(row) < 9 \/ row[8] = 0 THEN NoHeight ELSE row[9] IN
    IF /\ Len(row) >= 7 /\ Len(row) = RowLen(row[1]) /\ row[4] <= 1
       /\ sealed # NoHeight => sealed <= row[2] /\ RangeEndAt(sealed)
       /\ Len(row) = 9 => row[8] <= 1
       /\ verified # NoHeight => verified <= sealed /\ RangeEndAt(verified)
    THEN [tip |-> row[2], hash |-> row[3], sealed |-> sealed, verified |-> verified,
          generation |-> row[6], size |-> row[7]]
    ELSE Error
\* The decoder of a build from before version 2 reads rows of version 1 only.
DecodeStateV1(row) == IF row[1] = 1 THEN DecodeState(row) ELSE Error

-----------------------------------------------------------------------------

\* The rows of one range of a chain. A block has at most one transaction.
Inputs ==
    {[i \in 1..RANGE_SIZE |->
        EncodeRecord([height |-> Start + i - 1, hash |-> 4 + i, previous_hash |-> 3 + i,
                      size |-> size[i], transactions |-> txs[i]])] :
        size \in {s \in [1..RANGE_SIZE -> {1, 2}] : \A i \in 2..RANGE_SIZE : s[i] >= s[i - 1]},
        txs \in [1..RANGE_SIZE -> {<<>>, <<TX>>}]}
Init ==
    /\ \/ rows \in Inputs /\ state = Error
       \/ rows = Error /\ state \in States
    /\ bytes = Error /\ damage = 0 /\ fresh = TRUE

\* seal_ranges packs the rows of a complete range.
Seal ==
    /\ bytes = Error /\ rows # Error
    /\ \A i \in DOMAIN rows : RowIsRecord(rows[i])
    /\ bytes' = WriteRange(rows)
    /\ UNCHANGED <<rows, state, damage, fresh>>

PutState ==
    /\ bytes = Error /\ state # Error
    /\ bytes' = EncodeState(state)
    /\ UNCHANGED <<rows, state, damage, fresh>>

Damaged(b) ==
    {[b EXCEPT ![i] = w] : i \in DOMAIN b, w \in Words}
    \cup {SubSeq(b, 1, Len(b) - 1)} \cup {Append(b, w) : w \in Words}
Damage ==
    /\ rows # Error /\ damage < MaxDamage /\ damage' = damage + 1
    /\ \/ /\ bytes = Error
          /\ \E i \in DOMAIN rows : \E b \in Damaged(rows[i]) : rows' = [rows EXCEPT ![i] = b]
          /\ UNCHANGED <<bytes, fresh>>
       \/ /\ bytes # Error
          /\ \E b \in Damaged(bytes) : bytes' = b
          /\ fresh' = FALSE
          /\ UNCHANGED rows
    /\ UNCHANGED state

Next == Seal \/ PutState \/ Damage
Spec == Init /\ [][Next]_vars

-----------------------------------------------------------------------------
(* Properties *)

IsSealed == bytes # Error /\ rows # Error

\* Each row that went into a range reads back by its position, in both forms: a damaged row does
\* not go into a range (read_checked), and the range opens.
SealedRangeReadsBack ==
    IsSealed /\ fresh =>
       /\ Opens(bytes)
       /\ \A i \in 1..RANGE_SIZE :
             /\ Records(bytes)[i] # Error
             /\ Records(bytes)[i] = DecodeRecord(rows[i])
             /\ RecordAs(bytes, i - 1, DecodeEncoded(Slice(bytes, i - 1))) = DecodeEncoded(rows[i])

\* A range that passes the check is, word for word, what write_range makes of its record bytes:
\* no word of the blob is outside a record, no two records share a word, and the envelope and
\* the offsets can have no other value.
CheckedRangeIsCanonical ==
    IsSealed /\ Checked(bytes) => WriteRange([i \in 1..RANGE_SIZE |-> Slice(bytes, i - 1)]) = bytes

\* In a range that passed the check, the reader that does not parse the payload serves a block
\* with the ids that it compares, and the block is the one of the full decode.
ServedBlockIsTheCheckedBlock ==
    IsSealed /\ Checked(bytes) =>
       \A i \in 1..RANGE_SIZE :
          LET e == RecordAs(bytes, i - 1, DecodeEncoded(Slice(bytes, i - 1))) IN
          /\ e # Error
          /\ FromProto(e.block) = Records(bytes)[i]
          /\ SubSeq(e.block, 1, 3) = <<e.height, e.hash, e.previous_hash>>

\* Each state reads back from its row, and a state without a verified prefix also in a build
\* from before version 2 (metadata.rs, module docs).
StateRowReadsBack ==
    state # Error /\ bytes # Error =>
       /\ DecodeState(bytes) = state
       /\ state.verified = NoHeight => DecodeStateV1(bytes) = state

\* The stored bytes of a range and of the state row: what is written reads back, what passes the
\* check has the one canonical form, and the block that is served is the block that was checked.
RangeIsCanonical ==
    /\ SealedRangeReadsBack /\ CheckedRangeIsCanonical
    /\ ServedBlockIsTheCheckedBlock /\ StateRowReadsBack
=============================================================================
