------------------------------ MODULE TrafficTile ------------------------------
(***************************************************************************)
(* The binary layout of live traffic (shared/traffic_tile.py): GraphIds,   *)
(* the 64-bit speed record and where in traffic.tar a record is written    *)
(* (write_edge of traffic_writer.py).  Bit fields are sequences of bits,   *)
(* least significant first, so that no integer exceeds TLC's.              *)
(***************************************************************************)
EXTENDS Integers, Sequences, SequencesExt

CONSTANTS LevelBits, TileIdBits, IndexBits   \* 3, 22 and 25 in the code

ASSUME TrafficTileAssumption == {LevelBits, TileIdBits, IndexBits} \subseteq Nat \ {0}

\* The low bits of n, as `n & mask` leaves them.
Bits(n, width) == [i \in 1 .. width |-> (n \div 2^(i - 1)) % 2]
Value(bits) == FoldLeft(LAMBDA acc, i : acc + bits[i] * 2^(i - 1), 0, [i \in DOMAIN bits |-> i])
Field(bits, from, width) == SubSeq(bits, from + 1, from + width)

----------------------------------------------------------------------------
(* GraphId.                                                                *)

EncodeGraphId(level, tile, edge) ==
    Value(Bits(level, LevelBits) \o Bits(tile, TileIdBits) \o Bits(edge, IndexBits))

DecodeGraphId(gid) ==
    [level |-> gid % 2^LevelBits,
     tile  |-> (gid \div 2^LevelBits) % 2^TileIdBits,
     edge  |-> (gid \div 2^(LevelBits + TileIdBits)) % 2^IndexBits]

TileBaseId(gid) == gid % 2^(LevelBits + TileIdBits)

----------------------------------------------------------------------------
(* TrafficSpeed.                                                           *)

SpeedFields == <<"overall", "speed1", "speed2", "speed3", "breakpoint1", "breakpoint2",
                 "congestion1", "congestion2", "congestion3", "incidents", "spare">>
FieldBits   == <<7, 7, 7, 7, 8, 8, 6, 6, 6, 1, 1>>

UnknownRaw == 127
MaxRaw     == 126

Given(fields, name) == IF name \in DOMAIN fields THEN fields[name] ELSE 0

AssembleSpeed(fields) ==
    FlattenSeq([i \in DOMAIN SpeedFields |-> Bits(Given(fields, SpeedFields[i]), FieldBits[i])])

Shift(i) == FoldLeft(LAMBDA acc, w : acc + w, 0, SubSeq(FieldBits, 1, i - 1))

UnpackSpeed(word) ==
    [name \in Range(SpeedFields) |->
        LET i == CHOOSE j \in DOMAIN SpeedFields : SpeedFields[j] = name
        IN Value(Field(word, Shift(i), FieldBits[i]))]

\* Mutant of EncodeSpeedRaw: clamped to the 7 bits there are.
EncodeSpeedTo127(kph4) ==
    LET r == kph4 % 8 IN
    LET raw == IF r < 4 \/ (r = 4 /\ (kph4 \div 8) % 2 = 0) THEN kph4 \div 8 ELSE kph4 \div 8 + 1
    IN IF raw < 0 THEN 0 ELSE IF raw > 127 THEN 127 ELSE raw

\* Half the speed, rounded half to even, clamped below the sentinel.  The
\* speed is given in quarters of a kph.
EncodeSpeedRaw(kph4) ==
    LET r == kph4 % 8 IN
    LET raw == IF r < 4 \/ (r = 4 /\ (kph4 \div 8) % 2 = 0) THEN kph4 \div 8 ELSE kph4 \div 8 + 1
    IN IF raw < 0 THEN 0 ELSE IF raw > MaxRaw THEN MaxRaw ELSE raw

\* One subsegment covers the whole edge; no speed is the UNKNOWN record.
PackSpeed(kph4, congestion) ==
    IF kph4 = {}
      THEN AssembleSpeed([overall |-> UnknownRaw, speed1 |-> UnknownRaw])
      ELSE LET raw  == EncodeSpeedRaw(CHOOSE k \in kph4 : TRUE)
               cong == IF congestion < 0 THEN 0 ELSE IF congestion > 63 THEN 63 ELSE congestion
           IN AssembleSpeed([overall |-> raw, speed1 |-> raw, breakpoint1 |-> 255,
                             congestion1 |-> cong])

OverallSpeedKph(word) ==
    LET raw == Value(Field(word, 0, 7)) IN IF raw = UnknownRaw THEN {} ELSE {2 * raw}

----------------------------------------------------------------------------
(* traffic.tar.  A member is [file, size, tile, edges]: the tile id and    *)
(* the edge count are what its header says.                                *)

HeaderSize == 32
RecordSize == 8
Block      == 512   \* tar: a member is a header block and padded data

Blocks(size) == ((size + Block - 1) \div Block) * Block
DataOffset(tar, i) ==
    FoldLeft(LAMBDA acc, m : acc + Block + Blocks(m.size), Block, SubSeq(tar, 1, i - 1))

\* `build_tar_index`: by the tile id of the header; of two, the last.
TarIndex(tar) ==
    LET tiles == {i \in DOMAIN tar : tar[i].file /\ tar[i].size >= HeaderSize} IN
    [t \in {tar[i].tile : i \in tiles} |->
        LET last == CHOOSE i \in tiles : tar[i].tile = t /\ \A j \in tiles :
                                            tar[j].tile = t => j <= i
        IN [off |-> DataOffset(tar, last), edges |-> tar[last].edges]]

EdgeRecordOffset(off, edge) == off + HeaderSize + edge * RecordSize

\* Mutant of WriteEdge: one edge too many.
WriteEdgePast(tar, gid) ==
    LET index == TarIndex(tar)
        edge  == DecodeGraphId(gid).edge
    IN IF TileBaseId(gid) \notin DOMAIN index \/ edge > index[TileBaseId(gid)].edges THEN {}
       ELSE {EdgeRecordOffset(index[TileBaseId(gid)].off, edge)}

\* `write_edge`: where the record goes, if anywhere; the header's last_update
\* is written with it.
WriteEdge(tar, gid) ==
    LET index == TarIndex(tar)
        edge  == DecodeGraphId(gid).edge
    IN IF TileBaseId(gid) \notin DOMAIN index \/ edge >= index[TileBaseId(gid)].edges THEN {}
       ELSE {EdgeRecordOffset(index[TileBaseId(gid)].off, edge)}
===============================================================================
