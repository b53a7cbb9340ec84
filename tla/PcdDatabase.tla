----------------------------- MODULE PcdDatabase -----------------------------
(***************************************************************************)
(* DumpPcdDatabase of PcdDump: the local tokens of a PCD database with     *)
(* their default values, the values other SKUs have, the map of external   *)
(* tokens and the SKU deltas.                                              *)
(*                                                                         *)
(* A database is a record: "byte" holds the bytes of the value area by     *)
(* offset, "head" what the code reads through a STRING_HEAD, VARIABLE_HEAD *)
(* or VPD_HEAD pointer, "block" the PCD_DATABASE_SKU_DELTA headers, all by *)
(* offset from the start.  Offsets, sizes and alignments are in bytes, as  *)
(* in the code.                                                            *)
(***************************************************************************)
EXTENDS PcdLayout, Sequences, FiniteSets

CONSTANTS
  Databases,        \* the databases and what they were built from
  PeiTokenCounts    \* values of mPcdPeiLocalTokenCount

DeltaHeaderSize == 20    \* sizeof(PCD_DATABASE_SKU_DELTA)
NULL == -1

VARIABLES
  db,         \* *PcdDatabaseInit
  isPei,      \* argument IsPei
  peiCount,   \* mPcdPeiLocalTokenCount
  pc,         \* "tokens", "skus", "exmap", "deltas", "done"
  Index,      \* loop counter of the tokens and of the map
  skuIndex,   \* loop counter of DumpAllSkuPcdData
  data,       \* [ptr, size]: DataPtr and DataSize of the current token
  Offset,     \* cursor of the delta walk
  printed     \* what has been printed, as records

vars == <<db, isPei, peiCount, pc, Index, skuIndex, data, Offset, printed>>

-----------------------------------------------------------------------------
(* The blocks of the walk from the end of the database to LengthForAllSkus,*)
(* and the deltas of one block.  Off a block something else is read as a   *)
(* header; an empty one stands for it.                                     *)
FirstBlock(d) == ALIGN_VALUE(d.Length, 8)
BlockAt(d, o) == IF o \in DOMAIN d.block THEN d.block[o] ELSE [sku |-> 0, length |-> DeltaHeaderSize, delta |-> <<>>]
NextBlock(d, o) == ALIGN_VALUE(o + BlockAt(d, o).length, 8)
Blocks(d) ==
  LET From[o \in 0..d.LengthForAllSkus + DeltaHeaderSize + 8] ==
        IF o >= d.LengthForAllSkus THEN <<>> ELSE <<BlockAt(d, o)>> \o From[NextBlock(d, o)]
  IN  IF d.LengthForAllSkus <= d.Length THEN <<>> ELSE From[FirstBlock(d)]
Deltas(b) == SubSeq(b.delta, 1, (b.length - DeltaHeaderSize) \div DeltaSize)
DeltaIn(e, ptr, size) == ptr <= e.offset /\ e.offset < ptr + size

IsSkuPcd(d, ptr, size) ==
  \E i \in 1..Len(Blocks(d)) : \E j \in 1..Len(Deltas(Blocks(d)[i])) :
    DeltaIn(Deltas(Blocks(d)[i])[j], ptr, size)

(* The deltas of one SKU, in the order in which they are applied.          *)
SkuDeltasOfAll(d, sku) ==
  LET bs == Blocks(d)
      C[i \in 0..Len(bs)] == IF i = 0 THEN <<>> ELSE LET prev == C[i - 1] IN prev \o Deltas(bs[i])
  IN  C[Len(bs)]
SkuDeltas(d, sku) ==
  LET bs == Blocks(d)
      C[i \in 0..Len(bs)] ==
        IF i = 0 THEN <<>>
        ELSE LET prev == C[i - 1] IN IF bs[i].sku = sku THEN prev \o Deltas(bs[i]) ELSE prev
  IN  C[Len(bs)]
CopySkuPcdData(d, sku, ptr, size, buffer) ==
  LET es == SkuDeltas(d, sku)
      B[i \in 0..Len(es)] ==
        IF i = 0 THEN buffer
        ELSE LET prev == B[i - 1]
             IN  IF DeltaIn(es[i], ptr, size) THEN [prev EXCEPT ![es[i].offset - ptr + 1] = es[i].value] ELSE prev
  IN  [found |-> \E i \in 1..Len(es) : DeltaIn(es[i], ptr, size), bytes |-> B[Len(es)]]

-----------------------------------------------------------------------------
(* The size table has a pair, maximum and current size, for each token of  *)
(* type POINTER before this one.                                           *)
GetSizeTableIndex(d, i) == 2 * Cardinality({j \in 0..i - 1 : d.token[j + 1].datum = "POINTER"})
GetPtrTypeSize(d, i) ==
  IF d.token[i + 1].type = "VPD" THEN d.sizeTable[GetSizeTableIndex(d, i) + 1]
  ELSE d.sizeTable[GetSizeTableIndex(d, i) + 2]

(* DumpPcdData: where the value of a token is.                             *)
DataOf(d, t) ==
  CASE t.type = "DATA" -> t.offset
    [] t.type = "STRING" -> d.stringTable + d.head[t.offset].string
    [] t.type = "HII" -> d.head[t.offset].default
    [] t.type = "HII STRING" -> d.stringTable + d.head[d.head[t.offset].default].string
    [] t.type = "VPD" -> d.vpd + d.head[t.offset].vpd
    [] OTHER -> NULL

DatumSize(d, i) ==
  CASE d.token[i + 1].datum = "POINTER" -> GetPtrTypeSize(d, i)
    [] d.token[i + 1].datum = "UINT8" -> 1
    [] d.token[i + 1].datum = "UINT16" -> 2
    [] d.token[i + 1].datum = "UINT32" -> 4
    [] d.token[i + 1].datum = "UINT64" -> 8
    [] OTHER -> 0

BytesAt(d, ptr, size) == [j \in 1..size |-> d.byte[ptr + j - 1]]

(* DumpPcdRawData: a value behind the initialized part has no bytes, and   *)
(* no pointer is returned for it.                                          *)
DumpPcdRawData(d, i) ==
  LET ptr == DataOf(d, d.token[i + 1])
  IN  IF ptr = NULL \/ ptr < 0 \/ ptr >= d.Length
        THEN [ptr |-> NULL, size |-> 0]
        ELSE [ptr |-> ptr, size |-> DatumSize(d, i)]

TokenNumber(i) == IF isPei THEN i + 1 ELSE i + 1 + peiCount

-----------------------------------------------------------------------------
Init ==
  /\ db \in Databases
  /\ isPei \in BOOLEAN
  /\ peiCount \in PeiTokenCounts
  /\ pc = IF db.signature THEN "tokens" ELSE "done"
  /\ Index = 0 /\ skuIndex = 1 /\ data = [ptr |-> NULL, size |-> 0] /\ Offset = 0
  /\ printed = <<>>

(* One token with its default value.                                       *)
DumpToken ==
  /\ pc = "tokens" /\ Index < Len(db.token)
  /\ LET raw == DumpPcdRawData(db, Index)
     IN  /\ data' = raw
         /\ printed' = Append(printed,
              [what |-> "token", number |-> TokenNumber(Index), sku |-> 0,
               bytes |-> IF raw.ptr = NULL THEN <<>> ELSE BytesAt(db, raw.ptr, raw.size)])
         /\ IF IsSkuPcd(db, raw.ptr, raw.size)
              THEN pc' = "skus" /\ skuIndex' = 1 /\ UNCHANGED Index
              ELSE Index' = Index + 1 /\ UNCHANGED <<pc, skuIndex>>
  /\ UNCHANGED <<db, isPei, peiCount, Offset>>

TokensEnd ==
  /\ pc = "tokens" /\ Index >= Len(db.token)
  /\ pc' = "exmap" /\ Index' = 0
  /\ UNCHANGED <<db, isPei, peiCount, skuIndex, data, Offset, printed>>

(* DumpSkuPcdData for one entry of the SKU table: printed when a delta of  *)
(* the SKU touches the value.  The copy of a POINTER value comes from the  *)
(* pool, which may be empty; the others are copied to the stack.           *)
DumpSkuPcdData(allocated) ==
  /\ pc = "skus" /\ skuIndex <= Len(db.skuTable)
  /\ ~allocated => db.token[Index + 1].datum = "POINTER"
  /\ LET sku == db.skuTable[skuIndex]
         copy == CopySkuPcdData(db, sku, data.ptr, data.size, BytesAt(db, data.ptr, data.size))
     IN  printed' = CASE ~allocated -> Append(printed, [what |-> "skipped", number |-> TokenNumber(Index), sku |-> sku, bytes |-> <<>>])
                      [] allocated /\ copy.found -> Append(printed, [what |-> "sku", number |-> TokenNumber(Index), sku |-> sku, bytes |-> copy.bytes])
                      [] OTHER -> printed
  /\ skuIndex' = skuIndex + 1
  /\ UNCHANGED <<db, isPei, peiCount, pc, Index, data, Offset>>

DumpAllSkuPcdDataEnd ==
  /\ pc = "skus" /\ skuIndex > Len(db.skuTable)
  /\ pc' = "tokens" /\ Index' = Index + 1
  /\ UNCHANGED <<db, isPei, peiCount, skuIndex, data, Offset, printed>>

(* The external tokens.  The printed token number is the one of the map.   *)
DumpExMap ==
  /\ pc = "exmap" /\ Index < Len(db.exMap)
  /\ printed' = Append(printed, [what |-> "ex", number |-> db.exMap[Index + 1].token, sku |-> 0, bytes |-> <<db.exMap[Index + 1].ex>>])
  /\ Index' = Index + 1
  /\ UNCHANGED <<db, isPei, peiCount, pc, skuIndex, data, Offset>>

ExMapEnd ==
  /\ pc = "exmap" /\ Index >= Len(db.exMap)
  /\ IF db.LengthForAllSkus > db.Length
       THEN pc' = "deltas" /\ Offset' = FirstBlock(db)
       ELSE pc' = "done" /\ UNCHANGED Offset
  /\ UNCHANGED <<db, isPei, peiCount, Index, skuIndex, data, printed>>

DumpSkuDelta ==
  /\ pc = "deltas" /\ Offset < db.LengthForAllSkus
  /\ printed' = Append(printed, [what |-> "delta", number |-> Offset, sku |-> BlockAt(db, Offset).sku,
                                 bytes |-> [j \in 1..Len(Deltas(BlockAt(db, Offset))) |-> Deltas(BlockAt(db, Offset))[j].value]])
  /\ Offset' = NextBlock(db, Offset)
  /\ UNCHANGED <<db, isPei, peiCount, pc, Index, skuIndex, data>>

SkuDeltaEnd ==
  /\ pc = "deltas" /\ Offset >= db.LengthForAllSkus
  /\ pc' = "done"
  /\ UNCHANGED <<db, isPei, peiCount, Index, skuIndex, data, Offset, printed>>

Next ==
  \/ DumpToken \/ TokensEnd \/ DumpAllSkuPcdDataEnd \/ DumpExMap \/ ExMapEnd \/ DumpSkuDelta \/ SkuDeltaEnd
  \/ \E allocated \in BOOLEAN : DumpSkuPcdData(allocated)

Spec == Init /\ [][Next]_vars

-----------------------------------------------------------------------------
Lines(what) == {i \in 1..Len(printed) : printed[i].what = what}

(* Every token is printed once, in order, with the default value it was    *)
(* built with: offsets through string and variable heads, and the pairs of *)
(* the size table, belong to their token whatever tokens precede it.       *)
DefaultsRight ==
  pc = "done" /\ db.signature =>
    /\ Cardinality(Lines("token")) = Len(db.built)
    /\ \A i \in Lines("token") :
         LET n == Cardinality({j \in Lines("token") : j <= i})
         IN  printed[i].bytes = db.built[n].default

(* Each SKU in which a token's value differs from the default is printed   *)
(* with that SKU's value, and no other: the deltas of the other SKUs, and  *)
(* those of other tokens, leave it alone.                                  *)
SkuValuesRight ==
  pc = "done" /\ db.signature =>
    \A n \in 1..Len(db.built) : \A s \in DOMAIN db.built[n].sku :
      LET number == TokenNumber(n - 1)
          lines == {i \in Lines("sku") : printed[i].number = number /\ printed[i].sku = s}
      IN  \/ \E i \in Lines("skipped") : printed[i].number = number /\ printed[i].sku = s
          \/ IF db.built[n].sku[s] = db.built[n].default
               THEN lines = {}
               ELSE Cardinality(lines) = 1 /\ \A i \in lines : printed[i].bytes = db.built[n].sku[s]

(* The delta walk visits exactly the blocks the database has: their        *)
(* lengths are not multiples of the alignment.                             *)
BlocksExact ==
  pc \in {"deltas", "done"} =>
    {printed[i].number : i \in Lines("delta")} = {o \in DOMAIN db.block : o < Offset /\ Offset > 0}

(* The tokens of the DXE database are numbered behind those of the PEI     *)
(* database, which are 1 to mPcdPeiLocalTokenCount, and without a gap.     *)
NumbersDisjoint ==
  ~isPei => \A i \in Lines("token") :
    printed[i].number = peiCount + Cardinality({j \in Lines("token") : j <= i})

(* The dump of a database shows the tokens it was built with, their values *)
(* in every SKU and the numbers the PCD drivers know them by.              *)
DatabaseRight == DefaultsRight /\ SkuValuesRight /\ BlocksExact /\ NumbersDisjoint
=============================================================================
