------------------------------ MODULE PcdNvStore ------------------------------
(***************************************************************************)
(* PcdDump -BIN(NvStore): the default variable stores in a VPD file.  A    *)
(* store has the variables of the default SKU, as the variable driver lays *)
(* them out, and behind them one PCD_DEFAULT_DATA block of deltas for each *)
(* other SKU and default id.                                               *)
(*                                                                         *)
(* Offsets are in bytes from the start of the store; "variable" and        *)
(* "block" of a store are what is read through a header pointer at an      *)
(* offset, "byte" the data of the variables.                               *)
(***************************************************************************)
EXTENDS PcdLayout, Sequences, FiniteSets

CONSTANTS Files    \* VPD files: [status, size, store]; store: Index -> store

BufferHeaderSize == 16      \* sizeof(PCD_NV_STORE_DEFAULT_BUFFER_HEADER)
DefaultInfoSize == 16       \* sizeof(PCD_DEFAULT_INFO)
StoreHeaderSize == 28       \* sizeof(VARIABLE_STORE_HEADER)
HeaderSize == [normal |-> 32, authenticated |-> 60]    \* sizeof(VARIABLE_HEADER), sizeof(AUTHENTICATED_VARIABLE_HEADER)

VARIABLES
  file,
  npc,         \* "open", "scan", "variables", "skudata", "deltas", "done", "undefined"
  StoreAt,      \* scan position in the file
  nvOffset,     \* cursor in the store
  inner,      \* Offset of DumpAllSkuData
  held,       \* whether the file buffer is allocated
  nvPrinted

nvVars == <<file, npc, StoreAt, nvOffset, inner, held, nvPrinted>>

Store == file.store[StoreAt]

-----------------------------------------------------------------------------
(* GetVariableStoreHeaderFromNvStore: HeaderSize does not count the        *)
(* DataSize field before it; the alignment makes up for it.                *)
VariableStoreHeader(st) == ALIGN_VALUE(BufferHeaderSize + st.headerSize, 8)
FirstVariable(st) == ALIGN_VALUE(VariableStoreHeader(st) + StoreHeaderSize, 4)
VariableData(st, o) == o + HeaderSize[st.format] + st.variable[o].nameSize
NextVariable(st, o) == ALIGN_VALUE(VariableData(st, o) + st.variable[o].dataSize, 4)

(* The loops compare an offset from the start of the store with a size     *)
(* that starts behind the store's header.                                  *)
MoreVariables(st, o) == o < st.dataSize

(* GetSkuDataFromNvStore: behind the last variable.                        *)
GetSkuData(st) ==
  LET E[o \in 0..st.Length + BufferHeaderSize] == IF MoreVariables(st, o) THEN E[NextVariable(st, o)] ELSE o
  IN  ALIGN_VALUE(E[FirstVariable(st)], 8)

(* A delta block, and where the next one is.  The end of the deltas is     *)
(* DataSize from the start of the block.                                   *)
Block(st, o) == IF o \in DOMAIN st.block THEN st.block[o] ELSE [dataSize |-> 24, headerSize |-> 20, infos |-> <<[sku |-> 0, default |-> 0]>>, delta |-> <<>>]
FirstDelta(st, o) == ALIGN_VALUE(o + 4 + Block(st, o).headerSize, 4)
BlockDeltas(st, o) == SubSeq(Block(st, o).delta, 1, (o + Block(st, o).dataSize - FirstDelta(st, o)) \div DeltaSize)
NextSkuBlock(st, o) == ALIGN_VALUE(FirstDelta(st, o) + DeltaSize * Len(BlockDeltas(st, o)), 8)
BlockOffsets(st) ==
  LET W[o \in 0..st.Length + 64] == IF o < st.Length THEN {o} \cup W[NextSkuBlock(st, o)] ELSE {} IN W[GetSkuData(st)]

(* Delta offsets count from the variable store header.                     *)
InData(st, e, ptr, size) ==
  LET a == VariableStoreHeader(st) + e.offset IN ptr <= a /\ a < ptr + size
InBlock(st, o, ptr, size) == \E j \in 1..Len(BlockDeltas(st, o)) : InData(st, BlockDeltas(st, o)[j], ptr, size)
HasSkuData(st, ptr, size) == \E o \in BlockOffsets(st) : InBlock(st, o, ptr, size)

VariableBytes(st, ptr, size) == [j \in 1..size |-> st.byte[ptr + j - 1]]
OverlaidFromBuffer(st, o, ptr, size) ==
  [j \in 1..size |->
     LET hits == {k \in 1..Len(BlockDeltas(st, o)) : BlockDeltas(st, o)[k].offset = ptr + j - 1}
     IN  IF hits = {} THEN st.byte[ptr + j - 1] ELSE BlockDeltas(st, o)[CHOOSE k \in hits : \A l \in hits : l <= k].value]
Overlaid(st, o, ptr, size) ==
  [j \in 1..size |->
     LET hits == {k \in 1..Len(BlockDeltas(st, o)) : VariableStoreHeader(st) + BlockDeltas(st, o)[k].offset = ptr + j - 1}
     IN  IF hits = {} THEN st.byte[ptr + j - 1] ELSE BlockDeltas(st, o)[CHOOSE k \in hits : \A l \in hits : l <= k].value]

-----------------------------------------------------------------------------
NvInit ==
  /\ file \in Files
  /\ npc = "open" /\ StoreAt = 0 /\ nvOffset = 0 /\ inner = 0 /\ held = FALSE /\ nvPrinted = <<>>

(* DumpNvStoreFromVpd: a file of four bytes or less is left allocated.     *)
(* ReadFileToBuffer may return success without a buffer (FileAccess): Size *)
(* and Buffer then have no value.                                          *)
DumpNvStoreFromVpd ==
  /\ npc = "open"
  /\ \/ file.status = "success" /\ npc' = "undefined" /\ UNCHANGED held
     \/ IF file.status # "success" \/ file.size <= 4
          THEN npc' = "done" /\ held' = (file.status = "success")
          ELSE npc' = "scan" /\ held' = TRUE
  /\ UNCHANGED <<file, StoreAt, nvOffset, inner, nvPrinted>>

ScanEnd == file.size - 4
Scan ==
  /\ npc = "scan" /\ StoreAt < ScanEnd /\ StoreAt \notin DOMAIN file.store
  /\ StoreAt' = StoreAt + 1
  /\ UNCHANGED <<file, npc, nvOffset, inner, held, nvPrinted>>

ScanDone ==
  /\ npc = "scan" /\ StoreAt >= ScanEnd
  /\ npc' = "done" /\ held' = FALSE
  /\ UNCHANGED <<file, StoreAt, nvOffset, inner, nvPrinted>>

(* Count and the loop over DefaultInfo.  The loop does not advance         *)
(* DefaultInfo: it prints the first pair of the block each time.           *)
InfoCount(headerSize) == (headerSize - 4) \div DefaultInfoSize
InfosPrinted(infos, headerSize) == [i \in 1..InfoCount(headerSize) |-> infos[1]]

(* DumpNvStore, up to the first variable.                                  *)
DumpNvStore ==
  /\ npc = "scan" /\ StoreAt < ScanEnd /\ StoreAt \in DOMAIN file.store
  /\ nvPrinted' = Append(nvPrinted, [what |-> "store", store |-> StoreAt, at |-> 0, id |-> InfosPrinted(Store.infos, Store.headerSize), bytes |-> <<>>])
  /\ nvOffset' = FirstVariable(Store)
  /\ npc' = "variables"
  /\ UNCHANGED <<file, StoreAt, inner, held>>

DumpVariable ==
  /\ npc = "variables" /\ MoreVariables(Store, nvOffset)
  /\ LET ptr == VariableData(Store, nvOffset)
         size == Store.variable[nvOffset].dataSize
     IN  /\ nvPrinted' = Append(nvPrinted, [what |-> "variable", store |-> StoreAt, at |-> nvOffset, id |-> <<>>, bytes |-> VariableBytes(Store, ptr, size)])
         /\ IF HasSkuData(Store, ptr, size)
              THEN npc' = "skudata" /\ inner' = GetSkuData(Store) /\ UNCHANGED nvOffset
              ELSE nvOffset' = NextVariable(Store, nvOffset) /\ UNCHANGED <<npc, inner>>
  /\ UNCHANGED <<file, StoreAt, held>>

(* One block in DumpAllSkuData, which labels the values with the first     *)
(* pair of the block; without memory for the copy it returns.              *)
DumpAllSkuData ==
  /\ npc = "skudata" /\ inner < Store.Length
  /\ LET ptr == VariableData(Store, nvOffset)
         size == Store.variable[nvOffset].dataSize
     IN  nvPrinted' = IF InBlock(Store, inner, ptr, size)
                      THEN Append(nvPrinted, [what |-> "sku", store |-> StoreAt, at |-> nvOffset, id |-> Block(Store, inner).infos[1], bytes |-> Overlaid(Store, inner, ptr, size)])
                      ELSE nvPrinted
  /\ inner' = NextSkuBlock(Store, inner)
  /\ UNCHANGED <<file, npc, StoreAt, nvOffset, held>>

LeaveSkuData ==
  /\ npc' = "variables" /\ nvOffset' = NextVariable(Store, nvOffset)
  /\ UNCHANGED <<file, StoreAt, inner, held>>
DumpAllSkuDataEnd == npc = "skudata" /\ inner >= Store.Length /\ LeaveSkuData /\ UNCHANGED nvPrinted
DumpAllSkuDataNoMemory ==
  /\ npc = "skudata" /\ inner < Store.Length /\ LeaveSkuData
  /\ nvPrinted' = Append(nvPrinted, [what |-> "no memory", store |-> StoreAt, at |-> nvOffset, id |-> <<>>, bytes |-> <<>>])

VariablesEnd ==
  /\ npc = "variables" /\ ~MoreVariables(Store, nvOffset)
  /\ npc' = "deltas" /\ nvOffset' = ALIGN_VALUE(nvOffset, 8)
  /\ UNCHANGED <<file, StoreAt, inner, held, nvPrinted>>

DumpDeltas ==
  /\ npc = "deltas" /\ nvOffset < Store.Length
  /\ nvPrinted' = Append(nvPrinted, [what |-> "deltas", store |-> StoreAt, at |-> nvOffset,
                                 id |-> InfosPrinted(Block(Store, nvOffset).infos, Block(Store, nvOffset).headerSize),
                                 bytes |-> [j \in 1..Len(BlockDeltas(Store, nvOffset)) |-> BlockDeltas(Store, nvOffset)[j].value]])
  /\ nvOffset' = NextSkuBlock(Store, nvOffset)
  /\ UNCHANGED <<file, npc, StoreAt, inner, held>>

DumpNvStoreEnd ==
  /\ npc = "deltas" /\ nvOffset >= Store.Length
  /\ npc' = "scan" /\ StoreAt' = StoreAt + 1
  /\ UNCHANGED <<file, nvOffset, inner, held, nvPrinted>>

NvNext ==
  \/ DumpNvStoreFromVpd \/ Scan \/ ScanDone \/ DumpNvStore \/ DumpVariable \/ DumpAllSkuData \/ DumpAllSkuDataEnd
  \/ DumpAllSkuDataNoMemory \/ VariablesEnd \/ DumpDeltas \/ DumpNvStoreEnd

NvSpec == NvInit /\ [][NvNext]_nvVars

-----------------------------------------------------------------------------
PrintedOf(what, store) == SelectSeq(nvPrinted, LAMBDA r : r.what = what /\ r.store = store)
StoresDone == {i \in DOMAIN file.store : npc \in {"scan", "done"} /\ file.status = "success" /\ i < StoreAt}

(* The variables printed of a store are those it was built with, in order  *)
(* and with their data, although the end of the loop is 16 bytes off:      *)
(* no variable is shorter than that.                                       *)
VariablesExact ==
  \A i \in StoresDone :
    LET vs == PrintedOf("variable", i)
    IN  [k \in 1..Len(vs) |-> vs[k].bytes] = file.store[i].built

(* A variable is printed once for every block that changes it, with the    *)
(* value the block gives it, under a pair of SKU and default id that is    *)
(* the block's, unless memory ran out on the way.  More cannot be said: a  *)
(* block may be for several pairs, and DumpAllSkuData names only one of    *)
(* them, so the others' values are in the dump but not under their names.  *)
NvSkuValuesRight ==
  \A i \in StoresDone : \A k \in 1..Len(PrintedOf("variable", i)) :
    LET at == PrintedOf("variable", i)[k].at
        lines == {l \in 1..Len(nvPrinted) : nvPrinted[l].what = "sku" /\ nvPrinted[l].store = i /\ nvPrinted[l].at = at}
        changes == file.store[i].skus[k]
        Shows(l, c) == nvPrinted[l].id \in c.pairs /\ nvPrinted[l].bytes = c.bytes
    IN  /\ \A l \in lines : \E c \in changes : Shows(l, c)
        /\ \A c \in changes : Cardinality({l \in lines : Shows(l, c)}) <= 1
        /\ Cardinality(lines) = Cardinality(changes)
           \/ \E l \in 1..Len(nvPrinted) : nvPrinted[l].what = "no memory" /\ nvPrinted[l].store = i /\ nvPrinted[l].at = at

(* The block walk finds the blocks of deltas, whose sizes are not          *)
(* multiples of the alignment, behind the variables, and prints as many    *)
(* lines of pairs for a block as it is for.                                *)
NvBlocksExact ==
  \A i \in StoresDone :
    LET ds == PrintedOf("deltas", i)
    IN  /\ {ds[k].at : k \in 1..Len(ds)} = DOMAIN file.store[i].block /\ Len(ds) = Cardinality(DOMAIN file.store[i].block)
        /\ \A k \in 1..Len(ds) : Len(ds[k].id) = Len(file.store[i].block[ds[k].at].infos)

(* The dump of the NV stores shows the variables they were built with, and *)
(* the value each block of deltas gives them.                              *)
NvStoreRight == VariablesExact /\ NvSkuValuesRight /\ NvBlocksExact
=============================================================================
