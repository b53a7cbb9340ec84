---------------------------- MODULE SmmProfileDump ----------------------------
(***************************************************************************)
(* SmmProfileDump: the memory map is recorded with a buffer whose          *)
(* allocation changes the map, then the page faults that the SMM profile   *)
(* holds are shown with the image of the instruction and the type of the   *)
(* memory at the address, while SMIs go on adding to them.                 *)
(***************************************************************************)
EXTENDS Integers, Sequences

CONSTANTS
  Maps,          \* memory maps: sequences of [start, pages, type]
  ImageTables,   \* loaded images: sequences of [base, size, name]
  Profiles,      \* sequences of [instruction, address]; NoProfile without the variable
  MaxDataEntries,
  MaxSplits,     \* how often an allocation makes the map longer
  MaxProfileAllocFailures

mMemoryTypeShortName ==
  {"Reserved", "LoaderCode", "LoaderData", "BS_Code", "BS_Data", "RT_Code", "RT_Data", "Available", "Unusable", "ACPI_Recl", "ACPI_NVS", "MMIO", "MMIO_Port", "PalCode", "Persistent"}
MapDescriptors == [start : Nat, pages : Nat, type : mMemoryTypeShortName]
ASSUME ProfileAssumption ==
  /\ \A map \in Maps : map \in Seq(MapDescriptors) /\ map # <<>>
  /\ \A images \in ImageTables : images \in Seq([base : Nat, size : Nat, name : STRING])
  /\ \A entries \in Profiles : entries \in Seq([instruction : Int, address : Int])

VARIABLES
  memory,        \* the memory map of the system
  loaded,        \* the loaded images
  profile,       \* the entries up to CurDataEntries
  spc,           \* "images", "size", "allocate", "get", "variable", "entries", "done", "undefined"
  mapSize,       \* MemoryMapSize, in descriptors
  memoryMap,     \* MemoryMap: the number of its buffer, 0 for NULL
  mapBuffers,    \* the buffers allocated: [number -> size]
  recorded,      \* what GetMemoryMap has written to the buffer
  imageTable,    \* mImageStruct up to mImageStructCount
  header,        \* CurDataEntries as the header line shows it
  shownEntries,  \* the entries shown: [entry, image, type]
  splits, allocFailures

profileVars == <<memory, loaded, profile, spc, mapSize, memoryMap, mapBuffers, recorded, imageTable, header, shownEntries, splits, allocFailures>>

NoProfile == <<[instruction |-> -1, address |-> -1]>>
UnknownName == "???"
MMIO == "MMIO"
PageSize == 2
AnEntry(i) == [instruction |-> 10 * i, address |-> i]

ProfileInit ==
  /\ memory \in Maps /\ loaded \in ImageTables /\ profile \in Profiles
  /\ spc = "images" /\ mapSize = 0 /\ memoryMap = 0 /\ mapBuffers = <<>> /\ recorded = <<>>
  /\ imageTable = <<>> /\ header = 0 /\ shownEntries = <<>> /\ splits = 0 /\ allocFailures = 0

-----------------------------------------------------------------------------
(* GetLoadedImage: without handles or memory the table stays empty, a      *)
(* handle that has lost its protocol is passed over.                       *)
KeptImages(kept) == [i \in DOMAIN kept |-> loaded[kept[i]]]
GetLoadedImage ==
  /\ spc = "images"
  /\ \E n \in 0..Len(loaded) : \E kept \in [1..n -> 1..Len(loaded)] :
       /\ \A i, j \in 1..n : i < j => kept[i] < kept[j]
       /\ imageTable' = KeptImages(kept)
  /\ spc' = "size"
  /\ UNCHANGED <<memory, loaded, profile, mapSize, memoryMap, mapBuffers, recorded, header, shownEntries, splits, allocFailures>>

(* RecrodMemoryMap.  GetMemoryMap returns EFI_BUFFER_TOO_SMALL with the    *)
(* size it needs.                                                          *)
GetMemoryMapSize ==
  /\ spc = "size"
  /\ mapSize' = Len(memory)
  /\ spc' = "allocate"
  /\ UNCHANGED <<memory, loaded, profile, memoryMap, mapBuffers, recorded, imageTable, header, shownEntries, splits, allocFailures>>

(* An allocation is served from pages the pool has, or takes pages from a  *)
(* descriptor, of which one more is left behind.                           *)
SplitMemory(i) ==
  SubSeq(memory, 1, i - 1)
  \o <<[memory[i] EXCEPT !.pages = @ - 1], [start |-> memory[i].start + PageSize * (memory[i].pages - 1), pages |-> 1, type |-> "BS_Data"]>>
  \o SubSeq(memory, i + 1, Len(memory))

AllocateMap ==
  /\ spc = "allocate" /\ spc' = "get"
  /\ LET number == Len(mapBuffers) + 1
     IN  memoryMap' = number /\ mapBuffers' = Append(mapBuffers, mapSize)
  /\ \/ UNCHANGED <<memory, splits>>
     \/ /\ splits < MaxSplits /\ splits' = splits + 1
        /\ \E i \in 1..Len(memory) : memory[i].type = "Available" /\ memory[i].pages > 1 /\ memory' = SplitMemory(i)
  /\ UNCHANGED <<loaded, profile, mapSize, recorded, imageTable, header, shownEntries, allocFailures>>

(* AllocatePool fails: MemoryMap keeps its value.  NULL stops a DEBUG      *)
(* build at the ASSERT and is freed and used in a RELEASE build; the       *)
(* pointer to a buffer already freed passes the ASSERT and is written to.  *)
AllocateMapFails ==
  /\ spc = "allocate" /\ allocFailures < MaxProfileAllocFailures
  /\ allocFailures' = allocFailures + 1
  /\ spc' = IF memoryMap = 0 THEN "undefined" ELSE "get"
  /\ UNCHANGED <<memory, loaded, profile, mapSize, memoryMap, mapBuffers, recorded, imageTable, header, shownEntries, splits>>

FreeNone(buffers) == buffers
FreeMap(buffers) == [buffers EXCEPT ![memoryMap] = 0]

GetMemoryMapTooSmall ==
  /\ spc = "get" /\ mapSize < Len(memory)
  /\ mapSize' = Len(memory)
  /\ mapBuffers' = FreeMap(mapBuffers)
  /\ spc' = IF mapBuffers[memoryMap] = 0 THEN "undefined" ELSE "allocate"
  /\ UNCHANGED <<memory, loaded, profile, memoryMap, recorded, imageTable, header, shownEntries, splits, allocFailures>>

SizeWritten(needed) == needed
GetMemoryMap ==
  /\ spc = "get" /\ mapSize >= Len(memory)
  /\ recorded' = memory
  /\ mapSize' = SizeWritten(Len(memory))
  /\ spc' = IF mapBuffers[memoryMap] = 0 THEN "undefined" ELSE "variable"
  /\ UNCHANGED <<memory, loaded, profile, memoryMap, mapBuffers, imageTable, header, shownEntries, splits, allocFailures>>

-----------------------------------------------------------------------------
(* GetMemoryTypeFromAddress and AddressToImageName: the first that holds   *)
(* the address.                                                            *)
HoldsAddress(d, address) == address >= d.start /\ address < d.start + PageSize * d.pages
GetMemoryTypeFromAddress(address) ==
  LET at == {i \in 1..mapSize : HoldsAddress(recorded[i], address)}
  IN  IF at = {} THEN MMIO ELSE recorded[CHOOSE i \in at : \A j \in at : i <= j].type
ImageNameOf(address) ==
  LET at == {i \in 1..Len(imageTable) : address >= imageTable[i].base /\ address < imageTable[i].base + imageTable[i].size}
  IN  IF at = {} THEN UnknownName ELSE imageTable[CHOOSE i \in at : \A j \in at : i <= j].name

(* The two buffers are freed at the end of every run.                      *)
FreeBuffers == mapBuffers' = FreeMap(mapBuffers) /\ imageTable' = <<>>

GetVariable ==
  /\ spc = "variable"
  /\ IF profile = NoProfile THEN spc' = "done" /\ FreeBuffers /\ UNCHANGED header
     ELSE spc' = "entries" /\ header' = Len(profile) /\ UNCHANGED <<mapBuffers, imageTable>>
  /\ UNCHANGED <<memory, loaded, profile, mapSize, memoryMap, recorded, shownEntries, splits, allocFailures>>

(* CurDataEntries is read again for every entry.                           *)
DumpSmmProfileEntry ==
  /\ spc = "entries" /\ Len(shownEntries) < Len(profile)
  /\ LET e == profile[Len(shownEntries) + 1]
     IN  shownEntries' = Append(shownEntries, [entry |-> e, image |-> ImageNameOf(e.instruction), type |-> GetMemoryTypeFromAddress(e.address)])
  /\ UNCHANGED <<memory, loaded, profile, spc, mapSize, memoryMap, mapBuffers, recorded, imageTable, header, splits, allocFailures>>
EntriesEnd ==
  /\ spc = "entries" /\ Len(shownEntries) >= Len(profile)
  /\ spc' = "done" /\ FreeBuffers
  /\ UNCHANGED <<memory, loaded, profile, mapSize, memoryMap, recorded, header, shownEntries, splits, allocFailures>>

(* The SMM profile feature of the firmware: an SMI records a page fault.   *)
SmiPageFault ==
  /\ spc \notin {"done", "undefined"} /\ profile # NoProfile /\ Len(profile) < MaxDataEntries
  /\ profile' = Append(profile, AnEntry(Len(profile) + 1))
  /\ UNCHANGED <<memory, loaded, spc, mapSize, memoryMap, mapBuffers, recorded, imageTable, header, shownEntries, splits, allocFailures>>

ProfileStep ==
  \/ GetLoadedImage \/ GetMemoryMapSize \/ AllocateMap \/ AllocateMapFails \/ GetMemoryMapTooSmall \/ GetMemoryMap
  \/ GetVariable \/ DumpSmmProfileEntry \/ EntriesEnd
ProfileNext == ProfileStep \/ SmiPageFault
ProfileSpec == ProfileInit /\ [][ProfileNext]_profileVars /\ WF_profileVars(ProfileStep)

-----------------------------------------------------------------------------
(* The map that is looked at is in a buffer that is allocated and large    *)
(* enough for it, at most one attempt has a buffer, and when the run ends  *)
(* none has.  Nothing is undefined unless an allocation failed: then the   *)
(* pointer of the attempt before passes the ASSERT (RecrodMemoryMap).      *)
MapBufferOwned ==
    /\ spc = "undefined" => allocFailures > 0
    /\ spc \in {"variable", "entries"} => mapBuffers[memoryMap] >= Len(recorded) /\ mapSize = Len(recorded)
    /\ \A b \in 1..Len(mapBuffers) : b # memoryMap \/ spc = "done" => mapBuffers[b] = 0

(* Every entry shown is the entry of the profile at its place, all that    *)
(* the header line counted are shown, and those that SMIs add meanwhile    *)
(* are complete as well; image and memory type are the ones of the tables  *)
(* that hold the addresses at that time, even though the map was split by  *)
(* its own allocation (DumpSmmProfileInformation).                         *)
Covers(d, address) == address - d.start \in 0..PageSize * d.pages - 1
TypeAt(address) == {memory[i].type : i \in {j \in 1..Len(memory) : Covers(memory[j], address)}}
EntriesRight ==
  /\ \A k \in 1..Len(shownEntries) :
       LET s == shownEntries[k]
       IN  /\ k <= Len(profile) /\ s.entry = profile[k]
           /\ s.type \in (IF TypeAt(s.entry.address) = {} THEN {MMIO} ELSE TypeAt(s.entry.address))
           /\ s.image # UnknownName => \E i \in 1..Len(loaded) : loaded[i].name = s.image /\ s.entry.instruction - loaded[i].base \in 0..loaded[i].size - 1
  /\ spc = "done" => Len(shownEntries) >= header

(* The profile is shown entry by entry, with a memory map that is whole    *)
(* and in a buffer that exists.                                            *)
ProfileRight == MapBufferOwned /\ EntriesRight
=============================================================================
