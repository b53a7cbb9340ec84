------------------------------ MODULE PeiCoreDump ------------------------------
(***************************************************************************)
(* PeiCoreDump puts the image table and the PPI lists of the PEI core into *)
(* a GUIDed HOB when PEI ends; PeiCoreDumpApp finds the HOB in the shell   *)
(* and walks it three times by the lengths in its headers.                 *)
(*                                                                         *)
(* The contents of the HOB are a function from the offset of a structure   *)
(* to the structure; sizes are those of PeiCoreDumpComm.h, in bytes.       *)
(***************************************************************************)
EXTENDS Integers, Sequences, FiniteSets

CONSTANTS
  PeiPlatforms,      \* [fvs, ppis, callbacks, dispatches], see below
  KnownPpis,      \* the GUIDs in mPpiFuncStruct
  None            \* NULL, or what is not there

VARIABLES
  platform,       \* fvs: for each volume its files up to PeimCount; three lists of PPIs
  mImageStruct, mImageStructCountMax,
  hobLength,      \* 0 while there is no HOB
  hob,            \* its data: structures by offset
  ppc,             \* "pei", "image", "build", "boot", "app", "ppi", "memory", "done", "asserted"
  offset,         \* the structure a walk of the application is at
  shown           \* what the application printed

peiVars == <<platform, mImageStruct, mImageStructCountMax, hobLength, hob, ppc, offset, shown>>

SizeOfGuidHob == 24
SizeOfImage == 132
SizeOfPpiDatabase == 76
SizeOfPpi == 40
SizeOfMemoryInfo == 36

-----------------------------------------------------------------------------
(* GetDriverNameString: PDB, UI section, GUID; the base is that of the     *)
(* PE32 or TE section.                                                     *)
GetDriverNameString(file) ==
  CASE file.base # 0 /\ file.pdb # None -> file.pdb
    [] ~(file.base # 0 /\ file.pdb # None) /\ file.ui # None -> file.ui
    [] OTHER -> file.guid

CountOf(s) == Len(s)
CalcTotalPeimCount(p) ==
  LET sum[i \in 0..Len(p.fvs)] == IF i = 0 THEN 0 ELSE sum[i - 1] + CountOf(p.fvs[i])
  IN  sum[Len(p.fvs)]
CalcTotalPpiDataCount(p) == Len(p.ppis) + Len(p.callbacks) + Len(p.dispatches)

(* The files of a volume that DumpImageData reaches: up to the first NULL. *)
Until(files) ==
  LET nulls == {i \in 1..Len(files) : files[i] = None}
  IN  IF nulls = {} THEN files ELSE SubSeq(files, 1, (CHOOSE i \in nulls : \A j \in nulls : i <= j) - 1)
Reached(p) ==
  LET all[i \in 0..Len(p.fvs)] == IF i = 0 THEN <<>> ELSE all[i - 1] \o Until(p.fvs[i])
  IN  all[Len(p.fvs)]

(* AddImageStruct as DumpImageData calls it: the size is 0.                *)
ImageStruct(file) ==
  [guid |-> file.guid, base |-> file.base, size |-> 0, name |-> GetDriverNameString(file)]

PeiInit ==
  /\ platform \in PeiPlatforms
  /\ mImageStruct = <<>> /\ mImageStructCountMax = 0 /\ hobLength = 0 /\ hob = <<>>
  /\ ppc = "pei" /\ offset = 0 /\ shown = <<>>

(* The notification at the end of PEI.                                     *)
DumpImageData ==
  /\ ppc = "pei"
  /\ mImageStructCountMax' = CalcTotalPeimCount(platform)
  /\ LET files == Reached(platform)
     IN  IF Len(files) > CalcTotalPeimCount(platform)
           THEN ppc' = "asserted" /\ UNCHANGED mImageStruct
           ELSE ppc' = "build" /\ mImageStruct' = [i \in 1..Len(files) |-> ImageStruct(files[i])]
  /\ UNCHANGED <<platform, hobLength, hob, offset, shown>>
(* There is no memory for the table: it stays empty.                       *)
DumpImageDataNoMemory ==
  /\ ppc = "pei"
  /\ mImageStructCountMax' = CalcTotalPeimCount(platform) /\ ppc' = "build"
  /\ UNCHANGED <<platform, mImageStruct, hobLength, hob, offset, shown>>

-----------------------------------------------------------------------------
(* AddressToImageRef and AddressToImageRefEx, -1 for none.                 *)
Holding(address) ==
  {i \in 1..Len(mImageStruct) : address >= mImageStruct[i].base /\ address < mImageStruct[i].base + mImageStruct[i].size}
AddressToImageRef(address) ==
  IF Holding(address) = {} THEN -1 ELSE (CHOOSE i \in Holding(address) : \A j \in Holding(address) : i <= j) - 1
AddressToImageRefEx(ppi) ==
  IF AddressToImageRef(ppi.addr) # -1 THEN AddressToImageRef(ppi.addr)
  ELSE IF ppi.guid \in KnownPpis THEN AddressToImageRef(ppi.func) ELSE -1

(* BuildPpiData: a NULL pointer leaves its zeroed slot.                    *)
Slot(flags, guid, addr, ref) == [flags |-> flags, guid |-> guid, addr |-> addr, ref |-> ref]
BuildPpiData(pointers) ==
  [i \in 1..Len(pointers) |->
     LET p == pointers[i]
     IN  CASE p = None -> Slot("0", None, 0, 0)
           [] p # None /\ p.flags = "ppi" -> Slot("ppi", p.guid, p.addr, AddressToImageRefEx(p))
           [] OTHER -> Slot("notify", p.guid, p.addr, AddressToImageRef(p.addr))]

(* BuildImageDatabaseData: the table, then headers over zeros up to the    *)
(* number of PEIMs.                                                        *)
BlankImage == [signature |-> "PCID", length |-> SizeOfImage, guid |-> None, name |-> None, base |-> 0]
Image(i) ==
  IF i > Len(mImageStruct) THEN BlankImage
  ELSE [signature |-> "PCID", length |-> SizeOfImage, guid |-> mImageStruct[i].guid, name |-> mImageStruct[i].name, base |-> mImageStruct[i].base]

(* BuildPpiDatabaseData: three lists, one after the other.                 *)
PpiEntriesPacked(p) ==
  LET some(s) == SelectSeq(s, LAMBDA e : e # None)
      all == BuildPpiData(some(p.ppis)) \o BuildPpiData(some(p.callbacks)) \o BuildPpiData(some(p.dispatches))
  IN  [i \in 1..CalcTotalPpiDataCount(p) |-> IF i <= Len(all) THEN all[i] ELSE Slot("0", None, 0, 0)]
PpiEntries(p) == BuildPpiData(p.ppis) \o BuildPpiData(p.callbacks) \o BuildPpiData(p.dispatches)
PpiDatabase(p) ==
  [signature |-> "PCPD", length |-> SizeOfPpiDatabase + CalcTotalPpiDataCount(p) * SizeOfPpi,
   counts |-> <<Len(p.ppis), Len(p.callbacks), Len(p.dispatches)>>, entries |-> PpiEntries(p)]
MemoryInfo == [signature |-> "PCMI", length |-> SizeOfMemoryInfo]

(* BuildPeiCoreDatabase.  The length of a HOB is a UINT16.                 *)
ImageDatabaseSize(p) == CalcTotalPeimCount(p) * SizeOfImage
PpiDatabaseSize(p) == SizeOfPpiDatabase + CalcTotalPpiDataCount(p) * SizeOfPpi
Length(p) == (SizeOfGuidHob + ImageDatabaseSize(p) + PpiDatabaseSize(p) + SizeOfMemoryInfo) % (2 ^ 16)
CreateHob(length) == ((length + 7) \div 8) * 8
Data(p) ==
  LET n == CalcTotalPeimCount(p)
      images == {(i - 1) * SizeOfImage : i \in 1..n}
      ppis == n * SizeOfImage
      memory == ppis + PpiDatabase(p).length
  IN  [o \in images \cup {ppis, memory} |->
         IF o \in images THEN Image((o \div SizeOfImage) + 1) ELSE IF o = ppis THEN PpiDatabase(p) ELSE MemoryInfo]
BuildPeiCoreDatabase ==
  /\ ppc = "build"
  /\ hobLength' = CreateHob(Length(platform)) /\ hob' = Data(platform)
  /\ ppc' = "boot"
  /\ UNCHANGED <<platform, mImageStruct, mImageStructCountMax, offset, shown>>
CreateHobFails ==
  /\ ppc = "build" /\ ppc' = "boot"
  /\ UNCHANGED <<platform, mImageStruct, mImageStructCountMax, hobLength, hob, offset, shown>>

-----------------------------------------------------------------------------
(* PeiCoreDumpApp.                                                         *)
DataSize == hobLength - SizeOfGuidHob
GetPeiCoreDatabase ==
  /\ ppc = "boot"
  /\ ppc' = IF hobLength = 0 THEN "done" ELSE "image"
  /\ UNCHANGED <<platform, mImageStruct, mImageStructCountMax, hobLength, hob, offset, shown>>

(* The header at the position of a walk.  HOBs are rounded up to 8 bytes;  *)
(* in the padding the length is read from the header of the next HOB,      *)
(* whose own length is its upper half: more than is left of this one.      *)
Header == IF offset \in DOMAIN hob THEN hob[offset] ELSE [signature |-> "padding", length |-> DataSize]
Step == offset' = offset + Header.length

DumpPeiLoadedImage ==
  /\ ppc = "image" /\ offset < DataSize
  /\ Step
  /\ shown' = IF Header.signature = "PCID" /\ (Header.signature = "PCID" => Header.guid # None)
                THEN Append(shown, <<"image", Header.guid, Header.name>>) ELSE shown
  /\ UNCHANGED <<platform, mImageStruct, mImageStructCountMax, hobLength, hob, ppc>>
DumpPeiLoadedImageEnd ==
  /\ ppc = "image" /\ offset >= DataSize
  /\ ppc' = "ppi" /\ offset' = 0
  /\ UNCHANGED <<platform, mImageStruct, mImageStructCountMax, hobLength, hob, shown>>

(* GetImageRefName: the application never fills its own image table.       *)
AppImageStructCountMax == 0
GetImageRefName(ref) == IF ref = -1 \/ ref >= AppImageStructCountMax THEN None ELSE ref

(* DumpPpiOnPpiDatabaseStruct and DumpPpiPtrsOnPpiDatabaseStruct, for the  *)
(* k-th of the lists.                                                      *)
Start(db, k) == CASE k = 1 -> 0 [] k = 2 -> db.counts[1] [] k = 3 -> db.counts[1] + db.counts[2]
PpiPtrs(db, k) ==
  LET lines == [i \in 1..db.counts[k] |-> LET e == db.entries[Start(db, k) + i] IN <<"ppi", k, i, e.flags, e.guid, GetImageRefName(e.ref)>>]
  IN  SelectSeq(lines, LAMBDA x : x[4] # "0")
DumpPpiDatabase ==
  /\ ppc = "ppi" /\ offset < DataSize
  /\ IF Header.signature = "PCPD"
       THEN shown' = shown \o PpiPtrs(Header, 1) \o PpiPtrs(Header, 2) \o PpiPtrs(Header, 3) /\ offset' = 0 /\ ppc' = "memory"
       ELSE Step /\ UNCHANGED <<ppc, shown>>
  /\ UNCHANGED <<platform, mImageStruct, mImageStructCountMax, hobLength, hob>>
DumpMemoryInfo ==
  /\ ppc = "memory" /\ offset < DataSize
  /\ IF Header.signature = "PCMI"
       THEN shown' = Append(shown, <<"memory">>) /\ ppc' = "done" /\ UNCHANGED offset
       ELSE Step /\ UNCHANGED <<ppc, shown>>
  /\ UNCHANGED <<platform, mImageStruct, mImageStructCountMax, hobLength, hob>>

PeiNext ==
  \/ DumpImageData \/ DumpImageDataNoMemory \/ BuildPeiCoreDatabase \/ CreateHobFails
  \/ GetPeiCoreDatabase \/ DumpPeiLoadedImage \/ DumpPeiLoadedImageEnd \/ DumpPpiDatabase \/ DumpMemoryInfo

PeiSpec == PeiInit /\ [][PeiNext]_peiVars

-----------------------------------------------------------------------------
Lines(kind) == SelectSeq(shown, LAMBDA x : x[1] = kind)

(* Everything that is written after the HOB was made is inside of it.      *)
HobHolds == \A o \in DOMAIN hob : o + hob[o].length <= DataSize

(* The application shows the PEIMs with their names, in the order of the   *)
(* volumes, and nothing for the slots that stayed empty; none if there was *)
(* no memory for the table in PEI.                                         *)
Peims ==
  {<<v, i>> \in (1..Len(platform.fvs)) \X (1..4) :
     i <= Len(platform.fvs[v]) /\ (\A k \in 1..i : platform.fvs[v][k] # None) /\ platform.fvs[v][i].guid # None}
Rank(x) == Cardinality({y \in Peims : y[1] < x[1] \/ (y[1] = x[1] /\ y[2] <= x[2])})
ImagesShown ==
  ppc \in {"ppi", "memory"} =>
    \/ mImageStruct = <<>> /\ Lines("image") = <<>>
    \/ /\ Len(Lines("image")) = Cardinality(Peims)
       /\ \A x \in Peims : LET f == platform.fvs[x[1]][x[2]]
                           IN  Lines("image")[Rank(x)] = <<"image", f.guid, IF f.pdb # None /\ f.base # 0 THEN f.pdb ELSE IF f.ui # None THEN f.ui ELSE f.guid>>

(* The application shows each PPI and notification of the PEI core under   *)
(* the list and the index it has there, and skips the others.              *)
ListOf(k) == CASE k = 1 -> platform.ppis [] k = 2 -> platform.callbacks [] k = 3 -> platform.dispatches
PpisShown ==
  ppc = "memory" =>
    \A k \in 1..3 :
      /\ Cardinality({j \in 1..Len(shown) : shown[j][1] = "ppi" /\ (shown[j][1] = "ppi" => shown[j][2] = k)}) = Cardinality({i \in 1..Len(ListOf(k)) : ListOf(k)[i] # None})
      /\ \A i \in 1..Len(ListOf(k)) : ListOf(k)[i] # None =>
           \E j \in 1..Len(shown) : shown[j][1] = "ppi" /\ (shown[j][1] = "ppi" => SubSeq(shown[j], 2, 5) = <<k, i, ListOf(k)[i].flags, ListOf(k)[i].guid>>)

(* What PeiCoreDump writes fits in the HOB and comes out of it again in    *)
(* PeiCoreDumpApp: images by name, PPIs by list and index.                 *)
HobCarries == HobHolds /\ ImagesShown /\ PpisShown
=============================================================================
