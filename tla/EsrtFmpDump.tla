----------------------------- MODULE EsrtFmpDump ------------------------------
(***************************************************************************)
(* EsrtFmpDump: its five sections one after the other.  Firmware           *)
(* management protocols with descriptors of a size of their own, capsules  *)
(* from the HOB list with items at offsets, the ESRT, the entries of the   *)
(* ESRT protocol, and the two variables of the ESRT driver.                *)
(***************************************************************************)
EXTENDS Integers, Sequences

CONSTANTS
  Firmwares,           \* [fmps, hobs, esrt, managed, variables], see below
  DescriptorTypeSize   \* size of the structure this program was compiled with

(***************************************************************************)
(* Descriptors have a size, no two payloads of a capsule lie at the same   *)
(* offset, and numbers and lists are that.                                 *)
(***************************************************************************)
IsFmpCapsule(h) == h.type = "capsule" /\ h.guid = "fmp"
CapsuleForm(c) ==
  /\ c.headerSize \in Nat /\ Len(c.drivers) \in Nat /\ Len(c.payloads) \in Nat
  /\ \A j, k \in 1..Len(c.payloads) : c.payloads[k] \in Nat /\ (j # k => c.payloads[j] # c.payloads[k])
FirmwareForm(f) ==
  /\ Len(f.fmps) \in Nat /\ \A i \in 1..Len(f.fmps) : f.fmps[i].count \in Nat /\ f.fmps[i].size \in Nat \ {0}
  /\ Len(f.hobs) \in Nat /\ \A i \in 1..Len(f.hobs) : IsFmpCapsule(f.hobs[i]) => CapsuleForm(f.hobs[i])
  /\ Len(f.esrt) \in Nat /\ f.variables["FMP"] \in Nat /\ f.variables["NONFMP"] \in Nat
ASSUME FirmwareAssumption == \A f \in Firmwares : FirmwareForm(f)

VARIABLES
  firmware,
  epc,         \* "locate", "fmp", "info", "package", "hobs", "items", "esrt", "managed", "variables", "done"
  fmp,         \* index into the handle buffer
  fmpHeld,     \* buffers of DumpFmpData that are allocated
  hob,         \* HobPointer
  item,        \* index into ItemOffsetList
  sections,    \* what was shown, in order
  fmpFailures, \* the handles some call failed for
  fmpCut       \* the section has ended before its end

esrtVars == <<firmware, epc, fmp, fmpHeld, hob, item, sections, fmpFailures, fmpCut>>

-----------------------------------------------------------------------------
(* Memory.  A protocol has `count' descriptors, `size' bytes apart; what   *)
(* is read elsewhere is no descriptor.  A capsule HOB has the FMP header   *)
(* `headerSize' bytes behind the capsule header, its drivers and payloads  *)
(* at offsets from there.                                                  *)
NoItem == -1
DescriptorAt(p, offset) == IF offset % p.size = 0 /\ offset \div p.size < p.count THEN offset \div p.size + 1 ELSE NoItem
HeaderAt(c, address) ==
  LET at == {k \in 1..Len(c.payloads) : c.headerSize + c.payloads[k] = address}
  IN  IF at = {} THEN NoItem ELSE CHOOSE k \in at : TRUE

EsrtInit ==
  /\ firmware \in Firmwares
  /\ epc = "locate" /\ fmp = 1 /\ fmpHeld = {} /\ hob = 1 /\ item = 1 /\ sections = <<>>
  /\ fmpFailures = {} /\ fmpCut = FALSE

-----------------------------------------------------------------------------
(* DumpFmpData.                                                            *)
LocateFmps ==
  /\ epc = "locate"
  /\ \/ epc' = "fmp" /\ fmpHeld' = {"HandleBuffer"} /\ UNCHANGED fmpCut
     \/ epc' = "hobs" /\ UNCHANGED fmpHeld /\ fmpCut' = TRUE
  /\ UNCHANGED <<firmware, fmp, hob, item, sections, fmpFailures>>
FmpsEnd ==
  /\ epc = "fmp" /\ fmp > Len(firmware.fmps)
  /\ epc' = "hobs" /\ fmpHeld' = fmpHeld \ {"HandleBuffer"}
  /\ UNCHANGED <<firmware, fmp, hob, item, sections, fmpFailures, fmpCut>>

(* HandleProtocol, and GetImageInfo for the size; anything but             *)
(* EFI_BUFFER_TOO_SMALL passes over the protocol.  Without memory the      *)
(* section ends.                                                           *)
GetImageInfoSize ==
  /\ epc = "fmp" /\ fmp <= Len(firmware.fmps)
  /\ \/ epc' = "info" /\ fmp' = fmp /\ fmpHeld' = fmpHeld \cup {"FmpImageInfoBuf"} /\ UNCHANGED <<fmpFailures, fmpCut>>
     \/ epc' = "fmp" /\ fmp' = fmp + 1 /\ UNCHANGED <<fmpHeld, fmpCut>> /\ fmpFailures' = fmpFailures \cup {fmp}
     \/ epc' = "hobs" /\ fmp' = fmp /\ fmpHeld' = fmpHeld \ {"HandleBuffer"} /\ fmpCut' = TRUE /\ UNCHANGED fmpFailures
  /\ UNCHANGED <<firmware, hob, item, sections>>

(* DumpFmpImageInfo moves by DescriptorSize.                               *)
OwnStep(p) == DescriptorTypeSize
DescriptorStep(p) == p.size
DumpFmpImageInfo(p) == [k \in 1..p.count |-> <<"image", fmp, DescriptorAt(p, (k - 1) * DescriptorStep(p))>>]

FreeInfoBuf == fmpHeld \ {"FmpImageInfoBuf"}

(* The second call may fail, as when the firmware has more to tell by now. *)
GetImageInfo ==
  /\ epc = "info"
  /\ \/ /\ sections' = sections \o DumpFmpImageInfo(firmware.fmps[fmp])
        /\ epc' = "package" /\ fmp' = fmp /\ UNCHANGED fmpFailures
     \/ epc' = "fmp" /\ fmp' = fmp + 1 /\ UNCHANGED sections /\ fmpFailures' = fmpFailures \cup {fmp}
  /\ fmpHeld' = FreeInfoBuf
  /\ UNCHANGED <<firmware, hob, item, fmpCut>>

(* PackageVersionName is allocated by the protocol and freed after it is   *)
(* printed, in this step and in the one before.                            *)
GetPackageInfo ==
  /\ epc = "package"
  /\ \/ sections' = Append(sections, <<"package", fmp>>)
     \/ UNCHANGED sections
  /\ epc' = "fmp" /\ fmp' = fmp + 1
  /\ UNCHANGED <<firmware, fmpHeld, hob, item, fmpFailures, fmpCut>>

-----------------------------------------------------------------------------
(* DumpCapsuleVolumeHobData.                                               *)
GetNextHob(from) ==
  LET at == {i \in from..Len(firmware.hobs) : firmware.hobs[i].type = "capsule"}
  IN  IF at = {} THEN 0 ELSE CHOOSE i \in at : \A j \in at : i <= j
AfterHob(h) == h + 1

DumpCapsuleVolumeHob ==
  /\ epc = "hobs"
  /\ LET h == GetNextHob(hob)
     IN  IF h = 0 THEN epc' = "esrt" /\ UNCHANGED <<hob, item, sections>>
         ELSE /\ sections' = Append(sections, <<"capsule", h, firmware.hobs[h].guid>>)
              /\ IF firmware.hobs[h].guid = "fmp" THEN epc' = "items" /\ hob' = h /\ item' = 1
                 ELSE epc' = "hobs" /\ hob' = AfterHob(h) /\ UNCHANGED item
  /\ UNCHANGED <<firmware, fmp, fmpHeld, fmpFailures, fmpCut>>

(* DumpFmpCapsule: offsets count from the FMP header, not from the capsule *)
(* header; the first ones are drivers, without an image header.            *)
FromFmpHeader(c, offset) == c.headerSize + offset

DumpFmpItem ==
  /\ epc = "items"
  /\ LET c == firmware.hobs[hob]
         drivers == Len(c.drivers)
     IN  IF item > drivers + Len(c.payloads)
         THEN epc' = "hobs" /\ hob' = AfterHob(hob) /\ UNCHANGED <<item, sections>>
         ELSE /\ item' = item + 1 /\ UNCHANGED <<epc, hob>>
              /\ sections' = IF item <= drivers THEN sections
                             ELSE Append(sections, <<"header", hob, HeaderAt(c, FromFmpHeader(c, c.payloads[item - drivers]))>>)
  /\ UNCHANGED <<firmware, fmp, fmpHeld, fmpFailures, fmpCut>>

-----------------------------------------------------------------------------
(* DumpEsrtAcpiData: NoTable without the configuration table.              *)
NoTable == <<"none">>
DumpEsrtAcpiData ==
  /\ epc = "esrt"
  /\ sections' = IF firmware.esrt = NoTable THEN sections ELSE sections \o [i \in 1..Len(firmware.esrt) |-> <<"esrt", firmware.esrt[i]>>]
  /\ epc' = "managed"
  /\ UNCHANGED <<firmware, fmp, fmpHeld, hob, item, fmpFailures, fmpCut>>

(* DumpEsrtManagementData asks the protocol for the class of each entry of *)
(* the table, and shows what it has of its own.                            *)
ManagedRows ==
  LET Of[i \in 0..Len(firmware.esrt)] ==
        IF i = 0 THEN <<>>
        ELSE IF firmware.esrt[i] \in firmware.managed THEN Append(Of[i - 1], <<"managed", firmware.esrt[i]>>) ELSE Of[i - 1]
  IN Of[Len(firmware.esrt)]
DumpEsrtManagementData ==
  /\ epc = "managed"
  /\ sections' = IF firmware.managed = {} \/ firmware.esrt = NoTable THEN sections ELSE sections \o ManagedRows
  /\ epc' = "variables"
  /\ UNCHANGED <<firmware, fmp, fmpHeld, hob, item, fmpFailures, fmpCut>>

(* DumpEsrtDriverPrivateData: a variable whose size is no multiple of an   *)
(* entry is called corrupt.                                                *)
EntrySize == 2
DumpEsrtRepository(name) ==
  LET v == firmware.variables[name]
  IN  IF v % EntrySize # 0 THEN <<>> ELSE [i \in 1..v \div EntrySize |-> <<name, i>>]
DumpEsrtDriverPrivateData ==
  /\ epc = "variables"
  /\ sections' = sections \o DumpEsrtRepository("FMP") \o DumpEsrtRepository("NONFMP")
  /\ epc' = "done"
  /\ UNCHANGED <<firmware, fmp, fmpHeld, hob, item, fmpFailures, fmpCut>>

EsrtNext ==
  \/ LocateFmps \/ FmpsEnd \/ GetImageInfoSize \/ GetImageInfo \/ GetPackageInfo
  \/ DumpCapsuleVolumeHob \/ DumpFmpItem
  \/ DumpEsrtAcpiData \/ DumpEsrtManagementData \/ DumpEsrtDriverPrivateData
EsrtSpec == EsrtInit /\ [][EsrtNext]_esrtVars /\ WF_esrtVars(EsrtNext)

-----------------------------------------------------------------------------

(* Whatever fails for one protocol, no buffer of DumpFmpData outlives the  *)
(* section, and between two protocols only the handle buffer is there.     *)
FmpBuffersFreed ==
  /\ epc \notin {"locate", "fmp", "info", "package"} => fmpHeld = {}
  /\ epc = "fmp" => fmpHeld = {"HandleBuffer"}

(* The rows of one protocol.                                               *)
ImageRows(f) == {n \in 1..Len(sections) : sections[n][1] = "image" /\ sections[n][2] = f}
ShownInFull(f) ==
  LET count == firmware.fmps[f].count
  IN  \E before \in 0..Len(sections) :
        /\ ImageRows(f) = before + 1..before + count
        /\ \A k \in 1..count : sections[before + k] = <<"image", f, k>>

(* The descriptors of a protocol are shown at their own starts, all and in *)
(* order, also where their structure is longer or shorter than the one the *)
(* program knows (DumpFmpImageInfo); a failure for one protocol hides that *)
(* one only, running out of memory those after it.                         *)
DescriptorsRight ==
  \A f \in 1..Len(firmware.fmps) :
    /\ ImageRows(f) = {} \/ ShownInFull(f)
    /\ epc = "done" => ShownInFull(f) \/ f \in fmpFailures \/ (fmpCut /\ fmp <= f)

(* The rows of capsules: each has one of its own, and one for each of its  *)
(* payloads.                                                               *)
CapsuleRows == {n \in 1..Len(sections) : sections[n][1] \in {"capsule", "header"}}
RowsOf(h) == IF IsFmpCapsule(h) THEN 1 + Len(h.payloads) ELSE IF h.type = "capsule" THEN 1 ELSE 0
RowOf(hobs, i, k) == IF k = 1 THEN <<"capsule", i, hobs[i].guid>> ELSE <<"header", i, k - 1>>
RowCounts(hobs) == [i \in 1..Len(hobs) |-> RowsOf(hobs[i])]
RowsUpTo(hobs, i) ==
  LET Sum[n \in 0..Len(hobs)] == IF n = 0 THEN 0 ELSE Sum[n - 1] + RowCounts(hobs)[n] IN Sum[i]
CapsulesFrom(before, rows) ==
  /\ CapsuleRows = before + 1..before + rows
  /\ \A i \in 1..Len(firmware.hobs) : \A k \in 1..RowsOf(firmware.hobs[i]) :
       LET n == RowsUpTo(firmware.hobs, i - 1) + k
       IN  n <= rows => sections[before + n] = RowOf(firmware.hobs, i, k)

(* Whatever became of the section before, every capsule of the HOB list is *)
(* shown once and in order, with HOBs of other types between them, and     *)
(* every payload of an FMP capsule with the image header it was built with *)
(* (DumpCapsuleVolumeHobData, DumpFmpCapsule).                             *)
CapsulesRight ==
  LET all == RowsUpTo(firmware.hobs, Len(firmware.hobs))
  IN  \E before \in 0..Len(sections), rows \in 0..all : CapsulesFrom(before, rows) /\ (epc = "done" => rows = all)

(* Firmware descriptors and capsules are shown where they are, and what    *)
(* fails for one of them hides no other and leaks nothing.                 *)
FirmwareRight == FmpBuffersFreed /\ DescriptorsRight /\ CapsulesRight
=============================================================================
