--------------------------- MODULE AcpiTableFormats ---------------------------
(***************************************************************************)
(* How the DumpAcpi<TABLE>Lib libraries find the structures of a table.    *)
(*                                                                         *)
(* Every library that has something to walk runs one loop                  *)
(*      while (left > 0) { dump *cursor; move cursor; left -= charge; }    *)
(* and they differ in the four things a walk records:                      *)
(*   known  the types its switch has a case for                            *)
(*   other  what the default case does: skip the structure, print its      *)
(*          header, or leave the loop with `goto Done'                     *)
(*   moves  by how much the cursor moves: the Length field of the          *)
(*          structure, or the sizeof of its C type                         *)
(*   pays   what is charged to `left': the Length field; a TableLen set in *)
(*          the switch (sizeof); the Length read AFTER the cursor moved    *)
(*          (next); one iteration of a count; or nothing until the record  *)
(*          marked as the last one has been seen (last)                    *)
(*   inner  the walk inside a structure of a given type                    *)
(*   then   the walk that goes on where this one ends                      *)
(***************************************************************************)
EXTENDS Integers

None == "none"

(* sizeof of the packed C types, as the ACPI headers of MdePkg define them. *)
SizeOf ==
  [ MADT |-> 44, LAPIC |-> 8, IOAPIC |-> 12, ISO |-> 10, NMI |-> 8, LAPICNMI |-> 6,
    LAPICADDR |-> 12, IOSAPIC |-> 16, LSAPIC |-> 12, PIS |-> 16, X2APIC |-> 16, X2APICNMI |-> 12,
    GIC |-> 76, GICD |-> 24, GICMSI |-> 24, GICR |-> 16,
    SRAT |-> 48, CPU |-> 16, MEM |-> 40,
    DMAR |-> 48, DRHD |-> 16, RMRR |-> 24, ATSR |-> 8, RHSA |-> 20, ANDD |-> 8, SCOPE |-> 6,
    NFIT |-> 40, SPA |-> 56, MAP |-> 48, ILV |-> 16, SMBIOS |-> 8, CTL |-> 80, BDW |-> 40, FLUSH |-> 16,
    PMTT |-> 40, SOCKET |-> 12, CONTROLLER |-> 32, DIMM |-> 20,
    LPIT |-> 36, CSTATE |-> 56,
    FPDT |-> 36, FBPTPTR |-> 16, S3PTPTR |-> 16, FBPT |-> 8, S3PT |-> 8,
    BASICBOOT |-> 48, S3RESUME |-> 24, S3SUSPEND |-> 24,
    HEST |-> 40, MCE |-> 40, CMC |-> 48, NMIERR |-> 20, AERROOT |-> 48, AERDEV |-> 44, AERBRG |-> 56,
    GHES |-> 64, BANK |-> 28,
    ASFT |-> 36, INFO |-> 16, ALRT |-> 8, RCTL |-> 8, RMCP |-> 20, ADDR |-> 8,
    CPEP |-> 44, POLL |-> 8, MCFG |-> 44, BASE |-> 16, MSCT |-> 56, PROXIMITY |-> 22,
    MPST |-> 44, NODE |-> 32, CHARS |-> 4, CHAR |-> 28,
    WDAT |-> 68, WDACTION |-> 24, EINJ |-> 48, INJECT |-> 32, ERST |-> 48, SERIALIZE |-> 32,
    DBG2 |-> 44, PORT |-> 22, SSDT |-> 36, OEMX |-> 36 ]

Types == DOMAIN SizeOf

NoInner == [t \in {} |-> None]

(* A walk, field by field. *)
AWalk(known, other, moves, pays, inner, then) ==
  [known |-> known, other |-> other, moves |-> moves, pays |-> pays, inner |-> inner, then |-> then]

(* The plain loop: `left' and the cursor both follow the Length field. *)
ByLength(types) == AWalk(types, "skip", "length", "length", NoInner, None)

(* The plain `for': a count of structures of one C type. *)
ByCount == AWalk(Types, "skip", "sizeof", "count", NoInner, None)

-----------------------------------------------------------------------------
(* Length fields move the cursor, but the loop is charged a TableLen that   *)
(* the switch sets and the default case leaves as it was.  The GIC cases    *)
(* set TableLen to the Length field.                                        *)
MADT ==
  AWalk({"LAPIC", "IOAPIC", "ISO", "NMI", "LAPICNMI", "LAPICADDR", "IOSAPIC", "LSAPIC", "PIS",
         "X2APIC", "X2APICNMI", "GIC", "GICD", "GICMSI", "GICR"},
        "skip", "length", "sizeof", NoInner, None)

ChargedByLength == {"GIC", "GICD", "GICMSI", "GICR"}

SRAT == AWalk({"CPU", "MEM"}, "skip", "length", "sizeof", NoInner, None)

DMAR ==
  AWalk({"DRHD", "RMRR", "ATSR", "RHSA", "ANDD"}, "skip", "length", "length",
        [t \in {"DRHD", "RMRR", "ATSR"} |-> "DeviceScope"], None)

DeviceScope == ByLength(Types)

NFIT == ByLength({"SPA", "MAP", "ILV", "SMBIOS", "CTL", "BDW", "FLUSH"})

(* The cursor moves first; the Length charged is that of the structure it   *)
(* has reached.                                                             *)
PMTT ==
  AWalk({"SOCKET", "CONTROLLER", "DIMM"}, "skip", "length", "next",
        [t \in {"SOCKET", "CONTROLLER"} |->
           IF t = "SOCKET" THEN "PmttSocket" ELSE "PmttMemoryController"], None)

PmttSocket == AWalk(Types, "skip", "length", "length", [t \in {"CONTROLLER"} |-> "PmttMemoryController"], None)

PmttMemoryController == ByLength(Types)

LPIT == AWalk({"CSTATE"}, "skip", "length", "next", NoInner, None)

(* An unknown record is printed as a bare header; the pointer records lead  *)
(* to tables of their own.                                                  *)
FPDT ==
  AWalk({"FBPTPTR", "S3PTPTR"}, "print", "length", "length",
        [t \in {"FBPTPTR", "S3PTPTR"} |->
           IF t = "FBPTPTR" THEN "FpdtBasicBootTable" ELSE "FpdtS3BootTable"], None)

FpdtBasicBootTable == AWalk({"BASICBOOT"}, "print", "length", "length", NoInner, None)

FpdtS3BootTable == AWalk({"S3RESUME", "S3SUSPEND"}, "print", "length", "length", NoInner, None)

(* An error source has no Length: an unknown one ends the walk. *)
HEST ==
  AWalk({"MCE", "CMC", "NMIERR", "AERROOT", "AERDEV", "AERBRG", "GHES"}, "stop", "sizeof", "count",
        [t \in {"MCE", "CMC"} |-> "HestBanks"], None)

HestBanks == ByCount

(* The last record carries a flag in its Type. *)
ASFT == AWalk({"INFO", "ALRT", "RCTL", "RMCP", "ADDR"}, "skip", "length", "last", NoInner, None)

(* Structures of one type fill the table. *)
CPEP == AWalk(Types, "skip", "sizeof", "sizeof", NoInner, None)

MCFG == AWalk(Types, "skip", "sizeof", "sizeof", NoInner, None)

WDAT == ByCount

EINJ == ByCount

ERST == ByCount

(* A count of structures that say how long they are. *)
DBG2 == AWalk(Types, "skip", "length", "count", NoInner, None)

MSCT == AWalk(Types, "skip", "length", "count", NoInner, None)

MPST == AWalk(Types, "skip", "length", "count", NoInner, "MpstCharacteristics")

MpstCharacteristics == ByCount

-----------------------------------------------------------------------------
WalkOf ==
  [ MADT |-> MADT, SRAT |-> SRAT, DMAR |-> DMAR, DeviceScope |-> DeviceScope, NFIT |-> NFIT,
    PMTT |-> PMTT, PmttSocket |-> PmttSocket, PmttMemoryController |-> PmttMemoryController,
    LPIT |-> LPIT, FPDT |-> FPDT, FpdtBasicBootTable |-> FpdtBasicBootTable,
    FpdtS3BootTable |-> FpdtS3BootTable, HEST |-> HEST, HestBanks |-> HestBanks, ASFT |-> ASFT,
    CPEP |-> CPEP, MCFG |-> MCFG, WDAT |-> WDAT, EINJ |-> EINJ, ERST |-> ERST, DBG2 |-> DBG2,
    MSCT |-> MSCT, MPST |-> MPST, MpstCharacteristics |-> MpstCharacteristics ]

Walks == DOMAIN WalkOf

(* The tables whose libraries register a walk; the other walks are nested   *)
(* in one of these.                                                         *)
Signatures ==
  {"MADT", "SRAT", "DMAR", "NFIT", "PMTT", "LPIT", "FPDT", "HEST", "ASFT", "CPEP", "MCFG", "WDAT",
   "EINJ", "ERST", "DBG2", "MSCT", "MPST"}
=============================================================================
