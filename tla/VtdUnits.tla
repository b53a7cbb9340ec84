------------------------------ MODULE VtdUnits ------------------------------
(***************************************************************************)
(* How VtdDump (EdkiiShellToolPkg/VtdDump/VtdDump.c) finds out which PCI   *)
(* functions each VT-d unit translates: ParseDmarAcpiTableDrhd walks the   *)
(* DRHD structures of the DMAR table, registers the functions their device *)
(* scopes name and scans the buses behind bridges, or the whole segment    *)
(* for the unit that includes all; ParseDmarAcpiTableRmrr then records the *)
(* reserved memory regions, and DumpExceptionRecord the devices that the   *)
(* platform policy excepts.                                                *)
(*                                                                         *)
(* The recursion of ScanPciBus is a stack of frames; a step of the scan is *)
(* one function number.  The structures of the table are visited by index: *)
(* stepping by their Length is the subject of module AcpiTableDump.        *)
(***************************************************************************)
EXTENDS Integers, Sequences, FiniteSets, SequencesExt

CONSTANTS
  Dmars,          \* the DMAR tables of Init, each a sequence of structures
  Rsdps,          \* root pointers: signatures that XSDT and RSDT lead to
  Platforms,      \* PCI configuration spaces: [location -> function record]
  Policies,       \* exception lists of the platform policy, sequences
  MaxDevice,      \* PCI_MAX_DEVICE
  MaxFunction,    \* PCI_MAX_FUNC
  DataNumber,     \* MAX_VTD_PCI_DATA_NUMBER, the growth of a device array
  PoolMayFail     \* whether AllocateZeroPool and AllocatePool may return NULL

ASSUME BoundsAssumption ==
  /\ MaxDevice \in Nat /\ MaxFunction \in Nat /\ DataNumber \in Nat \ {0}
  /\ PoolMayFail \in BOOLEAN

Endpoint == "endpoint"
Bridge   == "bridge"
PciType(type) == type \in {Endpoint, Bridge}

\* A unit as AllocateZeroPool leaves it.
ZeroUnit == [base |-> 0, seg |-> 0, all |-> FALSE, max |-> 0, data |-> <<>>]

(***************************************************************************)
(* PCI configuration space, as PciSegmentRead shows it.  A location is     *)
(* <<segment, bus, device, function>>; where no function answers, every    *)
(* register reads as ones.                                                 *)
(***************************************************************************)
PciLocation(seg, src) == <<seg, src[1], src[2], src[3]>>

Present(p, loc)    == loc \in DOMAIN p
IsBridge(p, loc)   == Present(p, loc) /\ p[loc].bridge
Secondary(p, loc)  == IF Present(p, loc) THEN p[loc].secondary ELSE 255
MultiFunction(p, seg, bus, dev) ==
  LET loc == <<seg, bus, dev, 0>> IN Present(p, loc) => p[loc].multi
FunctionsOf(p, seg, bus, dev) ==
  IF MultiFunction(p, seg, bus, dev) THEN 0..MaxFunction ELSE {0}

NoId == [device |-> 65535, subsystem |-> 65535]

\* What RegisterPciDevice reads of a function: the subsystem is read for
\* endpoints only and stays 0 for bridges; other scopes read nothing.
DeviceId(p, loc, type) ==
  CASE type = Endpoint -> IF Present(p, loc) THEN p[loc].id ELSE NoId
    [] type = Bridge   -> [device |-> IF Present(p, loc) THEN p[loc].id.device ELSE NoId.device,
                           subsystem |-> 0]
    [] OTHER           -> [device |-> 0, subsystem |-> 0]

(***************************************************************************)
(* GetPciBusDeviceFunction: the last step of a scope's path; each earlier  *)
(* one is a bridge whose secondary bus the next one is on.  The path of a  *)
(* scope that is not PCI is not followed.                                  *)
(***************************************************************************)
GetPciBusDeviceFunction(p, seg, s) ==
  LET BusOf[k \in 1..Len(s.path)] ==
        IF k = 1 THEN s.bus
        ELSE Secondary(p, <<seg, BusOf[k - 1], s.path[k - 1][1], s.path[k - 1][2]>>)
      last == IF PciType(s.type) THEN Len(s.path) ELSE 1
  IN <<BusOf[last], s.path[last][1], s.path[last][2]>>

\* The location that a device scope entry names.
ScopeLocation(p, seg, s) == PciLocation(seg, GetPciBusDeviceFunction(p, seg, s))

(***************************************************************************)
(* The DMAR table: the structures of some types among the first n.         *)
(***************************************************************************)
OfTypes(d, types, n) ==
  FlattenSeq([k \in 1..n |-> IF d[k].type \in types THEN <<d[k]>> ELSE <<>>])
Drhds(d) == OfTypes(d, {"DRHD"}, Len(d))
GetVtdEngineNumber(d) == Len(Drhds(d))

(***************************************************************************)
(* The functions behind a bus, by the secondary buses of its bridges: a    *)
(* reference definition of what ScanPciBus enumerates.                     *)
(***************************************************************************)
OnBus(p, seg, bus) == {loc \in DOMAIN p : loc[1] = seg /\ loc[2] = bus}
Numbered(p, locs) == {loc \in locs : p[loc].bridge /\ p[loc].secondary # 0}
Below(p, seg, locs) == UNION {OnBus(p, seg, p[loc].secondary) : loc \in Numbered(p, locs)}
Behind(p, seg, bus) ==
  LET Reach[n \in 0..Cardinality(DOMAIN p)] ==
        IF n = 0 THEN OnBus(p, seg, bus) ELSE Reach[n - 1] \cup Below(p, seg, Reach[n - 1])
  IN Reach[Cardinality(DOMAIN p)]

\* What a device scope names, what all scopes of a DRHD name, and what the
\* unit of a DRHD may have in its array.
Scoped(p, seg, s) ==
  LET loc == ScopeLocation(p, seg, s)
  IN {loc} \cup (IF s.type = Bridge THEN Behind(p, seg, Secondary(p, loc)) ELSE {})
Named(p, d) == UNION {Scoped(p, d.seg, d.scopes[k]) : k \in 1..Len(d.scopes)}
Target(p, d) == Named(p, d) \cup (IF d.all THEN Behind(p, d.seg, 0) ELSE {})

(***************************************************************************)
(* Tables and buses of a platform.  ScanPciBus meets every function that   *)
(* answers.  What a unit with device scopes of its own has, no unit before *)
(* it has; the unit that includes all stands behind those of its segment.  *)
(* An I/O APIC or a HPET that answers as a function, and for which memory  *)
(* may run out, has been met by the scan.                                  *)
(***************************************************************************)
IsSequence(s) == s \in Seq(Range(s))
PlatformForm(p) ==
  /\ IsFiniteSet(DOMAIN p)
  /\ \A loc \in DOMAIN p :
       /\ loc = <<loc[1], loc[2], loc[3], loc[4]>> /\ loc[3] \in 0..MaxDevice
       /\ loc[4] \in FunctionsOf(p, loc[1], loc[2], loc[3])
       /\ p[loc].bridge \in BOOLEAN /\ p[loc].multi \in BOOLEAN

DmarForm(d) ==
  /\ IsSequence(d)
  /\ \A n \in 1..Len(d) :
       /\ d[n].all \in BOOLEAN /\ d[n].base \in Int /\ d[n].limit \in Int
       /\ IsSequence(d[n].scopes) /\ \A k \in 1..Len(d[n].scopes) : IsSequence(d[n].scopes[k].path)
       /\ d[n].type \in {"RHSA", "ANDD"} => d[n].scopes = <<>>

ScopesForm(p, d) ==
  /\ \A i \in 1..Len(Drhds(d)) : \A j \in 1..(i - 1) :
       ~Drhds(d)[i].all => Target(p, Drhds(d)[i]) \cap Target(p, Drhds(d)[j]) = {}
  /\ PoolMayFail => \A i \in 1..Len(Drhds(d)) : \A k \in 1..Len(Drhds(d)[i].scopes) :
       LET unit == Drhds(d)[i]
           s == unit.scopes[k]
       IN ~PciType(s.type) /\ Present(p, ScopeLocation(p, unit.seg, s)) =>
            unit.all /\ ScopeLocation(p, unit.seg, s) \in Behind(p, unit.seg, 0)

ASSUME DmarAssumption ==
  /\ \A p \in Platforms : PlatformForm(p)
  /\ \A d \in Dmars : DmarForm(d) /\ \A p \in Platforms : ScopesForm(p, d)
  /\ \A policy \in Policies : IsSequence(policy)

VARIABLES
  pc,         \* which loop runs: drhd, scan, scope, rmrr, policy, done
  pci,        \* the configuration space
  dmar,       \* the table
  rsdp,       \* what the configuration table's RSDP leads to
  printed,    \* structures printed by VtdDumpDmarTable
  policy,     \* EDKII_PLATFORM_VTD_POLICY_PROTOCOL's list, empty when it gives none
  at,         \* index of the structure or policy entry
  scope,      \* index of the device scope entry
  stack,      \* frames of ScanPciBus, innermost last: bus, device, function
  units,      \* mVtdUnitInformation, mVtdUnitNumber entries
  vtdIndex,   \* VtdIndex
  status,     \* what ParseDmarAcpiTableDrhd and ...Rmrr returned
  rmrr,       \* gRmrrRecord
  exceptions, \* gExceptionRecord
  lostRmrr,   \* history: records of regions that there was no memory for
  lostExceptions  \* history: exceptions that there was no memory for

vars == <<pc, pci, dmar, rsdp, printed, policy, at, scope, stack, units, vtdIndex, status,
          rmrr, exceptions, lostRmrr, lostExceptions>>

\* The index of a function in a unit's array: empty when there is none.
GetPciDataIndex(i, seg, src) ==
  IF units[i].seg # seg THEN {}
  ELSE {k \in 1..Len(units[i].data) : units[i].data[k].src = src}

\* The array with room for one more function.
Grown(u) ==
  IF Len(u.data) >= u.max THEN [u EXCEPT !.max = @ + DataNumber] ELSE u

\* A unit with one more function.
WithFunction(u, entry) == [Grown(u) EXCEPT !.data = Append(@, entry)]

\* Mutant: the units before this one are not asked.
OwnedNowhere(i, seg, src) == FALSE

\* A unit that includes all leaves the functions of earlier units alone.
OwnedByEarlier(i, seg, src) ==
  /\ units[i].all
  /\ \E j \in 1..(i - 1) : GetPciDataIndex(j, seg, src) # {}

(***************************************************************************)
(* RegisterPciDevice, with its result st: the units afterwards are us.     *)
(***************************************************************************)
RegisterPciDevice(i, seg, src, type, checkExist, us, st) ==
  LET known == GetPciDataIndex(i, seg, src) # {}
      entry == [type |-> type, src |-> src, id |-> DeviceId(pci, PciLocation(seg, src), type)]
  IN \/ /\ OwnedByEarlier(i, seg, src)
        /\ us = units /\ st = "success"
     \/ /\ ~OwnedByEarlier(i, seg, src) /\ ~known
        /\ us = [units EXCEPT ![i] = WithFunction(@, entry)]
        /\ st = "success"
     \/ /\ ~OwnedByEarlier(i, seg, src) /\ ~known
        /\ PoolMayFail /\ Len(units[i].data) >= units[i].max
        /\ us = units /\ st = "out_of_resources"
     \/ /\ ~OwnedByEarlier(i, seg, src) /\ known
        /\ us = units
        /\ st = IF checkExist THEN "already_started" ELSE "success"

Structure == dmar[at]
Scopes    == Structure.scopes
Frame(bus) == [bus |-> bus, dev |-> 0, fn |-> 0]

Init ==
  /\ pc = "start" /\ at = 1 /\ scope = 1 /\ stack = <<>>
  /\ dmar \in Dmars /\ rsdp \in Rsdps /\ printed = <<>> /\ pci \in Platforms /\ policy \in Policies
  /\ units = <<>> /\ vtdIndex = 0 /\ status = "success"
  /\ rmrr = <<>> /\ exceptions = <<>> /\ lostRmrr = {} /\ lostExceptions = {}

Tables == <<pci, dmar, rsdp, printed, policy>>
RmrrRecords == <<rmrr, lostRmrr>>
ExceptionRecords == <<exceptions, lostExceptions>>
Records == <<RmrrRecords, ExceptionRecords>>

(***************************************************************************)
(* GetDmarAcpiTable.  A list of tables is a sequence of signatures, in     *)
(* which NULL entries are passed over; None is a missing list.             *)
(***************************************************************************)
None == "none"

ScanTable(list) == list # <<None>> /\ \E k \in 1..Len(list) : list[k] = "DMAR"

\* The XSDT of a revision 2 pointer, and the RSDT when it has no DMAR.
FindAcpiPtr(r) == (r.revision >= 2 /\ ScanTable(r.xsdt)) \/ ScanTable(r.rsdt)

(***************************************************************************)
(* DumpAcpiDMAR and the functions for its structures: each walks by the    *)
(* Length fields down to 0, starting behind its own header.                *)
(***************************************************************************)
ScopeLength(s) == 6 + 2 * Len(s.path)
LengthUpTo(s, n) ==
  LET Sum[k \in 0..n] == IF k = 0 THEN 0 ELSE Sum[k - 1] + ScopeLength(s.scopes[k]) IN Sum[n]
HeaderSize(type) ==
  CASE type = "DRHD" -> 16 [] type = "RMRR" -> 24 [] type = "ATSR" -> 8 [] type = "RHSA" -> 20 [] OTHER -> 8
StructureLength(s) == HeaderSize(s.type) + LengthUpTo(s, Len(s.scopes))

\* DumpDmarDeviceScopeEntry: the steps of the path fill the entry's Length.
DumpDmarDeviceScopeEntry(s) == [type |-> s.type, paths |-> (ScopeLength(s) - 6) \div 2]

\* The scopes that a loop starting with left bytes visits.
DumpScopes(s, left) ==
  LET n == Cardinality({k \in 1..Len(s.scopes) : left > LengthUpTo(s, k - 1)})
  IN [k \in 1..n |-> DumpDmarDeviceScopeEntry(s.scopes[k])]

DumpDmarAtsr(s) == [type |-> "ATSR", scopes |-> DumpScopes(s, StructureLength(s) - HeaderSize("ATSR"))]
DumpDmarRmrr(s) == [type |-> "RMRR", scopes |-> DumpScopes(s, StructureLength(s) - HeaderSize("RMRR"))]
DumpDmarDrhd(s) == [type |-> "DRHD", scopes |-> DumpScopes(s, StructureLength(s) - HeaderSize("DRHD"))]
DumpDmarRhsa(s) == [type |-> "RHSA", scopes |-> <<>>]
DumpDmarAndd(s) == [type |-> "ANDD", scopes |-> <<>>]

Dumped(s) ==
  CASE s.type = "DRHD" -> <<DumpDmarDrhd(s)>> [] s.type = "RMRR" -> <<DumpDmarRmrr(s)>>
    [] s.type = "ATSR" -> <<DumpDmarAtsr(s)>> [] s.type = "RHSA" -> <<DumpDmarRhsa(s)>>
    [] s.type = "ANDD" -> <<DumpDmarAndd(s)>> [] OTHER -> <<>>

DumpAcpiDMAR == FlattenSeq([k \in 1..Len(dmar) |-> Dumped(dmar[k])])

\* GetDmarAcpiTable: without a DMAR table DumpVtdAcpi returns at once.
GetDmarAcpiTable ==
  /\ pc = "start"
  /\ IF FindAcpiPtr(rsdp) THEN printed' = DumpAcpiDMAR /\ pc' = "parse"
     ELSE pc' = "policy" /\ UNCHANGED printed
  /\ UNCHANGED <<pci, dmar, rsdp, policy, at, scope, stack, units, vtdIndex, status, Records>>

\* ParseDmarAcpiTableDrhd: the array of units is allocated, or the ASSERT
\* behind the allocation ends the run.
ParseDmarAcpiTableDrhd ==
  /\ pc = "parse"
  /\ \/ units' = [i \in 1..GetVtdEngineNumber(dmar) |-> ZeroUnit] /\ pc' = "drhd"
     \/ PoolMayFail /\ UNCHANGED units /\ pc' = "pool_failed"
  /\ UNCHANGED <<at, scope, stack, vtdIndex, status, Tables, Records>>

\* A structure that is not a DRHD, or the end of the table.
NextDrhd ==
  /\ pc = "drhd"
  /\ IF at > Len(dmar) THEN at' = 1 /\ pc' = "rmrr"
     ELSE Structure.type # "DRHD" /\ at' = at + 1 /\ UNCHANGED pc
  /\ UNCHANGED <<scope, stack, units, vtdIndex, status, Tables, Records>>

\* ProcessDhrd up to its first scan: the unit's base, segment and flag.
ProcessDhrd ==
  /\ pc = "drhd" /\ at <= Len(dmar) /\ Structure.type = "DRHD"
  /\ vtdIndex' = vtdIndex + 1
  /\ units' = [units EXCEPT ![vtdIndex'] =
                 [@ EXCEPT !.base = Structure.base, !.seg = Structure.seg,
                           !.all = Structure.all]]
  /\ stack' = IF Structure.all THEN <<Frame(0)>> ELSE <<>>
  /\ scope' = 1 /\ pc' = "scan"
  /\ UNCHANGED <<at, status, Tables, Records>>

\* An error ends the walk over the DRHDs: DumpVtdAcpi ignores the status.
Fail(st) == /\ status' = st /\ at' = 1 /\ pc' = "rmrr" /\ stack' = <<>> /\ UNCHANGED scope

PastBus(f) == f.dev > MaxDevice

\* ScanPciBus returns at the end of a bus to the caller's loop.
ScanPciBusEnd ==
  /\ pc = "scan" /\ stack # <<>> /\ PastBus(stack[Len(stack)])
  /\ stack' = SubSeq(stack, 1, Len(stack) - 1)
  /\ UNCHANGED <<pc, at, scope, units, vtdIndex, status, Tables, Records>>

\* Where the loops of ScanPciBus go on after a function.
NextFunction(p, seg, f) ==
  IF f.fn + 1 \in FunctionsOf(p, seg, f.bus, f.dev)
  THEN [f EXCEPT !.fn = @ + 1]
  ELSE [f EXCEPT !.dev = @ + 1, !.fn = 0]

\* The scan of the bus behind a PCI-PCI bridge, if it has been numbered.
Subordinate(p, loc) ==
  IF IsBridge(p, loc) /\ Secondary(p, loc) # 0 THEN <<Frame(Secondary(p, loc))>> ELSE <<>>

\* One function number of ScanPciBus with ScanBusCallbackRegisterPciDevice.
ScanPciBus ==
  /\ pc = "scan" /\ stack # <<>> /\ ~PastBus(stack[Len(stack)])
  /\ LET n    == Len(stack)
         f    == stack[n]
         loc  == <<Structure.seg, f.bus, f.dev, f.fn>>
         type == IF IsBridge(pci, loc) THEN Bridge ELSE Endpoint
         on   == [stack EXCEPT ![n] = NextFunction(pci, Structure.seg, f)]
     IN IF ~Present(pci, loc)
        THEN stack' = on /\ UNCHANGED <<pc, at, scope, units, status>>
        ELSE \E st \in {"success", "out_of_resources"} :
               /\ RegisterPciDevice(vtdIndex, loc[1], <<loc[2], loc[3], loc[4]>>, type, FALSE, units', st)
               /\ IF st = "success"
                  THEN stack' = on \o Subordinate(pci, loc) /\ UNCHANGED <<pc, at, scope, status>>
                  ELSE Fail(st)
  /\ UNCHANGED <<vtdIndex, Tables, Records>>

\* One device scope entry of a DRHD.  A function found twice is an error
\* for PCI scopes only, and the bus of a bridge is scanned unconditionally.
DeviceScope ==
  /\ pc = "scan" /\ stack = <<>> /\ scope <= Len(Scopes)
  /\ LET s   == Scopes[scope]
         src == GetPciBusDeviceFunction(pci, Structure.seg, s)
         loc == PciLocation(Structure.seg, src)
     IN \E st \in {"success", "already_started", "out_of_resources"} :
          /\ RegisterPciDevice(vtdIndex, loc[1], src, s.type, TRUE, units', st)
          /\ IF st # "success" /\ PciType(s.type) THEN Fail(st)
             ELSE /\ stack' = IF s.type = Bridge THEN <<Frame(Secondary(pci, loc))>> ELSE <<>>
                  /\ scope' = scope + 1
                  /\ UNCHANGED <<pc, at, status>>
  /\ UNCHANGED <<vtdIndex, Tables, Records>>

\* ProcessDhrd returns.
ProcessDhrdEnd ==
  /\ pc = "scan" /\ stack = <<>> /\ scope > Len(Scopes)
  /\ at' = at + 1 /\ pc' = "drhd"
  /\ UNCHANGED <<scope, stack, units, vtdIndex, status, Tables, Records>>

(***************************************************************************)
(* Records in lists.  Each has an allocation of its own; where that fails  *)
(* the record is left out and the loop goes on.                            *)
(***************************************************************************)
Allocations(n) == IF PoolMayFail THEN SUBSET (1..n) ELSE {1..n}
Made(wanted, got) ==
  FlattenSeq([k \in 1..Len(wanted) |-> IF k \in got THEN <<wanted[k]>> ELSE <<>>])
LeftOut(wanted, got) == {wanted[k] : k \in (1..Len(wanted)) \ got}

(***************************************************************************)
(* ProcessRmrr: the records of one RMRR, up to the first scope that is not *)
(* an endpoint, which also ends ParseDmarAcpiTableRmrr.                    *)
(***************************************************************************)

RmrrLength(s) == s.limit + 1 - s.base

GoodScopes(s) ==
  LET bad == {k \in 1..Len(s.scopes) : s.scopes[k].type # Endpoint}
  IN IF bad = {} THEN Len(s.scopes) ELSE (CHOOSE k \in bad : \A j \in bad : k <= j) - 1

RegionRecords(s) ==
  [k \in 1..GoodScopes(s) |->
     [seg |-> s.seg, base |-> s.base, length |-> RmrrLength(s),
      src |-> GetPciBusDeviceFunction(pci, s.seg, s.scopes[k])]]

ProcessRmrr ==
  /\ pc = "rmrr" /\ at <= Len(dmar) /\ Structure.type = "RMRR"
  /\ LET wanted == RegionRecords(Structure)
     IN \E got \in Allocations(Len(wanted)) :
          rmrr' = rmrr \o Made(wanted, got) /\ lostRmrr' = lostRmrr \cup LeftOut(wanted, got)
  /\ IF GoodScopes(Structure) = Len(Structure.scopes)
     THEN at' = at + 1 /\ UNCHANGED pc
     ELSE at' = 1 /\ pc' = "policy"
  /\ UNCHANGED <<scope, stack, units, vtdIndex, status, ExceptionRecords, Tables>>

\* A structure that is not an RMRR, or the end of the table: DumpRmrrRecord.
NextRmrr ==
  /\ pc = "rmrr"
  /\ IF at > Len(dmar) THEN at' = 1 /\ pc' = "policy"
     ELSE Structure.type # "RMRR" /\ at' = at + 1 /\ UNCHANGED pc
  /\ UNCHANGED <<scope, stack, units, vtdIndex, status, Tables, Records>>

(***************************************************************************)
(* DumpExceptionRecord and AddExceptionDevice.  An entry of the policy     *)
(* names a location, or an identity with wildcards (all ones) that     *)
(* every registered function is compared with.                             *)
(***************************************************************************)
Wild == 65535

Matches(want, id) == want.device \in {Wild, id.device} /\ want.subsystem \in {Wild, id.subsystem}

MatchesIn(u, want) ==
  FlattenSeq([k \in 1..Len(u.data) |->
                IF Matches(want, u.data[k].id) THEN <<PciLocation(u.seg, u.data[k].src)>> ELSE <<>>])

AddExceptionDevice(want) ==
  FlattenSeq([i \in 1..Len(units) |-> MatchesIn(units[i], want)])

PolicyLeft == at <= Len(policy) /\ policy[at].type # "end"

\* No policy protocol, or no list from it: nothing is excepted.
NoExceptionDeviceList ==
  /\ pc = "policy" /\ at = 1
  /\ policy' = <<>> /\ pc' = "done"
  /\ UNCHANGED <<pci, dmar, rsdp, printed, at, scope, stack, units, vtdIndex, status, Records>>

Excepts(entry) ==
  CASE entry.type = "scope" -> <<entry.loc>>
    [] entry.type = "id"    -> AddExceptionDevice(entry.id)
    [] OTHER                -> <<>>

DumpExceptionRecord ==
  /\ pc = "policy" /\ PolicyLeft
  /\ LET wanted == Excepts(policy[at])
     IN \E got \in Allocations(Len(wanted)) :
          /\ exceptions' = exceptions \o Made(wanted, got)
          /\ lostExceptions' = lostExceptions \cup LeftOut(wanted, got)
  /\ at' = at + 1
  /\ UNCHANGED <<pc, scope, stack, units, vtdIndex, status, RmrrRecords, Tables>>

\* The end of the list: the records are printed and DumpVtdTranslation runs.
EndOfPolicy ==
  /\ pc = "policy" /\ ~PolicyLeft
  /\ pc' = "done"
  /\ UNCHANGED <<at, scope, stack, units, vtdIndex, status, Tables, Records>>

Done == pc \in {"done", "pool_failed"} /\ UNCHANGED vars

Next ==
  \/ GetDmarAcpiTable \/ ParseDmarAcpiTableDrhd \/ NextDrhd \/ ProcessDhrd \/ ScanPciBusEnd \/ ScanPciBus
  \/ DeviceScope \/ ProcessDhrdEnd \/ ProcessRmrr \/ NextRmrr
  \/ NoExceptionDeviceList \/ DumpExceptionRecord \/ EndOfPolicy \/ Done

\* The application runs alone to its end.
Spec == Init /\ [][Next]_vars /\ WF_vars(Next)
-----------------------------------------------------------------------------
(***************************************************************************)
(* What the registration must achieve.                                     *)
(***************************************************************************)
Registered(i) == {PciLocation(units[i].seg, units[i].data[k].src) : k \in 1..Len(units[i].data)}

\* Registration is over: every DRHD has been processed without an error.
Parsed == vtdIndex > 0 /\ pc \in {"rmrr", "policy", "done"} /\ status = "success"

\* The DMAR table is found in whichever list has it, and each of its
\* structures is printed with all its device scopes and the steps of their
\* paths (FindAcpiPtr, DumpAcpiDMAR: loops that run down different lengths).
TablePrinted ==
  pc = "done" =>
    LET known == OfTypes(dmar, {"DRHD", "RMRR", "ATSR", "RHSA", "ANDD"}, Len(dmar))
    IN IF \E l \in {rsdp.rsdt} \cup (IF rsdp.revision >= 2 THEN {rsdp.xsdt} ELSE {}) : \E k \in 1..Len(l) : l[k] = "DMAR"
       THEN printed = [n \in 1..Len(known) |->
              [type |-> known[n].type,
               scopes |-> [k \in 1..Len(known[n].scopes) |->
                 [type |-> known[n].scopes[k].type, paths |-> Len(known[n].scopes[k].path)]]]]
       ELSE printed = <<>>

\* After ParseDmarAcpiTableDrhd a unit with device scopes has exactly the
\* functions these name and what is behind their bridges; the unit that
\* includes all has every other function of its segment's bus 0 hierarchy
\* (ScanPciBus, GetPciBusDeviceFunction, RegisterPciDevice).  Scopes of
\* HPETs and APICs, whose errors ProcessDhrd ignores, are no PCI functions.
UnitsExact ==
  Parsed =>
    \A i \in 1..Len(units) :
      LET d == Drhds(dmar)[i]
          earlier == UNION {Registered(j) : j \in 1..(i - 1)}
          named == Named(pci, d) \cap DOMAIN pci
      IN Registered(i) \cap DOMAIN pci =
           IF d.all THEN (Behind(pci, d.seg, 0) \cup named) \ earlier ELSE named

\* No PCI function is in the arrays of two units, and none is twice in one:
\* a second entry would be excepted or counted twice ("Do not register
\* device in other VTD Unit").
OneUnit ==
  /\ \A i, j \in 1..Len(units) : i # j => Registered(i) \cap Registered(j) = {}
  /\ \A i \in 1..Len(units) : Cardinality(Registered(i)) = Len(units[i].data)

\* A device array never holds more than it was allocated for, also after a
\* replacement by a larger one failed (RegisterPciDevice).
ArrayHolds == \A i \in 1..Len(units) : Len(units[i].data) <= units[i].max

\* Every function of the policy's wildcards is excepted, and no other: the
\* records depend on the registration having run before
\* (AddExceptionDevice walks the units' arrays).  Only those that there was
\* no memory for are missing, and one of them leaves the others alone.
ExceptionsRight ==
  pc = "done" /\ status = "success" =>
    LET owned == UNION {{<<i, k>> : k \in 1..Len(units[i].data)} : i \in 1..Len(units)}
        read  == {n \in 1..Len(policy) : \A j \in 1..n : policy[j].type # "end"}
    IN {exceptions[k] : k \in 1..Len(exceptions)} \cup lostExceptions =
         {policy[n].loc : n \in {m \in read : policy[m].type = "scope"}} \cup
         {PciLocation(units[o[1]].seg, units[o[1]].data[o[2]].src) :
            o \in {o \in owned : \E n \in read : policy[n].type = "id" /\
                     LET id == units[o[1]].data[o[2]].id IN
                       /\ policy[n].id.device = Wild \/ policy[n].id.device = id.device
                       /\ policy[n].id.subsystem = Wild \/ policy[n].id.subsystem = id.subsystem}}

\* Every reserved region is recorded from its first to its last byte for each
\* endpoint its scopes name, and nothing else is, as long as all scopes are
\* endpoints (ProcessRmrr: Length is Limit + 1 - Base).  Only the records
\* that there was no memory for are missing.
RmrrComplete ==
  LET regions == {n \in 1..Len(dmar) : dmar[n].type = "RMRR"}
      clean   == \A n \in regions : \A k \in 1..Len(dmar[n].scopes) : dmar[n].scopes[k].type = Endpoint
      known   == {rmrr[r] : r \in 1..Len(rmrr)} \cup lostRmrr
  IN pc = "policy" /\ printed # <<>> /\ clean =>
       {<<r.seg, r.src, r.base, r.base + r.length - 1>> : r \in known} =
       UNION {{<<dmar[n].seg, GetPciBusDeviceFunction(pci, dmar[n].seg, dmar[n].scopes[k]), dmar[n].base, dmar[n].limit>> :
                 k \in 1..Len(dmar[n].scopes)} : n \in regions}

\* What the program knows of the remapping units, of the exceptions and of
\* the reserved regions is what the DMAR table, the policy and the buses
\* imply, whatever the order of the table; a failed allocation costs its own
\* record and no other.
UnitsRight ==
  TablePrinted /\ UnitsExact /\ OneUnit /\ ArrayHolds /\ ExceptionsRight /\ RmrrComplete
=============================================================================
