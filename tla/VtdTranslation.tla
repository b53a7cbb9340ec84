--------------------------- MODULE VtdTranslation ---------------------------
(***************************************************************************)
(* The check that VtdDump (EdkiiShellToolPkg/VtdDump/VtdDump.c) makes of   *)
(* the translation tables: DumpIoMmuMap finds the list of the IOMMU        *)
(* driver's mappings with a probe mapping and prints it; then              *)
(* DumpVtdTranslation walks, for every VT-d unit, the root table, the      *)
(* context tables and four levels of page tables, and CheckPtEntry looks   *)
(* every accessible page up in the exception list, the reserved memory     *)
(* records and the mappings.  "Check PASS!!!" or "Check FAIL!!!" is the    *)
(* result.  Other drivers map and unmap meanwhile: the application runs at *)
(* TPL_APPLICATION and their timer events interrupt it.                    *)
(*                                                                         *)
(* Addresses count 4KB pages.  A page-table entry is a record; Zero stands *)
(* for an entry whose 64 bits are 0.  A loop over the list of mappings is  *)
(* one step for each mapping.                                              *)
(***************************************************************************)
EXTENDS Naturals, Sequences, FiniteSets, SequencesExt

CONSTANTS
  Machines,     \* initial states of tables, mappings and records
  TableSize,    \* entries of a page table, 512
  ContextSize,  \* VTD_CONTEXT_ENTRY_NUMBER, contexts of a bus
  FnPerDev,     \* functions of a device number, 8
  LargePages,   \* 4KB pages of a 2MB page, 512
  MaxOps        \* bound on the mappings other drivers make or undo

ASSUME SizesAssumption ==
  /\ {TableSize, ContextSize, FnPerDev, LargePages} \subseteq Nat \ {0}
  /\ ContextSize % 2 = 0 /\ MaxOps \in Nat

Zero  == [addr |-> 0, read |-> FALSE, write |-> FALSE, large |-> FALSE]
Probe == [name |-> "probe", addr |-> 0, pages |-> 1, handles |-> <<>>]
NoMap == [Probe EXCEPT !.name = "none"]

(***************************************************************************)
(* The tables in memory: a page holds TableSize entries, and an entry that *)
(* is not 0 and maps no page itself leads to a page of the next level.     *)
(***************************************************************************)
Entries == [addr : Nat, read : BOOLEAN, write : BOOLEAN, large : BOOLEAN]
EntriesOf(tables, pages) == {e \in UNION {Range(tables[p]) : p \in pages} : e # Zero}
Pages(entries) == {e.addr : e \in entries}

IsList(s) == s \in Seq(Range(s))
Distinct(s) == \A i, j \in 1..Len(s) : s[i] = s[j] => i = j
Units(m) == Range(m.units)
Buses(m) == UNION {Range(u.buses) : u \in Units(m)}
Contexts4(m) == {c \in UNION {Range(b.contexts) : b \in Buses(m)} : c.present}

\* The pages of each level.
Pages4(m) == {c.page : c \in Contexts4(m)}
Pages3(m) == Pages(EntriesOf(m.tables, Pages4(m)))
Pages2(m) == Pages(EntriesOf(m.tables, Pages3(m)))
Pages1(m) == Pages({e \in EntriesOf(m.tables, Pages2(m)) : ~e.large})

TablesForm(m) ==
  /\ \A p \in DOMAIN m.tables : m.tables[p] \in [1..TableSize -> Entries]
  /\ Pages4(m) \cup Pages3(m) \cup Pages2(m) \cup Pages1(m) \subseteq DOMAIN m.tables

RootForm(r) ==
  /\ {r.lower, r.upper} \subseteq BOOLEAN
  /\ DOMAIN r.contexts = 1..ContextSize /\ \A c \in Range(r.contexts) : c.present \in BOOLEAN

\* Mappings are different objects, and each region and each mapping has an
\* address and a length.
MachineForm(m) ==
  /\ m.iommu \in BOOLEAN
  /\ IsList(m.maps) /\ Distinct(m.maps) /\ {Probe, NoMap} \cap Range(m.maps) = {}
  /\ \A i \in Range(m.maps) : {i.addr, i.pages} \subseteq Nat
  /\ IsList(m.rmrr) /\ \A r \in Range(m.rmrr) : {r.base, r.pages} \subseteq Nat
  /\ IsList(m.units) /\ \A u \in Units(m) : u.ext \in BOOLEAN /\ IsList(u.buses)
  /\ \A r \in Buses(m) : RootForm(r)
  /\ TablesForm(m)

ASSUME MachinesAssumption == \A m \in Machines : MachineForm(m)

VARIABLES
  phase,         \* the step of VtdDumpEntrypoint
  machine,    \* units, page tables, exceptions and rmrr; fixed
  maps,       \* the IOMMU driver's list of MAP_INFO, from its head
  gMaps,      \* whether gMaps points to the list's head
  cursor,     \* the MAP_INFO that a loop over the list is at
  kept,       \* the mappings listed ever since that loop began
  unit,       \* Index of DumpVtdTranslation
  bus, ctx,   \* Index and Index2 of the context table walk
  levels,      \* page table and index at each level, level 4 first
  index,      \* Index of CheckPtEntry, the page of a 2MB entry
  checked,    \* CheckPtEntry calls that returned, in order
  errors,     \* "-- ERROR" lines printed, with the mappings kept
  mHasError,  \* mHasError
  ops         \* mappings made or undone by other drivers so far

translationVars == <<phase, machine, maps, gMaps, cursor, kept, unit, bus, ctx, levels, index,
          checked, errors, mHasError, ops>>
walkVars == <<unit, bus, ctx, levels, index, checked, errors, mHasError>>

TranslationInit ==
  /\ phase = "start" /\ machine \in Machines /\ maps = machine.maps
  /\ gMaps = FALSE /\ cursor = NoMap /\ kept = {}
  /\ unit = 1 /\ bus = 0 /\ ctx = 0 /\ levels = <<>> /\ index = 0
  /\ checked = <<>> /\ errors = {} /\ mHasError = FALSE /\ ops = 0

(***************************************************************************)
(* DumpIoMmuMap.                                                           *)
(***************************************************************************)
\* The protocol, the buffer and the probe's Map: each may fail.
MapProbe ==
  /\ phase = "start"
  /\ \/ machine.iommu /\ maps' = Append(maps, Probe) /\ phase' = "probe"
     \/ phase' = "translate" /\ UNCHANGED maps
  /\ UNCHANGED <<machine, gMaps, cursor, kept, walkVars, ops>>

UnmapProbe(ms) == RemoveFirst(ms, Probe)

\* A loop over the list starts with the tail, follows BackLink and ends at
\* the head.
LastMap(ms) == IF ms = <<>> THEN NoMap ELSE ms[Len(ms)]
MapBefore(m) ==
  LET k == CHOOSE k \in 1..Len(maps) : maps[k] = m IN IF k = 1 THEN NoMap ELSE maps[k - 1]

\* A mapping undone meanwhile is freed, also if one like it is made again:
\* it has no link and no handles that mean anything.
Dangling == cursor # NoMap /\ cursor \notin kept

\* GetIoMmuMapList follows the links from the probe to the only entry that
\* has no MAP_INFO_SIGNATURE, the head; then the probe is unmapped.
GetIoMmuMapList ==
  /\ phase = "probe"
  /\ gMaps' = TRUE
  /\ maps' = UnmapProbe(maps)
  /\ cursor' = LastMap(maps') /\ kept' = Range(maps')
  /\ phase' = "maps"
  /\ UNCHANGED <<machine, walkVars, ops>>

\* One mapping of DumpIoMmuMapList with its handles, and on along BackLink.
DumpIoMmuMapList ==
  /\ phase = "maps"
  /\ \/ cursor = NoMap /\ phase' = "translate" /\ kept' = {} /\ UNCHANGED cursor
     \/ cursor \in kept /\ cursor' = MapBefore(cursor) /\ UNCHANGED <<phase, kept>>
     \/ Dangling /\ phase' = "undefined" /\ UNCHANGED <<cursor, kept>>
  /\ UNCHANGED <<machine, maps, gMaps, walkVars, ops>>

(***************************************************************************)
(* DumpVtdTranslation: units, buses, contexts.                             *)
(***************************************************************************)
Unit == machine.units[unit]
Root == Unit.buses[bus + 1]
Location == <<Unit.seg, bus, ctx \div FnPerDev, ctx % FnPerDev>>

\* Contexts of a bus that are walked: with the extended format those of the
\* lower table, and none when that one is not present.
Contexts == IF ~Root.lower THEN 0 ELSE IF Unit.ext THEN ContextSize \div 2 ELSE ContextSize

NextBus == bus + 1

\* The end of DumpVtdTranslation: the verdict is printed.
Verdict ==
  /\ phase = "translate" /\ unit > Len(machine.units)
  /\ phase' = IF mHasError THEN "FAIL" ELSE "PASS"
  /\ UNCHANGED <<machine, maps, gMaps, cursor, kept, walkVars, ops>>

NextUnit ==
  /\ phase = "translate" /\ unit <= Len(machine.units) /\ bus >= Len(Unit.buses)
  /\ unit' = unit + 1 /\ bus' = 0
  /\ UNCHANGED <<phase, machine, maps, gMaps, cursor, kept, ctx, levels, index, checked, errors, mHasError, ops>>

\* A context of DumpDmarContextEntryTable or DumpDmarExtContextEntryTable.
DumpDmarContextEntryTable ==
  /\ phase = "translate" /\ unit <= Len(machine.units) /\ bus < Len(Unit.buses)
  /\ IF ctx >= Contexts
     THEN /\ bus' = NextBus /\ ctx' = 0 /\ UNCHANGED <<phase, levels>>
     ELSE LET c == Root.contexts[ctx + 1]
          IN IF c.present
             THEN phase' = "paging" /\ levels' = <<[page |-> c.page, idx |-> 1]>> /\ UNCHANGED <<bus, ctx>>
             ELSE ctx' = ctx + 1 /\ UNCHANGED <<phase, bus, levels>>
  /\ UNCHANGED <<machine, maps, gMaps, cursor, kept, unit, index, checked, errors, mHasError, ops>>

(***************************************************************************)
(* DumpSecondLevelPagingEntry: the four nested loops.                      *)
(***************************************************************************)
Top == levels[Len(levels)]
Entry == machine.tables[Top.page][Top.idx]
Level == 5 - Len(levels)

\* Mutant: the index of the loop around a finished one is not advanced.
AdvanceInnermost(s) == IF Len(s) = 4 THEN [s EXCEPT ![4].idx = @ + 1] ELSE s

\* The next entry of the innermost table.
Advance(s) == [s EXCEPT ![Len(s)].idx = @ + 1]

IsLeaf == Level = 1 \/ (Level = 2 /\ Entry.large)

\* A loop ends; the outermost one ends the walk of this context.
TableEnd ==
  /\ phase = "paging" /\ Top.idx > TableSize
  /\ IF Len(levels) = 1
     THEN levels' = <<>> /\ ctx' = ctx + 1 /\ phase' = "translate"
     ELSE levels' = Advance(SubSeq(levels, 1, Len(levels) - 1)) /\ UNCHANGED <<phase, ctx>>
  /\ UNCHANGED <<machine, maps, gMaps, cursor, kept, unit, bus, index, checked, errors, mHasError, ops>>

(***************************************************************************)
(* CheckPtEntry and its three lookups.  A location is <<segment, bus,      *)
(* device, function>>; the access of a page is its pair of bits.           *)
(***************************************************************************)
Access(e) == <<e.read, e.write>>
ExistInExceptionList(loc) == loc \in Range(machine.exceptions)

\* The range tests skip an address that is below the start and at or past
\* the end, so none; only the device counts.
Skipped(addr, base, pages) == addr < base /\ addr >= base + pages

ExistInRmrr(loc, addr) ==
  \E r \in Range(machine.rmrr) : ~Skipped(addr, r.base, r.pages) /\ r.loc = loc

\* A handle without PciIo, or whose location cannot be told, counts.
MapCovers(m, loc, addr, access) ==
  /\ ~Skipped(addr, m.addr, m.pages)
  /\ \E h \in Range(m.handles) : h.access = access /\ (~h.pci \/ h.loc = loc)

Size == IF Level = 1 THEN 1 ELSE LargePages
Page == Entry.addr + index

\* Mutant: the flag of an earlier page is lost.
LastErrorOnly(size, found) == size = 1 /\ ~found

\* mHasError is set for a 4KB page only.
HasError(size, found) == mHasError \/ (size = 1 /\ ~found)

\* ExistInIoMmuMap for the kth page starts at the tail of the list.
Lookup(k) == index' = k /\ cursor' = LastMap(maps) /\ kept' = Range(maps)

\* CheckPtEntry returns to the loop around it.
Return ==
  /\ checked' = Append(checked, [loc |-> Location, addr |-> Entry.addr, size |-> Size])
  /\ levels' = Advance(levels) /\ phase' = "paging"
  /\ index' = 0 /\ cursor' = NoMap /\ kept' = {}

\* The first page: gMaps is dereferenced when the mappings must be asked.
PassedOver ==
  \/ Access(Entry) = <<FALSE, FALSE>>
  \/ ExistInExceptionList(Location) \/ ExistInRmrr(Location, Entry.addr)

CheckPtEntry ==
  /\ IF PassedOver THEN Return
     ELSE /\ Lookup(0) /\ UNCHANGED <<levels, checked>>
          /\ phase' = IF gMaps THEN "lookup" ELSE "undefined"
  /\ UNCHANGED <<errors, mHasError>>

\* What is done with an answer; a large page goes on to its next page, up to
\* the first that is reserved.
Checked(found) ==
  /\ errors' = IF found THEN errors
               ELSE errors \cup {[loc |-> Location, addr |-> Page, access |-> Access(Entry), size |-> Size, kept |-> kept]}
  /\ mHasError' = HasError(Size, found)
  /\ IF index + 1 < Size /\ ~ExistInRmrr(Location, Page + 1)
     THEN Lookup(index + 1) /\ UNCHANGED <<phase, levels, checked>>
     ELSE Return

\* One mapping of the loop, or its end.
ExistInIoMmuMap ==
  /\ phase = "lookup"
  /\ \/ cursor = NoMap /\ Checked(FALSE)
     \/ /\ cursor \in kept /\ MapCovers(cursor, Location, Page, Access(Entry))
        /\ Checked(TRUE)
     \/ /\ cursor \in kept /\ ~MapCovers(cursor, Location, Page, Access(Entry))
        /\ cursor' = MapBefore(cursor)
        /\ UNCHANGED <<phase, kept, levels, index, checked, errors, mHasError>>
     \/ /\ Dangling /\ phase' = "undefined"
        /\ UNCHANGED <<cursor, kept, levels, index, checked, errors, mHasError>>
  /\ UNCHANGED <<machine, maps, gMaps, unit, bus, ctx, ops>>

\* An entry of a table: empty, the page of a table below, or a leaf.
TableEntry ==
  /\ phase = "paging" /\ Top.idx <= TableSize
  /\ \/ /\ Entry # Zero /\ IsLeaf /\ CheckPtEntry
     \/ /\ \/ Entry = Zero /\ levels' = Advance(levels)
           \/ Entry # Zero /\ ~IsLeaf /\ levels' = Append(levels, [page |-> Entry.addr, idx |-> 1])
        /\ UNCHANGED <<phase, cursor, kept, index, checked, errors, mHasError>>
  /\ UNCHANGED <<machine, maps, gMaps, unit, bus, ctx, ops>>

(***************************************************************************)
(* Other drivers, in timer events: the mapping of a transfer that starts   *)
(* or is over.                                                             *)
(***************************************************************************)
Running == phase \notin {"PASS", "FAIL", "undefined"}
DriverUnmap ==
  /\ Running /\ ops < MaxOps
  /\ \E m \in Range(maps) \ {Probe} : maps' = RemoveFirst(maps, m) /\ kept' = kept \ {m}
  /\ ops' = ops + 1
  /\ UNCHANGED <<phase, machine, gMaps, cursor, walkVars>>

DriverMap ==
  /\ Running /\ ops < MaxOps
  /\ \E m \in Range(machine.maps) \ Range(maps) : maps' = Append(maps, m)
  /\ ops' = ops + 1
  /\ UNCHANGED <<phase, machine, gMaps, cursor, kept, walkVars>>

Application ==
  \/ MapProbe \/ GetIoMmuMapList \/ DumpIoMmuMapList \/ Verdict \/ NextUnit
  \/ DumpDmarContextEntryTable \/ TableEnd \/ TableEntry \/ ExistInIoMmuMap

Over == ~Running /\ UNCHANGED translationVars

TranslationNext == Application \/ DriverMap \/ DriverUnmap \/ Over

\* The application goes on after each event.
TranslationSpec == TranslationInit /\ [][TranslationNext]_translationVars /\ WF_translationVars(Application)
-----------------------------------------------------------------------------
(***************************************************************************)
(* A reference definition of what there is to check: the leaves below a    *)
(* context as a set, level by level.  <<u, b, c>> is a context of a bus of *)
(* a unit.                                                                 *)
(***************************************************************************)
Leaves(tables, page) ==
  LET l4 == EntriesOf(tables, {page})
      l3 == EntriesOf(tables, Pages(l4))
      l2 == EntriesOf(tables, Pages(l3))
      l1 == EntriesOf(tables, Pages({e \in l2 : ~e.large}))
  IN {[entry |-> e, size |-> 1] : e \in l1} \cup {[entry |-> e, size |-> LargePages] : e \in {e \in l2 : e.large}}

\* Every context that translates: of both halves in the extended format.
Places(m) ==
  UNION {{u} \X (0..(Len(m.units[u].buses) - 1)) \X (0..(ContextSize - 1)) : u \in 1..Len(m.units)}
RootAt(m, x) == m.units[x[1]].buses[x[2] + 1]
ContextAt(m, x) == RootAt(m, x).contexts[x[3] + 1]
IsUpper(m, x) == m.units[x[1]].ext /\ x[3] >= ContextSize \div 2
Translating(m) ==
  {x \in Places(m) : (IF IsUpper(m, x) THEN RootAt(m, x).upper ELSE RootAt(m, x).lower) /\ ContextAt(m, x).present}
Walked(m) == {x \in Translating(m) : ~IsUpper(m, x)}

LocationAt(m, x) == <<m.units[x[1]].seg, x[2], x[3] \div FnPerDev, x[3] % FnPerDev>>
LeavesAt(m, x) == Leaves(m.tables, ContextAt(m, x).page)
CalledFor(m, x) == {[loc |-> LocationAt(m, x), addr |-> l.entry.addr, size |-> l.size] : l \in LeavesAt(m, x)}

Finished == phase \in {"PASS", "FAIL"}

\* When the verdict is printed, CheckPtEntry has been called for exactly the
\* pages that the tables of the walked contexts map, once for each context
\* (DumpDmarContextEntryTable, DumpSecondLevelPagingEntry: four loops whose
\* inner ones are left at different levels).
LeavesChecked ==
  Finished => Range(checked) = UNION {CalledFor(machine, x) : x \in Walked(machine)}

\* What explains a page: an exception of the device, a reserved region or a
\* mapping that the address is in.
InRegion(r, loc, addr) == r.loc = loc /\ addr \in r.base..(r.base + r.pages - 1)
InMapping(m, loc, addr, access) ==
  /\ addr \in m.addr..(m.addr + m.pages - 1)
  /\ \E h \in Range(m.handles) : h.access = access /\ (h.pci => h.loc = loc)

\* No false alarm: an error line is about an accessible page that no
\* exception and no reserved region explains, nor any mapping listed for as
\* long as the lookup took, whatever was mapped and unmapped beside it
\* (ExistInIoMmuMap follows links that timer events change).
NoFalseAlarm ==
  \A e \in errors :
    /\ e.access # <<FALSE, FALSE>> /\ e.loc \notin Range(machine.exceptions)
    /\ \A r \in Range(machine.rmrr) : ~InRegion(r, e.loc, e.addr)
    /\ \A m \in e.kept : ~InMapping(m, e.loc, e.addr, e.access)

\* An accessible page of a device that has no exception, no reserved region
\* and no handle with this access in any mapping that the drivers make.
Unknown(m, loc, e) ==
  /\ Access(e) # <<FALSE, FALSE>>
  /\ loc \notin Range(m.exceptions)
  /\ \A r \in Range(m.rmrr) : r.loc # loc
  /\ \A i \in Range(m.maps) : \A h \in Range(i.handles) : h.access = Access(e) => h.pci /\ h.loc # loc

\* Each page of an unknown device is reported, and the verdict is "Check
\* FAIL!!!" exactly when a 4KB page was: error lines about pages of 2MB
\* stand above "Check PASS!!!".  A page outside the mappings of a device
\* that has one is not reported, as the range tests skip nothing (lines 306
\* and 564), so nothing is said of it.
UnknownReported ==
  Finished =>
    /\ (phase = "FAIL") = \E e \in errors : e.size = 1
    /\ \A x \in Walked(machine) : \A l \in LeavesAt(machine, x) :
         Unknown(machine, LocationAt(machine, x), l.entry) =>
           \A k \in 0..(l.size - 1) :
             \E e \in errors : e.loc = LocationAt(machine, x) /\ e.addr = l.entry.addr + k /\ e.size = l.size

\* The probe mapping that DumpIoMmuMap makes to find the list is gone again
\* when the list is printed and the tables are checked: it would be taken
\* for one of a driver.
ProbeGone == phase \in {"maps", "translate", "paging", "lookup"} => Probe \notin Range(maps)

\* The check of the translation tables is of all their pages, against the
\* drivers' mappings only; it raises no false alarm while those change, and
\* misses no page of a device that has none.
CheckRight == LeavesChecked /\ NoFalseAlarm /\ UnknownReported /\ ProbeGone
=============================================================================
