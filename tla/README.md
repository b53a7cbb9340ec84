# Verification of the EDKII shell dump tools

TLA+ models of the debug tools in `src/`, the TLC runs that check them on small
instances, and TLAPS proofs of what matters most. The repository holds two
packages of UEFI programs, `EdkiiShellToolPkg` and `AcpiToolPkg`. Most of them
are short-lived, single-threaded shell applications that find a data structure
in memory, walk over it, and print it. What they can get wrong is the walk: the
arithmetic of lengths and offsets, the agreement between a pass that counts and a
pass that fills, a status that is not looked at, a static or a counter that
outlives the thing it belongs to. Beside them runs the firmware they look at: an
SMI handler that shares a buffer, event handlers that change the lists being
walked, drivers that map and unmap, measurements that extend a log, page faults that
extend a profile.

## 1. Inventory

### SmmCoreDump

`EdkiiShellToolPkg/EdkiiCoreDatabaseDump/SmmCoreDump` is the
one tool with two programs. The *driver* runs in SMM when the platform locks
SMRAM: it lists the SMM images, finds the private lists of the SMM core
by installing a protocol and SMI handlers and following the links from its own
nodes, computes the size of a database (`GetSmmCoreDatabaseSize`), fills it
(`GetSmmCoreDatabaseData`) and registers an SMI handler. The *application* runs
later in the shell: it fetches the database through a communication buffer of
limited size, piece by piece, and then walks it once per section of its
report. State: the core's lists, the image table and its count, the database, the
request header and data window in the communication region, the offset of the
loop, the cursor of each walk. Interaction: the window is written by the handler
and read by the application; the request header is written by both, and the
handler advances `DumpOffset` in it. Hard behaviour: a `Communicate` that fails in
the middle, in a build whose `ASSERT_EFI_ERROR` is empty; probes that must not
leave anything behind; two passes that must agree to the byte; a table filled
after its count was taken. Correct means: the application prints the lists of
the platform, complete and in order, with the right image names, or nothing.
**SmmChildDumpLib** adds a last section to the database, from the software SMI
dispatcher of the Nt32 platform or not at all.

### DxeCoreDumpApp, PeiCoreDump, PeiCoreDumpApp

**DxeCoreDumpApp** has no driver: it finds the heads of the DXE core's lists of
handles, protocols, events and timers from entries of its own, and walks the live lists at
application level. Every event handler at a higher TPL may enter, remove or
signal entries between two of its steps, or enter one again at another place while the walk stands on it. Correct means: entries nobody touches are
printed, once, unless the entry under the cursor was moved past them, and the application's own event is not.

**PeiCoreDump** counts the PEIMs and PPIs, makes a GUIDed HOB of the
size it computed, and fills it; **PeiCoreDumpApp** finds it in the shell and walks
it by the lengths inside. Correct means: everything written is inside the HOB and
comes out again under its name, list and index.

The **support files** (three copies that differ in an include) are used by all three:
file helpers over the volumes of the machine, tokenizers that cut a text buffer in
place, and the table of GUID names made from `Guid.xref` with them. The image
table names the image that holds an address.

### ACPI

**The ACPI table libraries** (`AcpiToolPkg/Library/DumpAcpi/*`) register one dump
function per table signature. Seventeen of them iterate over structures inside the table,
some over structures within those. State: a cursor, a counter of bytes or
entries left, a `TableLen` that some of them charge. Hard behaviour: the cursor
and the counter are advanced by separate expressions, in an order that matters,
with nothing to fall back on when they disagree. Correct means: every structure
shown once, in order, nothing outside the table interpreted, and an end.
The **TCPA library** also follows the log area of a TPM 1.2, whose used part ends
where the bytes look unused.

**DumpACPI** (`AcpiToolPkg/DumpAcpi`) parses the command line, finds the RSDP and
the root tables, and passes every table of the machine, or those of one
signature, to the registered function. DSDT, SSDT and PSDT are also written to
numbered `.aml` files. State: the registry of functions (an array of fixed
size, filled by the constructors of the libraries before the application adds its own), the root table cursor, the FACS and DSDT a
FADT led to, a static file counter per kind. Hard behaviour: NULL pointers in the
root table, 32- and 64-bit pointers side by side, a full registry, and any of
seven file system calls failing for any table, after which an array on the stack is given to `FreePool`.

### The larger shell tools

**Tcg2DumpLog** prints the TCG event log in both formats and the final events
table, recalculates the PCRs from them, writes the log to a file and parses such a file.
State: the cursor, `NumberOfEvents`, the digest registers, the loop counters over formats,
PCRs and algorithms. Firmware goes on measuring, and an event measured after
`GetEventLog` is in the log and in the table. Correct means: each event met at
its start, shown once, and expected values that are those of the TPM.

**VtdDump** reads the DMAR table, registers the PCI functions each remapping unit
is responsible for (a recursive bus scan into an array that grows), records
reserved regions and excepted devices, and then checks the
translation tables page by page against the list of mappings that drivers have
made. It finds that list with a mapping of its own; timer events map and unmap meanwhile, also between two links of a lookup.

**PcdDump** dumps PCD databases from a HOB, a file, a firmware volume on flash or in memory, the
protocols, or the default variable stores of a VPD image. Delta blocks, file and section
headers and variables are all stepped over with their own alignments. Correct means: what
is printed is what the database or the store was built with.

### The smaller ones

**GetPciOprom** follows the chain of images in an option ROM and saves them.
**PatchMicrocode** asks or patches one processor after the other and computes the
checksums of an update. **SmmProfileDump** records the memory map in a buffer whose
allocation changes the map, then shows the page faults that the SMM profile has and
that SMIs go on adding. **EsrtFmpDump** shows firmware management descriptors, capsules
of the HOB list and the ESRT, each section whatever failed in the one before.

### Not modelled

| Part | Why |
|---|---|
| HstiWsmtDump | three segments of equal length whose fields are printed |
| HobList, Gcd, GcdSet | the HOB walk is the one of EsrtFmpDump; the rest passes on what services return |
| MemoryAttributesDump, MemoryTypeInfo | one loop over entries of one size |
| AtaInfo, ScsiInfo, UsbInfo | device queries and field printing; nothing is kept between them |
| DbxEnroll, BootOption | a few variable services behind a command line; their file helpers are in `FileAccess` |
| StackUsage, SmiPerf, GetVariablePerf, DummyRt, InitSerial, DumpVirtioPciDev | timing, registers, the compiler's stack use |
| ACPI libraries of fixed-field tables, IBFT, SLIT | field printing at fixed offsets |

Partly modelled: the printing of SMI contexts in SmmChildDumpLib, the hex dumps of
DumpAcpiTableFuncLib, and the ACPI search behind `-A` of Tcg2DumpLog, which repeats DumpACPI, are left out.
`PROJECT.json` lists all parts with their sources, and every hazard with the
line at which it bites.

## 2. Modules

| Module | Models |
|---|---|
| `SmmCoreDumpTransfer` | `GetSmmCoreDatabase` of the application against `SmmCoreDumpHandler` |
| `DumpSnapshot` | what the transfer promises: an atomic copy, or none |
| `SmmCoreDatabase` | the record layout, the size pass and the data pass, as operators |
| `SmmCoreAgent` | the driver, one action per step of `SmmReadyToLockInSmmCoreDump` |
| `SmmCoreDumpApp` | the seven walks of the application over the database |
| `SmmCoreDumpSystem` | driver and application together, with the transfer as in `DumpSnapshot` |
| `AcpiTableFormats` | the walks of the seventeen libraries, as data |
| `AcpiTableDump` | the loop that all of them write out |
| `DumpACPI` | the application |
| `Tcg2DumpLog`, `TcpaLogArea` | the two readers of TCG logs |
| `VtdUnits`, `VtdTranslation` | registration from the DMAR table; check of the translation tables |
| `PcdLayout`, `PcdDatabase`, `PcdNvStore`, `PcdSources` | alignment; a database; the NV stores; the way from an option to one of them |
| `DxeCoreDump`, `PeiCoreDump` | the walks of live lists; the HOB, written and read |
| `FileAccess`, `GuidNames`, `ImageNames` | the support files and the image table |
| `PciOprom`, `PatchMicrocode`, `SmmProfileDump`, `EsrtFmpDump` | the four smaller tools |
| `SmmCoreDumpTransferProofs`, `SmmCoreAgentProofs`, `SmmCoreReportProofs`, `DxeCoreDumpProofs`, `AcpiTableDumpProofs`, `DumpACPIProofs`, `VtdDumpProofs`, `ShellToolsProofs` | theorems (section 4) |
| `MC*` | instances for TLC |

`MCTcgLogs`, `MCVtdDump`, `MCPcdDump`, `MCCoreDumps` and `MCShellTools` put
several parts into one instance. Where these parts share nothing, or one of them only hands a
value to the other, a behaviour is one of the parts at work, from any of its inputs,
while the others rest in an initial state; a variable `tool` or `part` says which. The parts that do
interact (driver, handler and application of SmmCoreDump; DXE dump and event handlers; VtdDump and drivers;
Tcg2DumpLog and measurements; SmmProfileDump and SMIs) run interleaved.

### How state and actions correspond to the code

One action is one stretch of code between two calls that leave the program, or one
round of a loop; each call that can fail has an alternative for its failure. A variable
`pc` (`tpc`, `npc`, `spc` and so on, where modules are put together) names the place. Its
value `"assert"` or `"asserted"` is a failed `ASSERT` of a DEBUG build, `"undefined"` or
`"freed"` stands for going on with a pointer or a buffer that is not valid; nothing is said of what the program does then. Other variables have
the names of the C variables they are, or are said to be one in a comment.

*SmmCoreDumpTransfer.* `comm` is the request header
(`Command`, `Length`, `ReturnStatus`, `DumpSize`, `DumpOffset`), `window` the
bytes behind it, `appDatabase`, `appSize` and `offset` are the application's
locals. `SmmCoreDumpHandler` is a
function of the request, because in SMM nothing runs beside it.
`AssertsEnabled` tells a DEBUG build from a RELEASE build, which goes on behind a failed `ASSERT`.

*SmmCoreDatabase*, and in the same way *PeiCoreDump*, *PcdDatabase*, *PcdNvStore*: memory is a function from
offsets to what is read through a pointer at that offset. Sizes are those of the C
structures or distinct small values, so that an item placed or sought with the wrong size or after
the wrong group is at the wrong offset. What is read is computed with the program's own arithmetic; the layout is
made by the MC module, the way the build tool or the firmware makes it.

*AcpiTableDump.* Every library has its own copy of the same loop, with small differences. The
differences are the content of `AcpiTableFormats`: which structure types a
walk knows, what it does with others, by what the cursor moves (the `Length`
field, the size of the C structure, a fixed entry size), what the counter is charged (the same
`Length`, the `Length` found after the move, a variable that keeps its last value,
one entry), what walk runs inside a structure, and what walk follows. The
loop has a stack of frames, one per walk under way, with cursor `at`, counter `left`,
`tableLen`, and `seen` when the structure at the cursor has been interpreted. A structure carries its
`owner`, the structure or table that contains it; the code has no such field and
no action reads it except to tell where a structure belongs in a property. A
cursor at an address where no structure starts is `tpc = "astray"`: the code would
interpret those bytes, and nothing can be said of what it prints.

*DumpACPI* keeps the addresses of what was dumped and by which function, in
`out`. The `.aml` files are a function from kind and number to the table and the
length of the file. `IoCalls` abstracts the seven calls around one file to whether the
file exists and is written afterwards. Behind a call that failed the code frees `FileName`, an array on the stack: the run goes on, or is
`"undefined"`.

*Tcg2DumpLog, TcpaLogArea.* Memory is a sequence of cells, so that a step by the wrong size lands inside
an event. Hashing is free of collisions: a register is the sequence of digests it was extended with. `Measure` is
the firmware's action; it appends to the log and, once `GetEventLog` was called, to the table. It may come between any two rounds, and between the last test of the loop
over the table (`TableEnd`) and the reading of the PCRs that follows it (`WalkEnd`); `counted` and `read` are the events there were at each. Strings in event data are followed to their
NUL and device paths to their end node, wherever that is.

*VtdUnits.* The recursion of `ScanPciBus` is a stack of frames, a step is one function
number. What there was no memory for is in `lostRmrr` and `lostExceptions`, which are history. *VtdTranslation.* The loops over units, buses, contexts and four table levels are a
cursor. `CheckPtEntry` begins with the exceptions and reserved regions, and its lookup in the live list is a loop of its own, one mapping a step, as is the printing of the list; `DriverMap` and
`DriverUnmap` are the drivers' actions, between any two of these. `kept` holds the mappings listed ever since such a loop began: a cursor that is no longer among them stands on freed memory.

*DxeCoreDump.* A list is the sequence of its entries, the cursor an entry of it. What the DXE core does for handlers is an action each:
interfaces are installed, reinstalled and uninstalled, notifications registered, events made and closed, timers armed wherever they were before (by
`SetTimer` or, for a periodic timer, by the tick) and cancelled or expired for good. A timer that left its list keeps its links (`back`), so a walk that stands on it goes on; an interface or event that was
freed does not. `due` holds what must still be printed of the lists under way, `again` what was printed twice, and `moved` the interfaces that were
entered again; they are history for the properties. An entry leaves `due` when it is printed, when a handler touches it, and when a handler moves the entry under the cursor past it.

*FileAccess.* A helper is a sequence of calls as data: what a call acquires, what is
released when it fails and when it succeeds. A scan takes an array of volume handles first (`handleBuffer`), which no path gives back. *GuidNames.* A pointer is a position in the text, which the tokenizers
overwrite as the code does.

Slips for mutation testing stand next to the definition they change and are named for the slip; no specification
uses them, and `PROJECT.json` lists them under `mutants`.

## 3. Runs

| Run | Properties | Shows |
|---|---|---|
| `transfer_release` | `TypeOK` `TransferFaithful` `StoreInBounds` `TransferTerminates` `ImplementsSnapshot` | With empty ASSERTs and failing calls a finished transfer is still exact: a failed call leaves `DumpOffset` as it was, so the wrong bytes it copies are overwritten by the next turn |
| `transfer_debug` | `FreshAnswer` | With ASSERTs only answers to the current request are copied |
| `smm_core_system` | `PassesAgree` `ProbesLeaveNoTrace` `ReportRight` `WalksFinish` | The size pass and the data pass agree, the probes disappear, and the report is the platform's lists |
| `smm_image_table` | `AddImageStructAssert` (violated) | see Findings |
| `acpi_walks` | `TypeOK` `OnStructure` `LengthWalksOnStructure` `OutputExact` `DumpTerminates` | The walks without a defect are exact on well-formed tables; those with one go wrong only after the last structure, or only at their own level |
| `dump_acpi` | `TablesRight` `AmlFilesMatch` `RunEnds` | `-s` shows exactly its part of the full dump; the dispatch is right with a full registry; file numbers follow the output whatever fails, as long as the run survives freeing an array on the stack |
| `tcg_logs` | `EventsRight` `ExpectedRight` `AreaRight` `LogsEnd` | Both formats, the table, the file and the TPM 1.2 log area are met event by event; expected PCRs are those that the TPM has when they are printed, up to what firmware measured since the table was walked |
| `tcg2_all_pcrs` | `AllPcrsExpected` (violated) | see Findings |
| `vtd_dump` | `UnitsRight` `CheckRight` `DumpEnds` | Each function is under the unit that translates it, and what memory was short for is missing alone; every page is checked, none that a record or a lasting mapping explains is reported, and every page of a device that nothing is known of is |
| `pcd_dump` | `DatabaseRight` `NvStoreRight` `SourcesRight` `PcdDumpEnds` | Every option prints what the database or store was built with, from the place the option names, under one of the names of a delta block, and misses an image only where a call on the volumes failed |
| `core_dumps` | `ListsShown` `HobCarries` `CoreDumpsEnd` | Handlers hide no untouched entry unless they move the one under the cursor past it, and repeat none that does not move; the HOB holds and carries what PEI wrote |
| `shell_tools` | `FilesRight` `NamesRight` `RomRight` `ProcessorsRight` `ProfileRight` `FirmwareRight` `ToolsEnd` | The support files and the four smaller tools, with every call failing; a scan leaks its array of handles and nothing else |

`ReportRight`, `OutputExact`, `TablesRight`, `EventsRight`, `AreaRight`, `UnitsRight`, `CheckRight`,
`DatabaseRight`, `NvStoreRight`, `SourcesRight`, `ListsShown`, `HobCarries` and the invariants of
`shell_tools` are conjunctions; each conjunct is a definition of its own above it, with
its own statement. Every property of a passing run has a mutant in `PROJECT.json`: a plausible slip in one
definition that makes TLC report this property.

Some properties have a condition because the code is right only under it. `DumpedAll` and `OnStructure` leave out tables in
which a library charges a wrong length. `SignSelects` is about runs that end, a NULL entry faults.
`AmlFilesMatch` and `RunEnds` say nothing of a run behind the `FreePool` of an array on the stack that did not return.
`ShownOnce` and `ExpectedRight` of Tcg2DumpLog are about the first run since events
were logged; `ExpectedRight` allows for the events measured between the last test of the loop over the table and the reading of the PCRs, which the code
cannot have seen, and for values without memory for a hash. `WithinEvent` is about events whose strings and device path end inside them (`Closed`), as
`%a` has no other end. `NoFalseAlarm` excuses an error line only by mappings that were listed during the whole lookup. `UnknownReported` is
about devices without any mapping of this access: the range tests exclude nothing, so that a page outside the mappings of a device that has one is not reported. It knows that an error in a page of 2MB does not
reach the verdict. `NvSkuValuesRight` asks for one of the names of a delta block, since the code prints the first for all. `ImageFound` excepts volumes, lists and
sections that could not be read. `NothingMissed` is about walks that do not stop on a freed entry, and about entries that the cursor was not moved past.
`ShownOnce` of DxeCoreDump excepts timers, which a walk may come back to, and interfaces entered again. `TableExact` excepts a read that succeeds without a
buffer. `MapBufferOwned` allows undefined behaviour after a failed allocation. Section 5 has the lines.

### Bounds

* Transfer: databases of up to 4 bytes over 2 byte values, windows of 1 and 2
  bytes, 2 failing calls, region tables with no usable entry, with the usable entry behind
  others, and with several. A database needs up to four requests, the last one
  full or partial; two failures can hit the same request or two. Two byte values
  tell a stale window from a fresh one.
* System: up to three SMM images with and without the core among them, up to two
  handles and three interfaces (inside an image, outside with and without a known
  protocol), notifications, up to two SMI types and a root handler, the child library
  absent, not found, empty and filled. 33,568 states.
* ACPI tables: up to `MaxBody = 3` structures at the outer level of every kind a library
  knows, structures of unknown type, filled and empty inner regions. Three suffice for the loop defects: the
  counter error of one structure shows at the next and needs one more behind it.
* DumpACPI: root tables with up to three entries, FADTs of both pointer widths, all
  options, `MaxFuncs = 7` so that the registry is filled to the last slot, two file
  system failures. 71,240 states.
* TCG logs: two PCRs (`MaxPcrIndex = 1`), boots of one to three events with all data layouts of variable
  length, up to `MaxEvents = 3` events in all, so that one or two are measured while the tool runs, at any step; one value calculated without memory for a hash
  (`MaxShortages = 1`); one and three algorithms, two runs in a row (the second meets the table of the first). Log areas of up to two entries of each
  layout, full and with 0xFF or zeros behind. 114,795 states.
* VtdDump: two segments, buses three deep, device and function numbers 0 and 1, arrays that grow by
  `DataNumber = 2` so that one grows in the middle of a scan; up to three units in any order. Tables of
  `TableSize = 2` entries over four levels with leaves on two, four contexts of two functions, large pages of 2, two driver operations at any step, of which one can unmap the mapping under the cursor and the other map beside it; any allocation fails. 273,902 states.
* PcdDump: databases of one to three tokens of every type and size with two other SKUs; stores of up to two variables and two
  delta blocks in both formats, a block for one or two pairs of SKU and default id, with sizes on and off the alignments; volumes of up to two files of up to two sections with both
  header sizes, an extended header and free space. Two blocks show a missing realignment between them. Any call on a volume fails. 515,909 states.
* Core dumps: two or three handles, two protocols, three events, `MaxHandlers = 2` changes at any point (one under the cursor and
  one elsewhere, entering and removing again, or a timer that leaves under the cursor and is armed again); one or two volumes of up to two PEIMs with NULL and unnamed ones, up to two PPIs with holes. 322,192 states.
* Shell tools: one to three volumes, directories of three entries; GUID files of up to four symbols, and of two or three lines; PDB
  paths of up to `MaxPdb = 4` characters with `NAME_STRING_LENGTH = 3`; ROMs of up to three images with gaps; one to three
  processors, words modulo `Word = 4` so that sums overflow; a map split up to `MaxSplits = 2` times by its allocation, one failed
  allocation, profiles up to `MaxDataEntries = 3` entries; up to three FMP instances with descriptors shorter, equal and longer than the known structure. 186,650 states.

### Fairness

Every program is one thread and blocks nowhere, so the specifications assume weak fairness of
the program's next step, and nothing of the environment. How often calls fail is
bounded by `MaxFailures`, `MaxIoFailures`, `MaxShortages` and `MaxProfileAllocFailures`, without the first of which the transfer loop of a
RELEASE build would retry for ever; the termination properties are about runs in which the firmware
fails finitely often. Event handlers, driver mappings, measurements and SMIs have no fairness and are bounded in number
(`MaxHandlers`, `MaxOps`, `MaxEvents`, `MaxDataEntries`): with handlers that enter timers for ever the walk over the timer list need not end. `AcpiTableDump` has no fairness on `BeginDump`, a dump need
not be asked for. Runs end when the program ends, so deadlock is not checked
(in `vtd_dump` the ended program has a step of its own, and it is);
the termination properties take its place.

## 4. Proofs

Each proof module EXTENDS its component (`ShellToolsProofs` five of them, `AcpiTableDumpProofs` and `VtdDumpProofs` two, which share nothing; `SmmCoreReportProofs` the proofs about the driver, too) and has the same plan: an inductive invariant, a lemma that the initial states satisfy it, one lemma or step per action, and the theorems.

| Theorem | For |
|---|---|
| `SmmCoreDumpTransferProofs`: `TypeCorrect`, `Faithful`, `InBounds`, `Fresh`, `Refinement` of `DumpSnapshot` | every database, region table, window size and number of failures |
| `SmmCoreAgentProofs`: `PassesAgreeAlways`, `ProbesUndoneAlways` | lists and images of any length |
| `SmmCoreReportProofs`: `SystemInvariant`, `NeverDerailsAlways` | the same, whatever the image tables hold |
| `SmmCoreReportProofs`: `ReportRightAlways` | the same, on every platform whose image tables agree (`TablesAgree`) |
| `DxeCoreDumpProofs`: `DumpInvariant`, `DxeListsShown` | every set of handles, protocols and events, any number of handlers at any point, which arm, cancel and reinstall, too |
| `AcpiTableDumpProofs`: `TypeCorrect`, `LengthWalks`, `AllWalksOnStructure` | every set of well-formed memories |
| `AcpiTableDumpProofs`: `LogAreaRight` | every set of TCPA tables whose log areas firmware filled from the start |
| `DumpACPIProofs`: `AppInvariant`, `TablesAreRight`, `AmlFilesHold` | every machine, command line, list of libraries, set of left files and number of failing calls, up to a `FreePool` that does not return |
| `VtdDumpProofs`: `VtdInvariant`, `CheckRightAlways` | every set of units, tables, mappings, exceptions and regions, any number of mappings made and undone meanwhile, between any two links of a lookup |
| `VtdDumpProofs`: `UnitsInvariant`, `UnitsRightAlways` | every set of DMAR tables, buses and policies of the form below, arrays of any length, any allocation that fails |
| `ShellToolsProofs`: `McuInvariant`, `ProcessorsAreRight` | any number of processors, updates of any length, any width of a word |
| `ShellToolsProofs`: `ProfileInvariant`, `ProfileIsRight` | every map, image table and profile, any number of splits and page faults |
| `ShellToolsProofs`: `OpromInvariant`, `RomRightAlways` | every platform and command line, ROMs of any number of images with gaps of any length, whichever file calls fail |
| `ShellToolsProofs`: `EsrtInvariant`, `FirmwareRightAlways` | firmware with any number of protocols, descriptors of any size, capsules and payloads, whichever calls fail |
| `ShellToolsProofs`: `FilesInvariant`, `FilesAreRight` | any number of volumes, any contents, data and directory, whichever calls fail |

### Assumptions

Each is named, stands in the module that declares the constants, and is evaluated by TLC on the instances.

* `TransferAssumption`: the constants are of their types and the region is larger than the request header, as 10 pages
  and a header of a few words are.
* `PlatformsAssumption`: lists are lists, addresses are numbers, and nothing bears the GUID of this driver before it runs.
* `TablesAgree`, the hypothesis of `ReportRightAlways` and of no other theorem: what the SMM handle database has, the UEFI handle
  database has too; with the core in it, it has all that the UEFI one has in SMRAM; images do not overlap; and without the core the
  UEFI images outnumber both. Without the last `AddImageStruct` meets a full table, which `smm_image_table` shows, so
  `ReportRight` cannot be had without it. `RoomyTablesAgree` of `MCSmmCoreDump` has TLC evaluate it for every platform of `smm_core_system`.
* `ListsAssumption`: handles and events are different objects; links and back links of the lists agree when the application starts.
* `MemoriesAssumption`: the tables are well-formed: the next structure starts where the `Length` of one ends, a structure lies inside
  its owner, and counts, sizes and last flags say what is there.
* `AreasAssumption`: the entries of a log area lie one behind the other from its first cell on, the data of a platform specific
  event lies inside its entry, and every cell behind the last entry is the unused byte, 0 or 0xFF.
* `AppAssumption`: the length of a root table is that of its entries, there is at most one FADT, which alone
  leads to the FACS and the DSDT, and the registry has room for the libraries that are linked in. The last about
  `DUMP_ACPI_TABLE_FUNC_MAX_NUMBER`, 256 for fewer than 50 libraries; the instance has a bound that is just reached.
  With two FADTs `-s FACS` would show that of the last one only.
* `MachinesAssumption`: a page holds `TableSize` entries, an entry that is not 0 and is no leaf leads to a page of the next level, a bus has
  `VTD_CONTEXT_ENTRY_NUMBER` contexts, mappings are different objects, addresses and lengths are numbers.
* `DmarAssumption`: numbers and lists are that; every function the scan can reach answers where the scan asks (device and
  function numbers in range, a function other than 0 only where function 0 is multi-function or does not answer). The firmware's DMAR table gives a function to one unit:
  what a unit with scopes of its own has, no unit before it in the table has, and the unit that includes all stands behind those of its segment. Without it a function
  would be in two arrays: in `RegisterPciDevice` only a unit that includes all asks the units before it.
  Where allocations may fail, an I/O APIC or HPET that answers as a PCI function has been found by the scan of the including unit: `ProcessDhrd` (line 2229)
  goes on after any error of such a scope, "already registered" and "out of resources" alike, so that otherwise a function would be missing though no error is reported.
* `McuAssumption`: the processor that boots is enabled; the fields of an update are words.
* `ProfileAssumption`: a memory map has an entry.
* `OpromAssumption`: an option ROM begins with an image, as the assertion at `GetPciOprom.c:276` says, no image is empty, and its machine is one of the
  names of `GetMachineTypeName`; locations and identifiers are numbers.
* `FirmwareAssumption`: descriptors have a size, no two payloads of a capsule lie at the same offset, numbers and lists are that.
* `WorldsAssumption`: there is a volume, and files are sequences of bytes.

### Inductive invariants

*SmmCoreDumpTransfer.* `TransferFaithful` speaks of the end, and a step that stores a chunk must
know that what the window holds belongs at `offset`, or that the header still asks for it. `LoopInv`: below the `DumpOffset` of the
request, or below `offset` in the middle of a turn, the buffer equals the driver's database; the handler has advanced
`DumpOffset` exactly when the window is fresh; and the chunk fits.

*SmmCoreAgent.* `AgentInv` says what the lists of the core are at each step of the driver, as a function of what they were: the
probe is in them or is not, and what remains of it is an empty protocol entry at the end. `PassesAgree` then follows from
lemmas about the layout: each group of records has the size the first pass adds up for it, by induction over
the list (`SizesAre`, `ProtocolRecordIs` and their siblings), and the groups join without a gap.

*DxeCoreDump.* `ListsShown` speaks of what was printed at the end of a walk. A handler may change the list between any two
rounds, so the invariant must say what is true of a cursor in the middle: `Cursor`, what is due is still ahead of it on the list and what was printed
is not, but for interfaces that were entered again, unless the entry under the cursor was removed and then nothing that the walk reaches from it counts. The walk over the timers also goes on from
a timer that has left the list, by the back link it kept, perhaps to another one that has left: `Trailing` says of a set of timers closed under these links that whatever of it is on the list has what is due
before it, so that a handler that arms one of them again only changes what it was moved past (`TimerCursor`, `Trail`). `ListsInv`: each entry is once on its list,
a handle has a protocol exactly when the protocol has the handle, and `DummyEvent` is on a list only during the search. `StageInv` orders the
walks, with the walk inside an entry below that of the entry. `GoneInv`: what is due is on its list, and what was printed and is no longer on its list was freed, timers excepted.

*SmmCoreReportProofs.* The application reads what the driver wrote, so the invariant of one is about the memory of the other. `Written`
says of a buffer that it has a record at an offset: its header, and each item at the place that the counts in the header lead to.
`DatabaseFollowed`: when the data pass succeeds, the buffer has the chain of the records of the lists, one behind the
other, in the order of the seven walks. `Walking` ties a walk to that chain: the cursor is at record `j`, or behind the last, and the report holds the lines of
the records that the walks before it print and of those of this walk before `j`; the names are the images that were met. `SystemInv` says that of every
state of both programs. `TableInv` is about the image table of the driver: whichever of the two scans filled it, it gives each address the name
that the platform's own tables give it (`NamesRight`), blank slots included, which hold no address. With both, the lines of the finished report are those of `Expected`.

*AcpiTableDump.* Each frame of a walk whose cursor and counter follow the same `Length` field
is an `OKFrame`: the cursor plus the counter is the end of the region, and a positive counter means that a
structure of this owner starts at the cursor. The invariant is `stack \in Seq(OKFrames)`, whatever the walks around it do. For all
seventeen libraries, `PlacedInv` says more: the frame of a walk by count has as many structures of its owner ahead as its counter says, that of
a walk by size or by last flag stands on one, and a frame below the top has interpreted the structure that the one above it walks in. What a library
charges wrongly (`Mischarged`) it charges after the last structure of a well-formed table.

*TcpaLogArea.* Nothing but the unused bytes ends the walk, so `AreaInv` follows it beyond the log, too: as long as no more is listed than there are
entries, the cursor is at the end of as many entries as are listed and these are the first entries of the log; where the
unused bytes cannot be taken for an entry (`Recognizable`) no more than that is ever listed.

*DumpACPI.* `SignSelects` and `AllTablesDumped` compare a whole run with the full dump of the machine. `OutInv` does so for the root entries
behind the cursor: the output is their part of the full dump, selected by the signature. `RegistryInv`: the registry has each signature once, and those of
the libraries whose constructors have run. `SubInv`: `sub1` and `sub2` lead to the FACS and DSDT of the FADT behind the cursor, if
there was one. `FilesInv`: the static counter of a kind is the number of its dumps, and each file begins with the table it is named after.

*VtdTranslation.* `CheckRight` speaks of the end of a walk over four levels. `Marks` says what has been sought at any point: the leaves of all contexts passed,
and of the context the walk is in those behind a frame (`LeavesDone`: at each level, what the entries before the index of the frame lead to). `ChecksInv`: the calls of `CheckPtEntry`
are those of `Marks`, and each page of them that nobody knows has its error line. `ErrorsInv`: `mHasError` is whether one of the lines is about a 4KB page, and no line is a false alarm. `LookInv` is about
a lookup under way: each mapping that has been listed since it began and is behind the cursor does not explain the page, so that at the end of the list none does. `FramesInv`: each frame is at the entry that leads to the page of the next.
`MapsInv`: the probe is on the list only until it is unmapped, and what is on the list are mappings of the machine. The lemmas show that `Marks` grows by what
one step looks at: an entry that is 0, a leaf, a page entered, a page left, a context, a bus or a unit passed.

*VtdUnits.* `UnitsRight` compares arrays with the functions behind buses, found by a depth-first scan. `PhaseInv`: `VtdIndex` is the number of DRHDs passed.
`ArrayForm`: no array is longer than its maximum, the units passed have segment and flags of their DRHD, those ahead are empty, and no location is in two arrays.
`CompleteInv`: a unit that is done has everything its DRHD leads to (`Target`), up to what earlier units have. `ScanInv` is the core, what is true in the middle of a recursive scan: whatever the scopes
passed have led to is in the array, or in that of an earlier unit, or `Pending` in a frame of the stack: on the bus of the frame and not yet visited (`Ahead`), or
behind a bridge that is. A step moves one location from `Ahead` to the array, and when it is a numbered bridge puts what is behind it in a frame of its own; `Behind` is the least set closed under
secondary buses, for any number of buses (`BehindIs` and its siblings, by induction over the number of functions). `PrintInv`, `RmrrInv` and
`PolicyInv`: structures printed, regions and exceptions recorded or lost belong to the entries behind the cursor.

*PatchMicrocode.* `CpusInv`: the processors below `cpuIndex` have each been asked, or have loaded the update in order. `SumsInv`: what has been
printed of the checksums belongs to the entries passed. That a checksum is the one of the whole update rewritten with the entry is arithmetic
modulo `Word` on sums over sequences (`SumOfFour`, `TotalsAre`).

*SmmProfileDump.* `BufferInv`: the buffer of an attempt is the last allocated, those before it have been freed, and it has the size that was asked
for, or its allocation failed. `TablesInv`: the map that is looked up is the one the system has.

*PciOprom.* `RomRight` speaks of devices that are finished; a walk adds images one at a time, and skips blocks under a condition that looks at the image before.
`OpromRunsInv`: of every device the first `k` images of its ROM are shown, one behind the other in the output (`RunOf`), and `k` is complete for the devices passed. `OpromWalkInv`: the
run of the device at hand ends the output, its last image is not the last one of the chain, and the cursor is behind it and at or before the next one (`WalkAt`), so that a block has a signature exactly when it is the start of the next
image (`BetweenImages`). `OpromFilesInv`: the files hold what is saved of those images (`SavedImages`), which needs that no two machines share a file name of fifteen characters (`FileNamesDiffer`). `AskedIsNamed`
is about the command line: where hexadecimal and decimal reading agree, the device with the converted numbers is the one named.

*EsrtFmpDump.* `FirmwareRight` allows the rows of a protocol or of the capsules anywhere, and so does not say where the next row may go. `EsrtDescriptorsInv`: protocols passed
are shown in full or have failed, the one at hand and those ahead have no row yet. `EsrtCapsulesInv`: the rows of the capsules that the walk over the HOB list has passed (`RowsPassed`, a sum over the list)
stand together, and during the walk they are the last ones, so that the row of the next payload continues them. `EsrtBuffersInv`: what is allocated follows from where the run is.

*FileAccess.* A helper is data, so the invariant says for each call of each helper what is held before it (`HeldInv`), against a table of
what is `Taken`; that no path leaks is then a fact about each row (`SetForm`). `ScanInv`: the result is the one file on the volumes passed
without a failure. `WriteInv`: what the file holds before each call. `DirInv`: the counter is the number of files with the suffix behind the cursor.

The action properties and the refinement of `SmmCoreDumpTransfer` are consequences of its `Inv`, step by step.

### Induction over data

The library's induction theorems take a predicate as a parameter, which the installed provers cannot instantiate. Where a proof needs
induction it is over a set: from `NatLessThanWellFounded`, a set of numbers that has 0 and with each number the next has all (`Induction`);
from it, that a function defined by recursion over an index exists and satisfies its equation (`Recursion`). The recursive functions of
`DumpACPI`, `SmmCoreDatabase`, `PatchMicrocode`, `VtdUnits`, `PciOprom` and `EsrtFmpDump` (registered libraries, entries selected by signature, layouts, sums, functions behind a bus, places of images, numbers of digits, rows of capsules) are reasoned about in this way.

### Only model-checked

* Liveness under fairness: out of the prover's reach.
* `OutputExact` of `AcpiTableDump`: the whole history of a walk over a tree, with a recursive reference.
* `EventsRight`, `ExpectedRight`, `DatabaseRight`, `NvStoreRight`, `SourcesRight`, `HobCarries`:
  they compare a walk with a memory image that the MC module lays out, or with a recursive reference
  operator that runs over it; a proof needs the layout as an assumption on constants first (section 7). `NamesRight`: the tokenizers overwrite the text
  they run over, character by character.

## 5. Findings

With a run that shows them:

* `SmmCoreDump.c:551`: `GetLoadedImage` allocates a new image table and sets its
  maximum but keeps the count of `GetSmmLoadedImage`. The table starts with
  blank entries, and with few images outside SMRAM `AddImageStruct` reaches its
  `ASSERT(FALSE)`; without ASSERTs images are missing from the report.
* `Tcg2DumpLog.c:1738`: `-E` for all PCRs counts in `PcrIndex` itself, so the second log format is
  printed only for a PCR that does not exist.

Met while modelling; the models have the behaviour, and the properties say so where
they would be broken by it:

* ACPI. `DumpAcpiLPITLib.c:167`, `DumpAcpiPMTTLib.c:305`: the cursor moves before the
  counter is charged with the `Length` at the cursor; the bytes behind the table are interpreted.
  `DumpAcpiMADTLib.c:1215`, `DumpAcpiSRATLib.c:242`: for an unknown structure the
  counter is charged the size of the structure before it. `DumpACPI.c:205`: `-s` reads the signature of a NULL root entry, which the full dump
  skips. `DumpAcpiSSDT.c:148` and its siblings: the `.aml` file is not truncated; a longer
  file of an earlier run keeps its tail. `DumpAcpiDSDT.c:105` and the same line behind each call of the seven and in its siblings: `FileName`, an array on the stack, is given to `FreePool`.
* Tcg2DumpLog. `Tcg2DumpLog.c:982`: a second run finds events both in the log and in the final events table and extends them twice. 273: `%a` prints the strings of an
  Event2 structure up to a NUL, whatever their size fields say. 995: the PCRs are read after the last look at the table; an event measured in between is in the value of the TPM only.
* VtdDump. `VtdDump.c:185`: an unmap during the list walk leaves it on freed memory, and so does one during a lookup (300). 306 and 564: the range tests join conditions with `&&` that
  exclude each other, so they skip nothing: a page outside of the mappings and regions of a device that has one counts as explained.
  645: an error in a 2MB page does not set `mHasError`. 2229: for an I/O APIC or HPET scope "out of resources" is passed over like a duplicate. 853: the upper half of extended contexts is not checked.
* PcdDump. `PcdDump.c:1742` and 1834: `DefaultInfo` is not advanced, so the first pair is printed for all; a block for two pairs is named after one of them. 1153: free space is
  recognized only in a volume that erases to 1. 1963: the option is `-DB(DXE)`, the usage text at 1894 has `-DB(DxE)` and at 1897 `-FD`, which is not there.
* Support files. `AppSupport.c:156`, 179: success without a buffer; `SupportGuid.c:79` goes on with the pointer nobody has set. `AppSupport.c:269`, `SupportFile.c:235`: the array of volume handles is never freed.
  407: a `Delete` that warns leaves the old tail. `SupportFile.c:392`: a directory that cannot be read further looks like one that has ended.
  `SupportGuid.c:46`, 86, 96: files with bare carriage returns are counted and split differently. `PeiCoreDump.c:382`: two results of `GuidToName` in one call share a buffer.
* Core dumps. `DxeCoreDump.c:264`: a period in a directory name cuts the image name. 602: live lists are walked without a lock; 876: a timer armed again, or 702: an interface reinstalled, under the cursor hides the entries it was moved past. 953: a protocol database whose head was not found is NULL.
  `PeiCoreDumpApp.c:108`: the padding at the end of the HOB is walked.
* GetPciOprom. 67: `-f` takes hexadecimal numbers in the usage text and decimals at 592, 601 and 610. 31: the name buffer is too short for the longest name of 76. 335: a header used before it is set. 272, 328, 354: "Saved" is printed after failures.
  391: an image of length 0 is met again and again.
* PatchMicrocode. 548, 553: the status of the services is ignored and the buffer used. 366, 421: a processor that refuses is not reported.
* SmmProfileDump. 293: after a failed allocation the freed pointer of the attempt before passes the ASSERT.
* EsrtFmpDump. 505: an uninitialized pointer is printed as a status. 561, 574: the buffers of `GetVariable2` are not freed.

## 6. What is abstracted, and assumptions

* Text, column layout, hex dumps and device paths are not modelled; a line of
  output is the address or key of what it shows.
* The application owns the communication region while it runs: no other user
  of the protocol writes to it between two calls.
* Tables, databases, volumes and ROMs are well-formed: lengths add up, chains end. The tools have no defence against
  others, and the runs do not ask about them. They do not change during a dump, unless the module has an action that changes them.
* A machine has at most one FADT, and no root table lists a FACS, a DSDT or a root table.
* A signature given with `-s` has four characters. Volumes erase to 1. GUID files end lines with a line feed, with or without a carriage return before it.
* The SMM, DXE and PEI cores, the file system, `Communicate`, the services and the pool allocator are known from how the
  tools use them: each returns success with the effect the code relies
  on, or an error without effect, or a warning where the code tells it apart.

## 7. Plan

1. `GuidNames`: `TableFits` from the count of line ends.
2. HobList and HstiWsmtDump, should their walks grow beyond a field list.
