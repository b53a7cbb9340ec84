------------------------------- MODULE DumpACPI -------------------------------
(***************************************************************************)
(* The DumpACPI application: the registry of dump functions, the command   *)
(* line, the two ways through the root tables (DumpAcpiAllTable and        *)
(* DumpAcpiTableWithSign), and the .aml files that DumpAcpiDSDT, -SSDT and *)
(* -PSDT leave on the volume the application was started from.             *)
(*                                                                         *)
(* What a dump function prints of a table is the subject of AcpiTableDump; *)
(* here a dump is one entry of `out'.                                      *)
(***************************************************************************)
EXTENDS Integers, Sequences, FiniteSets

CONSTANTS
  Platforms,      \* the firmware tables a machine may have
  CommandLines,   \* [parses, help, d, v : BOOLEAN, sign : signature or None]
  LibraryFuncs,   \* the signatures the linked libraries register, in order
  OldFiles,       \* lengths of the .aml files earlier runs may have left
  MaxFuncs,       \* DUMP_ACPI_TABLE_FUNC_MAX_NUMBER
  MaxIoFailures   \* bound: file system calls that fail in a run

NULL == 0
None == "none"
AmlKinds == {"DSDT", "SSDT", "PSDT"}
RootSigns == {"RSDP", "RSDT", "XSDT"}

(* The root tables lead to tables of the machine, their lengths are those  *)
(* of their entries, and there is at most one FADT, which alone leads to   *)
(* the FACS and the DSDT.                                                  *)
RootForm(p, root, width) ==
  root # NULL =>
    LET entries == p.root[root].entries
        Fadt(i) == entries[i] # NULL /\ p.table[entries[i]].sig = "FACP"
    IN  /\ entries \in Seq(DOMAIN p.table \cup {NULL})
        /\ (p.root[root].len - 36) \div width = Len(entries)
        /\ \A i \in 1..Len(entries) :
             entries[i] # NULL => p.table[entries[i]].sig \notin RootSigns \cup {"FACS", "DSDT"}
        /\ \A i, j \in 1..Len(entries) : Fadt(i) /\ Fadt(j) => i = j
PlatformForm(p) ==
  /\ p.acpi10 \in DOMAIN p.rsdp \cup {NULL} /\ p.acpi20 \in DOMAIN p.rsdp \cup {NULL}
  /\ \A r \in DOMAIN p.rsdp : RootForm(p, p.rsdp[r].rsdt, 4) /\ RootForm(p, p.rsdp[r].xsdt, 8)
  /\ \A t \in DOMAIN p.table :
       /\ p.table[t].len \in Nat
       /\ p.table[t].dsdt \in DOMAIN p.table \cup {NULL} /\ p.table[t].xDsdt \in DOMAIN p.table \cup {NULL}

(* What DumpAcpiTableFuncLib has room for is what is linked in.            *)
OwnFuncs == <<"FACP", "FACS", "DSDT", "SSDT", "PSDT">>
Members(s) == {s[i] : i \in 1..Len(s)}
Linked == Members(LibraryFuncs) \cup Members(OwnFuncs)

ASSUME AppAssumption ==
  /\ \A p \in Platforms : PlatformForm(p)
  /\ \A l \in CommandLines : l.d \in BOOLEAN /\ l.v \in BOOLEAN
  /\ LibraryFuncs \in Seq(STRING) /\ MaxFuncs \in Nat /\ Cardinality(Linked) <= MaxFuncs
  /\ \A o \in OldFiles :
       /\ DOMAIN o \subseteq AmlKinds \X (Nat \ {0})
       /\ \A name \in DOMAIN o : o[name].table = NULL /\ o[name].len \in Nat
  /\ MaxIoFailures \in Nat

(* The file system calls of DumpAcpiDSDT in the order they are made.       *)
IoCalls == {"LoadedImage", "DevicePath", "LocateDevicePath", "FileSystem", "OpenVolume", "Open", "Write"}

VARIABLES
  platform,    \* [acpi10, acpi20, rsdp, root, table], see Platforms
  line,        \* the command line
  pc,          \* the function that runs, "done", "fault": a NULL table is read, or
               \* "undefined": FreePool was given an array on the stack
  registry,    \* mDumpAcpiTableFuncStruct: sequence of signatures
  data, verb,  \* mIsDumpData, mIsDumpVerb
  xsdt, rsdt,  \* the root tables found, or NULL
  index,       \* Index of the loop over the root entries
  sub1, sub2,  \* FACS and DSDT recorded from the FADT
  out,         \* [addr, sig]: tables dumped, by the function of which signature
  fileIndex,   \* the static FileIndex of each AML dump function
  files,       \* <<kind, n>> -> [table, len]: Kind_n.aml, `len' bytes, begins with `table'
  failures     \* file system calls that have failed

appVars == <<registry, data, verb, xsdt, rsdt, index, sub1, sub2>>
vars == <<platform, line, pc, appVars, out, fileIndex, files, failures>>

Sig(t) == platform.table[t].sig

-----------------------------------------------------------------------------
(* RegisterDumpAcpiTable and GetDumpAcpiTableFunc. *)
RegisterDumpAcpiTable(reg, sig) ==
  IF sig \in Members(reg) \/ Len(reg) >= MaxFuncs THEN reg ELSE Append(reg, sig)

(* A sequence of calls of RegisterDumpAcpiTable. *)
Registered(reg, sigs) ==
  LET R[i \in 0..Len(sigs)] == IF i = 0 THEN reg ELSE RegisterDumpAcpiTable(R[i - 1], sigs[i])
  IN  R[Len(sigs)]

GetDumpAcpiTableFunc(sig) == IF sig \in Members(registry) THEN sig ELSE "default"

Init ==
  /\ platform \in Platforms
  /\ line \in CommandLines
  /\ pc = "constructors"
  /\ registry = <<>>
  /\ data = FALSE /\ verb = FALSE
  /\ xsdt = NULL /\ rsdt = NULL /\ index = 0 /\ sub1 = NULL /\ sub2 = NULL
  /\ out = <<>>
  /\ fileIndex = [k \in AmlKinds |-> 0]
  /\ files \in OldFiles
  /\ failures = 0

(* The library constructors run before the entry point. *)
Constructors ==
  /\ pc = "constructors"
  /\ registry' = Registered(registry, LibraryFuncs)
  /\ pc' = "entry"
  /\ UNCHANGED <<platform, line, data, verb, xsdt, rsdt, index, sub1, sub2, out, fileIndex, files, failures>>

(* A command line that does not parse, -? and -h end the application.      *)
DumpACPIEntryPoint ==
  /\ pc = "entry"
  /\ registry' = Registered(registry, OwnFuncs)
  /\ IF line.parses /\ ~line.help
       THEN /\ data' = line.d
            /\ verb' = (line.v \/ ~line.d)
            /\ pc' = IF line.sign = None THEN "all" ELSE "sign"
       ELSE pc' = "done" /\ UNCHANGED <<data, verb>>
  /\ UNCHANGED <<platform, line, xsdt, rsdt, index, sub1, sub2, out, fileIndex, files, failures>>

-----------------------------------------------------------------------------
(* ScanAcpiRSDP: the ACPI 2.0 configuration table overrides the 1.0 one.   *)
Rsdp == IF platform.acpi20 # NULL THEN platform.acpi20 ELSE platform.acpi10
IsAcpi20 == platform.acpi20 # NULL /\ platform.rsdp[Rsdp].revision >= 2

ScanAcpiRSDT == platform.rsdp[Rsdp].rsdt
ScanAcpiXSDT == IF IsAcpi20 THEN platform.rsdp[Rsdp].xsdt ELSE NULL

(* ScanAcpiFADT: the 64-bit pointers, where the revision has them and they *)
(* are set.                                                                *)
Pointer(f, x, y) == IF f.revision >= 3 /\ f[x] # NULL THEN f[x] ELSE f[y]
Facs(t) == Pointer(platform.table[t], "xFirmwareCtrl", "firmwareCtrl")
Dsdt(t) == Pointer(platform.table[t], "xDsdt", "dsdt")

(* Every dump function returns at once for a NULL table. *)
Dump(t, sig) == IF t = NULL THEN <<>> ELSE <<[addr |-> t, sig |-> sig]>>
DumpSelectAcpiTable(t) == Dump(t, GetDumpAcpiTableFunc(Sig(t)))

(* The end of DumpAcpiDSDT: Kind_n.aml is opened without being truncated   *)
(* and the table written over its beginning; a call that fails ends it.    *)
RestartingWriteAml(kind, t) ==     \* mutant: FileIndex is not static
  /\ files' = [n \in DOMAIN files \cup {<<kind, 1>>} |->
                 IF n = <<kind, 1>> THEN [table |-> t, len |-> platform.table[t].len] ELSE files[n]]
  /\ UNCHANGED <<fileIndex, failures>>

WriteAml(kind, t) ==
  LET name == <<kind, fileIndex[kind] + 1>>
      old == IF name \in DOMAIN files THEN files[name] ELSE [table |-> NULL, len |-> 0]
      new == platform.table[t].len
      Set(f) == [n \in DOMAIN files \cup {name} |-> IF n = name THEN f ELSE files[n]]
  IN  /\ fileIndex' = [fileIndex EXCEPT ![kind] = @ + 1]
      /\ \/ /\ files' = Set([table |-> t, len |-> IF old.len > new THEN old.len ELSE new])
            /\ UNCHANGED failures
         \/ /\ failures < MaxIoFailures
            /\ failures' = failures + 1
            /\ \E call \in IoCalls : files' = IF call = "Write" THEN Set(old) ELSE files

(* After a call that failed FileName is given to FreePool, though it is an *)
(* array on the stack.  A pool that finds no header in front of it may     *)
(* return, and the run goes on; it may also stop at an ASSERT, or take     *)
(* what lies there for a header: nothing is said of what follows then.     *)
FreeFileName(next) ==
  \/ pc' = next
  \/ failures' > failures /\ pc' = "undefined"

(* Run dump functions one after the other; at most one of them is an AML   *)
(* dump function, and that one, the last, may write its file.              *)
Aml(dumps) == {i \in DOMAIN dumps : dumps[i].sig \in AmlKinds}
Emit(dumps, next) ==
  /\ out' = out \o dumps
  /\ IF data /\ Aml(dumps) # {}
       THEN \E i \in Aml(dumps) : WriteAml(dumps[i].sig, dumps[i].addr)
       ELSE UNCHANGED <<fileIndex, files, failures>>
  /\ FreeFileName(next)

-----------------------------------------------------------------------------
(* The loops over the root table: XSDT if there is one, else RSDT.         *)
Root == IF xsdt # NULL THEN xsdt ELSE rsdt
EntryCount ==
  IF Root = NULL THEN 0
  ELSE (platform.root[Root].len - 36) \div (IF xsdt # NULL THEN 8 ELSE 4)
Entry == platform.root[Root].entries[index + 1]

NoRsdp ==
  /\ pc \in {"all", "sign"}
  /\ Rsdp = NULL
  /\ pc' = "done"
  /\ UNCHANGED <<platform, line, appVars, out, fileIndex, files, failures>>

(* DumpAcpiAllTable up to its loops. *)
DumpRoots ==
  /\ pc = "all"
  /\ Rsdp # NULL
  /\ rsdt' = ScanAcpiRSDT
  /\ xsdt' = ScanAcpiXSDT
  /\ Emit(Dump(Rsdp, "RSDP") \o Dump(ScanAcpiRSDT, "RSDT") \o Dump(ScanAcpiXSDT, "XSDT"), "all_loop")
  /\ UNCHANGED <<platform, line, registry, data, verb, index, sub1, sub2>>

SkippingDumpEntry ==               \* mutant: the `continue' for a NULL entry skips Index++
  /\ pc = "all_loop"
  /\ index < EntryCount
  /\ IF Entry = NULL THEN UNCHANGED <<pc, index, out, fileIndex, files, failures>>
     ELSE /\ Emit(DumpSelectAcpiTable(Entry)
                  \o IF Sig(Entry) = "FACP" THEN Dump(Facs(Entry), "FACS") \o Dump(Dsdt(Entry), "DSDT") ELSE <<>>, pc)
          /\ index' = index + 1
  /\ UNCHANGED <<platform, line, registry, data, verb, xsdt, rsdt, sub1, sub2>>

(* One round of DumpAcpiAllTable's loop: a NULL entry is skipped, and the  *)
(* FADT is followed by its FACS and DSDT.                                  *)
DumpEntry ==
  /\ pc = "all_loop"
  /\ index < EntryCount
  /\ IF Entry = NULL THEN UNCHANGED <<pc, out, fileIndex, files, failures, sub1, sub2>>
     ELSE LET fadt == Sig(Entry) = "FACP" IN
          /\ Emit(DumpSelectAcpiTable(Entry)
                  \o IF fadt THEN Dump(Facs(Entry), "FACS") \o Dump(Dsdt(Entry), "DSDT") ELSE <<>>, pc)
          /\ sub1' = IF fadt THEN Facs(Entry) ELSE sub1
          /\ sub2' = IF fadt THEN Dsdt(Entry) ELSE sub2
  /\ index' = index + 1
  /\ UNCHANGED <<platform, line, registry, data, verb, xsdt, rsdt>>

(* DumpAcpiTableWithSign up to its loops: the root tables themselves.      *)
SelectRoots ==
  /\ pc = "sign"
  /\ Rsdp # NULL
  /\ rsdt' = ScanAcpiRSDT
  /\ xsdt' = ScanAcpiXSDT
  /\ Emit(CASE line.sign = "RSDP" -> Dump(Rsdp, "RSDP")
            [] line.sign = "RSDT" -> Dump(ScanAcpiRSDT, "RSDT")
            [] line.sign = "XSDT" -> Dump(ScanAcpiXSDT, "XSDT")
            [] OTHER -> <<>>,
          IF line.sign \in {"RSDP", "RSDT", "XSDT"} THEN "done" ELSE "sign_loop")
  /\ UNCHANGED <<platform, line, registry, data, verb, index, sub1, sub2>>

(* One round of DumpAcpiTableWithSign's loop.                              *)
SelectEntry ==
  /\ pc = "sign_loop"
  /\ index < EntryCount
  /\ Entry # NULL
  /\ Emit(IF Sig(Entry) = line.sign THEN DumpSelectAcpiTable(Entry) ELSE <<>>, pc)
  /\ sub1' = IF Sig(Entry) = "FACP" THEN Facs(Entry) ELSE sub1
  /\ sub2' = IF Sig(Entry) = "FACP" THEN Dsdt(Entry) ELSE sub2
  /\ index' = index + 1
  /\ UNCHANGED <<platform, line, registry, data, verb, xsdt, rsdt>>

(* ... which reads the Signature of the entry without looking whether it   *)
(* is NULL.                                                                *)
SelectNullEntry ==
  /\ pc = "sign_loop"
  /\ index < EntryCount
  /\ Entry = NULL
  /\ pc' = "fault"
  /\ UNCHANGED <<platform, line, appVars, out, fileIndex, files, failures>>

(* The end of both: -s FACS and -s DSDT dump what the FADT pointed to.     *)
SwappedLoopEnds ==                 \* mutant: the two recorded tables are mixed up
  /\ pc \in {"all_loop", "sign_loop"}
  /\ index >= EntryCount
  /\ Emit(CASE pc = "sign_loop" /\ line.sign = "FACS" -> Dump(sub2, "FACS")
            [] pc = "sign_loop" /\ line.sign = "DSDT" -> Dump(sub1, "DSDT")
            [] OTHER -> <<>>,
          "done")
  /\ UNCHANGED <<platform, line, appVars>>

LoopEnds ==
  /\ pc \in {"all_loop", "sign_loop"}
  /\ index >= EntryCount
  /\ Emit(CASE pc = "sign_loop" /\ line.sign = "FACS" -> Dump(sub1, "FACS")
            [] pc = "sign_loop" /\ line.sign = "DSDT" -> Dump(sub2, "DSDT")
            [] OTHER -> <<>>,
          "done")
  /\ UNCHANGED <<platform, line, appVars>>

Next ==
  \/ Constructors \/ DumpACPIEntryPoint
  \/ NoRsdp \/ DumpRoots \/ DumpEntry
  \/ SelectRoots \/ SelectEntry \/ SelectNullEntry
  \/ LoopEnds

Spec == Init /\ [][Next]_vars /\ WF_vars(Next)

-----------------------------------------------------------------------------
(* Types: the cursors stay within the root table, the registry within its  *)
(* array.                                                                  *)
TypeOK ==
  /\ pc \in {"constructors", "entry", "all", "sign", "all_loop", "sign_loop", "done", "fault", "undefined"}
  /\ data \in BOOLEAN /\ verb \in BOOLEAN
  /\ Len(registry) <= MaxFuncs
  /\ fileIndex \in [AmlKinds -> Nat]
  /\ DOMAIN files \subseteq AmlKinds \X (Nat \ {0})
  /\ failures \in 0..MaxIoFailures
  /\ pc \in {"all_loop", "sign_loop"} =>
       IF Root = NULL THEN index = 0 ELSE index \in 0..Len(platform.root[Root].entries)

(* The tables of the machine in the order of a full dump, with the         *)
(* signatures that -s selects them by.                                     *)
RootEntries ==
  IF Rsdp = NULL THEN <<>>
  ELSE LET root == IF ScanAcpiXSDT # NULL THEN ScanAcpiXSDT ELSE ScanAcpiRSDT
       IN  IF root = NULL THEN <<>> ELSE platform.root[root].entries
EntryDump(t) ==
  IF t = NULL THEN <<>>
  ELSE Dump(t, Sig(t)) \o IF Sig(t) = "FACP" THEN Dump(Facs(t), "FACS") \o Dump(Dsdt(t), "DSDT") ELSE <<>>
EntryDumps[n \in 0..Len(RootEntries)] ==
  IF n = 0 THEN <<>> ELSE EntryDumps[n - 1] \o EntryDump(RootEntries[n])
FullDump ==
  IF Rsdp = NULL THEN <<>>
  ELSE (Dump(Rsdp, "RSDP") \o Dump(ScanAcpiRSDT, "RSDT") \o Dump(ScanAcpiXSDT, "XSDT")) \o EntryDumps[Len(RootEntries)]

(* The part of a dump that has the signature.                              *)
Of(s, sig) ==
  LET F[i \in 0..Len(s)] ==
        IF i = 0 THEN <<>> ELSE IF s[i].sig = sig THEN Append(F[i - 1], s[i]) ELSE F[i - 1]
  IN  F[Len(s)]

Addresses(s) == [i \in 1..Len(s) |-> s[i].addr]
Ran == pc = "done" /\ line.parses /\ ~line.help

(* A run without -s dumps every table the machine has, in order.           *)
AllTablesDumped == Ran /\ line.sign = None => Addresses(out) = Addresses(FullDump)

(* A run with -s dumps exactly the part of the full dump that carries the  *)
(* signature, also for the tables no root entry leads to.                  *)
SignSelects ==
  Ran /\ line.sign # None =>
    Addresses(out) = Addresses(Of(FullDump, line.sign))

(* Every table is dumped by the function for its signature when one is     *)
(* linked in, and the default function is used only for the others.        *)
DispatchedRight ==
  Ran => \A i \in 1..Len(out) :
    \E e \in Members(FullDump) :
      out[i] = [addr |-> e.addr, sig |-> IF e.sig \in Linked \cup RootSigns THEN e.sig ELSE "default"]

(* The n-th dump of a kind of AML table is what Kind_n.aml begins with,    *)
(* whatever calls failed for the tables before it and as long as the run   *)
(* has survived them, and nothing is behind it but the tail of a longer    *)
(* file that an earlier run left.                                          *)
AmlFilesMatch ==
  \A name \in DOMAIN files :
    LET kind == name[1]
        dumps == Of(out, kind)
        table == files[name].table
        left == {o[name].len : o \in {f \in OldFiles : name \in DOMAIN f}}
    IN  table # NULL =>
          /\ name[2] <= Len(dumps) /\ table = dumps[name[2]].addr
          /\ \/ files[name].len = platform.table[table].len
             \/ files[name].len > platform.table[table].len /\ files[name].len \in left

(* Every run comes to its end: behind the last entry, at a NULL entry that *)
(* -s reads, or where an array on the stack is freed after a failed call.  *)
RunEnds ==
  <>(\/ pc = "done"
     \/ pc = "fault" /\ line.sign # None
     \/ pc = "undefined" /\ failures > 0)

(* A run dumps the tables the command line asks for, every one and in      *)
(* order, each by the function that its library or DumpACPI has for it.    *)
TablesRight == TypeOK /\ AllTablesDumped /\ SignSelects /\ DispatchedRight
=============================================================================
