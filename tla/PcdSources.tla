------------------------------ MODULE PcdSources ------------------------------
(***************************************************************************)
(* PcdDumpEntrypoint and the ways to a PCD database: the HOB of the PEI    *)
(* phase, a file, the PCD driver's file in the firmware volumes (through   *)
(* their protocol, or in memory at an address), and the PCD protocols.     *)
(* What DumpPcdDatabase prints of the database is in PcdDatabase, the      *)
(* NvStore option in PcdNvStore.                                           *)
(*                                                                         *)
(* A firmware volume in memory is a record with functions from byte        *)
(* offsets: "file" to file headers, and in a file "section" to section     *)
(* headers.  Any other offset of the volume holds the erase value.         *)
(***************************************************************************)
EXTENDS PcdLayout, Sequences, FiniteSets

CONSTANTS
  Platforms,    \* [hob, volumes, memory, binary, spaces, protocols]
  CommandLines  \* [option, argc, zero]: zero when the address argument is 0

Nowhere == [kind |-> "none"]
FileHeaderSize(f) == IF f.large THEN 32 ELSE 24        \* sizeof(EFI_FFS_FILE_HEADER2), sizeof(EFI_FFS_FILE_HEADER)
SectionHeaderSize(s) == IF s.large THEN 8 ELSE 4       \* sizeof(EFI_RAW_SECTION2), sizeof(EFI_RAW_SECTION)
GuidSize == 16

VARIABLES
  platform, command,
  spc,         \* the routine, "done", or "undefined" where the code reads what was not set
  driver,      \* the file name searched for: "pei" or "dxe"
  fv,          \* index of the volume handle, or the volume in memory
  ffs,         \* offset FfsHeader in that volume
  section,     \* offset SectionHeader in the file
  instance,    \* Instance of the callers of ReadSection and GetSectionByType
  seen,        \* Instance of GetSectionByType
  pool,        \* sections ReadSection has allocated
  space, token,    \* TokenSpace (0 is NULL) and TokenNumber
  count,       \* PcdInfoIndex
  failed,      \* calls of the volumes' driver that have failed: [call, at]
  report       \* what was printed, as records

search == <<fv, ffs, section, instance, seen>>
enum == <<space, token, count>>
sourcesVars == <<platform, command, spc, driver, search, pool, enum, failed, report>>

Say(r) == report' = Append(report, r)

-----------------------------------------------------------------------------
(* GetPcdPeiLocalTokenCount: 0 without the HOB.                            *)
GetPcdPeiLocalTokenCount == IF platform.hob.kind = "none" THEN 0 ELSE platform.hob.tokens

IsDataPcdDatabase(s) == s.size - SectionHeaderSize(s) >= GuidSize /\ s.pcd

SourcesInit ==
  /\ platform \in Platforms /\ command \in CommandLines
  /\ spc = "entry" /\ driver = "none"
  /\ fv = 1 /\ ffs = 0 /\ section = 0 /\ instance = 0 /\ seen = 0 /\ pool = {}
  /\ space = 0 /\ token = 0 /\ count = 0 /\ failed = {} /\ report = <<>>

(* The options: which routine each one starts, "usage" for any other.      *)
Routine(c) ==
  CASE c.option = "-HOB" -> "hob"
    [] c.option = "-PROTOCOL" -> "protocol"
    [] c.option \in {"-BIN(PEI)", "-BIN(DXE)"} /\ c.argc = 3 -> "binary"
    [] c.option = "-DB(PEI)" -> IF c.argc = 3 /\ ~c.zero THEN "address" ELSE "image"
    [] c.option = "-DB(DXE)" -> "image"
    [] c.option = "-BIN(NvStore)" /\ c.argc = 3 -> "nvstore"
    [] OTHER -> "usage"

PcdDumpEntrypoint ==
  /\ spc = "entry"
  /\ IF command.argc < 2
       THEN Say([what |-> "usage", source |-> Nowhere, pei |-> FALSE]) /\ spc' = "done" /\ UNCHANGED driver
       ELSE LET r == Routine(command)
            IN  IF r \in {"usage", "nvstore"}
                  THEN Say([what |-> r, source |-> Nowhere, pei |-> FALSE]) /\ spc' = "done" /\ UNCHANGED driver
                  ELSE /\ spc' = r /\ UNCHANGED report
                       /\ driver' = IF command.option \in {"-DB(DXE)", "-BIN(DXE)"} THEN "dxe" ELSE "pei"
  /\ UNCHANGED <<platform, command, search, pool, enum, failed>>

DumpPcdDatabase(source) ==
  Say([what |-> "database", source |-> source, pei |-> driver = "pei",
       firstToken |-> IF driver = "pei" THEN 1 ELSE 1 + GetPcdPeiLocalTokenCount])
NotFound == Say([what |-> "not found", source |-> Nowhere, pei |-> driver = "pei"])

DumpPeiPcdHob ==
  /\ spc = "hob" /\ spc' = "done"
  /\ IF platform.hob.kind = "none" THEN NotFound ELSE DumpPcdDatabase(platform.hob)
  /\ UNCHANGED <<platform, command, driver, search, pool, enum, failed>>

(* ReadFileToBuffer may return success without a buffer (FileAccess); the  *)
(* database is then read through a pointer that was not set.               *)
DumpPcdBinary ==
  /\ spc = "binary"
  /\ \/ spc' = "done" /\ (IF platform.binary.kind = "none" THEN NotFound ELSE DumpPcdDatabase(platform.binary))
     \/ spc' = "undefined" /\ platform.binary.kind # "none" /\ UNCHANGED report
  /\ UNCHANGED <<platform, command, driver, search, pool, enum, failed>>

-----------------------------------------------------------------------------
(* Any call on the volumes may fail: for want of memory or of the device.  *)
Fails(call, at) == failed' = failed \cup {[call |-> call, at |-> at]}

(* LocateFvInstanceWithPcdImage, its LocateHandleBuffer: not found where   *)
(* there is no volume, and out of resources.                               *)
LocateHandleBuffer ==
  /\ spc = "image"
  /\ \/ platform.volumes # <<>> /\ spc' = "volumes" /\ UNCHANGED <<failed, report>>
     \/ Fails("LocateHandleBuffer", 0) /\ NotFound /\ spc' = "done"
  /\ UNCHANGED <<platform, command, driver, search, pool, enum>>

(* Its loop: the first volume whose ReadFile succeeds; the status of the   *)
(* last attempt is the result.                                             *)
HasFile(v) == \E o \in DOMAIN v.file : v.file[o].name = driver
LocateFvInstanceWithPcdImage ==
  /\ spc = "volumes"
  /\ IF fv > Len(platform.volumes)
       THEN NotFound /\ spc' = "done" /\ UNCHANGED <<search, failed>>
       ELSE /\ \/ HasFile(platform.volumes[fv]) /\ spc' = "sections" /\ instance' = 0 /\ UNCHANGED <<fv, failed>>
               \/ /\ IF HasFile(platform.volumes[fv]) THEN Fails("ReadFile", fv) ELSE UNCHANGED failed
                  /\ fv' = fv + 1 /\ UNCHANGED <<spc, instance>>
            /\ UNCHANGED <<ffs, section, seen, report>>
  /\ UNCHANGED <<platform, command, driver, pool, enum>>

(* ReadSection of the volume driver: the n-th raw section of the file.     *)
FirstFile(v) == CHOOSE o \in DOMAIN v.file : v.file[o].name = driver /\ \A p \in DOMAIN v.file : v.file[p].name = driver => o <= p
RawSections(f) == {o \in DOMAIN f.section : f.section[o].raw}
NthRaw(f, n) == CHOOSE o \in RawSections(f) : Cardinality({p \in RawSections(f) : p < o}) = n
(* GetImagePcdDb: the loop ends with the status of ReadSection, whether    *)
(* there is no further section or the section cannot be read.              *)
ReadSectionFails ==
  /\ spc = "sections" /\ Fails("ReadSection", instance)
  /\ NotFound /\ spc' = "done"
  /\ UNCHANGED <<platform, command, driver, search, pool, enum>>
GetImagePcdDb ==
  /\ spc = "sections"
  /\ LET v == platform.volumes[fv]
         f == v.file[FirstFile(v)]
     IN  IF instance >= Cardinality(RawSections(f))
           THEN NotFound /\ spc' = "done" /\ UNCHANGED <<instance, pool>>
           ELSE LET o == NthRaw(f, instance)
                IN  IF IsDataPcdDatabase(f.section[o])
                      THEN DumpPcdDatabase([kind |-> "section", at |-> <<fv, FirstFile(v), o>>]) /\ pool' = pool \cup {o} /\ spc' = "done" /\ UNCHANGED instance
                      ELSE instance' = instance + 1 /\ UNCHANGED <<spc, pool, report>>
  /\ UNCHANGED <<platform, command, driver, fv, ffs, section, seen, enum, failed>>

-----------------------------------------------------------------------------
(* GetFfsByName on one volume in memory.                                   *)
FirstFfsNoExt(v) == ALIGN_VALUE(v.headerLength, 8)
FirstFfs(v) == ALIGN_VALUE(IF v.extOffset # 0 THEN v.extOffset + v.extSize ELSE v.headerLength, 8)

GetImagePcdDbFromAddress ==
  /\ spc = "address"
  /\ IF platform.memory.signature
       THEN spc' = "ffs" /\ ffs' = FirstFfs(platform.memory) /\ UNCHANGED report
       ELSE spc' = "done" /\ NotFound /\ UNCHANGED ffs
  /\ UNCHANGED <<platform, command, driver, fv, section, instance, seen, pool, enum, failed>>

(* IsBufferErased is asked for 0xFF, whatever the volume's polarity is.    *)
IsBufferZero(v, o) == o \notin DOMAIN v.file /\ v.polarity = 0
IsBufferErased(v, o) == o \notin DOMAIN v.file /\ v.polarity = 1
(* The size field of a header; in free space of the other polarity it is 0.*)
FfsSize(v, o) == IF o \in DOMAIN v.file THEN v.file[o].size ELSE 0
NextFfs(v, o) == o + ALIGN_VALUE(FfsSize(v, o), 8)
FfsMatches(v, o) == o \in DOMAIN v.file /\ v.file[o].name = driver

GetFfsByName ==
  /\ spc = "ffs"
  /\ LET v == platform.memory
     IN  IF ffs >= v.length - 1 \/ IsBufferErased(v, ffs)
           THEN NotFound /\ spc' = "done" /\ UNCHANGED <<ffs, section, instance, seen>>
           ELSE /\ IF FfsMatches(v, ffs)
                     THEN spc' = "section" /\ section' = FileHeaderSize(v.file[ffs]) /\ instance' = 0 /\ seen' = 0 /\ UNCHANGED ffs
                     ELSE ffs' = NextFfs(v, ffs) /\ UNCHANGED <<spc, section, instance, seen>>
                /\ UNCHANGED report
  /\ UNCHANGED <<platform, command, driver, fv, pool, enum, failed>>

(* One section header in GetSectionByType, which starts over for each      *)
(* instance its caller asks for.                                           *)
File == platform.memory.file[ffs]
NextSection(s) == section + ALIGN_VALUE(s.size, 4)
GetSectionByType ==
  /\ spc = "section"
  /\ IF section >= File.size
       THEN NotFound /\ spc' = "done" /\ UNCHANGED <<section, instance, seen>>
       ELSE LET s == File.section[section]
            IN  IF s.raw /\ seen = instance
                  THEN IF IsDataPcdDatabase(s)
                         THEN DumpPcdDatabase([kind |-> "section", at |-> <<0, ffs, section>>]) /\ spc' = "done" /\ UNCHANGED <<section, instance, seen>>
                         ELSE instance' = instance + 1 /\ section' = FileHeaderSize(File) /\ seen' = 0 /\ UNCHANGED <<spc, report>>
                  ELSE section' = NextSection(s) /\ seen' = (IF s.raw THEN seen + 1 ELSE seen) /\ UNCHANGED <<spc, instance, report>>
  /\ UNCHANGED <<platform, command, driver, fv, ffs, pool, enum, failed>>

-----------------------------------------------------------------------------
(* DumpDxePcdProtocolInfo: all four protocols must be there.  The spaces   *)
(* of the platform are sets of token numbers, the first one is the default *)
(* space.                                                                  *)
DumpDxePcdProtocolInfo ==
  /\ spc = "protocol"
  /\ IF platform.protocols THEN spc' = "tokens" /\ UNCHANGED report ELSE spc' = "done" /\ NotFound
  /\ token' = 0 /\ space' = 0 /\ count' = 0
  /\ UNCHANGED <<platform, command, driver, search, pool, failed>>

(* GetNextToken: 0 at the end of the space, and with NOT_FOUND when the    *)
(* space is empty; both end the inner loop.                                *)
Later(sp, t) == {u \in platform.spaces[sp + 1] : u > t}
GetNextToken(sp, t) == IF Later(sp, t) = {} THEN 0 ELSE CHOOSE u \in Later(sp, t) : \A w \in Later(sp, t) : u <= w
Spaces == Len(platform.spaces) - 1
GetNextTokenSpace(sp) == IF sp < Spaces THEN sp + 1 ELSE 0

DumpPcdInfo ==
  /\ spc = "tokens"
  /\ LET t == GetNextToken(space, token)
     IN  IF t # 0
           THEN /\ Say([what |-> "token", source |-> [kind |-> "info", space |-> space, token |-> t, index |-> count], pei |-> FALSE])
                /\ token' = t /\ count' = count + 1 /\ UNCHANGED <<spc, space>>
           ELSE /\ spc' = IF GetNextTokenSpace(space) = 0 THEN "done" ELSE spc
                /\ space' = GetNextTokenSpace(space) /\ token' = 0
                /\ count' = IF space = 0 THEN 0 ELSE count
                /\ UNCHANGED report
  /\ UNCHANGED <<platform, command, driver, search, pool, failed>>

SourcesNext ==
  \/ PcdDumpEntrypoint \/ DumpPeiPcdHob \/ DumpPcdBinary \/ LocateHandleBuffer \/ LocateFvInstanceWithPcdImage
  \/ ReadSectionFails \/ GetImagePcdDb \/ GetImagePcdDbFromAddress \/ GetFfsByName \/ GetSectionByType \/ DumpDxePcdProtocolInfo \/ DumpPcdInfo

SourcesSpec == SourcesInit /\ [][SourcesNext]_sourcesVars /\ WF_sourcesVars(SourcesNext)

-----------------------------------------------------------------------------
(* The database in a volume: in the first file of the driver's name, the   *)
(* first raw section that begins with the signature.                       *)
DatabaseIn(v) ==
  LET f == v.file[FirstFile(v)]
      hits == {o \in RawSections(f) : f.section[o].pcd}
  IN  IF HasFile(v) /\ hits # {} THEN <<FirstFile(v), CHOOSE o \in hits : \A p \in hits : o <= p>> ELSE <<>>

Dumped == {i \in 1..Len(report) : report[i].what = "database"}

(* An image search ends with the database of the first volume that has the *)
(* driver's file and gives it to ReadFile, and only then with one, whether *)
(* the volume is read by its driver or followed in memory: large and small *)
(* headers, extended volume headers and unaligned sizes notwithstanding.   *)
(* A database is missed only when the list of the volumes, or a section of *)
(* that file, could not be read.                                           *)
Unread(call) == {f.at : f \in {g \in failed : g.call = call}}
ImageFound ==
  spc = "done" /\ Routine(command) \in {"image", "address"} /\ command.argc >= 2 =>
    LET inMemory == Routine(command) = "address"
        at == IF inMemory THEN (IF platform.memory.signature THEN DatabaseIn(platform.memory) ELSE <<>>)
              ELSE LET with == {i \in 1..Len(platform.volumes) : HasFile(platform.volumes[i])} \ Unread("ReadFile")
                   IN  IF with = {} THEN <<>> ELSE DatabaseIn(platform.volumes[CHOOSE i \in with : \A j \in with : i <= j])
    IN  IF at = <<>> \/ Unread("LocateHandleBuffer") # {} \/ Unread("ReadSection") # {} THEN Dumped = {}
        ELSE \E i \in Dumped : report[i].source.at[2] = at[1] /\ report[i].source.at[3] = at[2]

(* Each database is dumped as the kind it is: PEI tokens with PEI numbers. *)
PhaseRight ==
  \A i \in Dumped : report[i].source.kind = "section" =>
    LET a == report[i].source.at
        v == IF a[1] = 0 THEN platform.memory ELSE platform.volumes[a[1]]
    IN  v.file[a[2]].name = IF report[i].pei THEN "pei" ELSE "dxe"

(* The protocol dump has every token of every space once, also when the    *)
(* default space is empty, numbered from 0 in the default space and again  *)
(* through all the others.                                                 *)
Infos == {report[i].source : i \in {j \in 1..Len(report) : report[j].what = "token"}}
TokensOnce ==
  spc = "done" /\ command.option = "-PROTOCOL" /\ command.argc >= 2 /\ platform.protocols =>
    /\ Len(report) = Cardinality(Infos)
    /\ \A s \in 0..Spaces : {r.token : r \in {q \in Infos : q.space = s}} = platform.spaces[s + 1]
    /\ LET ex == {r \in Infos : r.space # 0} IN {r.index : r \in ex} = 0..Cardinality(ex) - 1

(* The database or the tokens that are dumped are those the option names.  *)
SourcesRight == ImageFound /\ PhaseRight /\ TokensOnce
=============================================================================
