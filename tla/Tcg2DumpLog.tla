----------------------------- MODULE Tcg2DumpLog -----------------------------
(***************************************************************************)
(* The Tcg2DumpLog application: the walks of DumpEventLog over the event   *)
(* log in both formats and over the final events table, the PCR values it  *)
(* recalculates from them (-E), the binary file it writes (-BIN) and reads *)
(* back (-PARSE).  A run may be followed by another one.                   *)
(*                                                                         *)
(* Memory is a sequence of cells; an address is an index.  An integer of   *)
(* 32 bits takes U32 cells, the value in the first of them, an algorithm   *)
(* or a size in event data one cell, so that a step by the wrong size      *)
(* lands inside an event.  A hash is collision free: a digest register is  *)
(* the sequence of the digests it was extended with.                       *)
(***************************************************************************)
EXTENDS Integers, Sequences, SequencesExt, FiniteSetsExt

CONSTANTS
  Events,        \* [pcr, type, data, digest]: what firmware may measure while the tool runs
  SpecAlgs,      \* the algorithm lists the Spec ID event may announce
  CommandLines,  \* [parses, help, acpi, pcr, formats, calculate, bin, parse, cap]
  Boots,         \* sequences of events measured before the first run
  MaxPcrIndex,   \* MAX_PCR_INDEX
  MaxEvents,     \* bound: events since the boot
  MaxRuns,       \* bound: runs of the tool
  MaxShortages   \* bound: values of a run calculated without memory for a hash

PCR_INDEX_ALL == 99
NoTable == -1
U32 == 2
Junk == 90
EV_NO_ACTION == 3
EV_SEPARATOR == 4
EV_EFI_VARIABLE_BOOT == 12
EV_EFI_BOOT_SERVICES_APPLICATION == 13
EV_EFI_PLATFORM_FIRMWARE_BLOB2 == 18
EV_EFI_HANDOFF_TABLES2 == 19
EV_EFI_SPDM_FIRMWARE_BLOB == 21
Sp800155Signature == 31
StartupLocalitySignature == 32
SpecIdSignature == 33
NUL == 34             \* ends a string
EndNode == 35         \* ends a device path
Failed == 255         \* SetMem (TcgDigest, DigestSize, 0xFF)
TPM_ALG_SHA1 == 41
TPM_ALG_SHA256 == 42
TPM_ALG_SHA384 == 43

(* GetHashSizeFromAlgo of Tpm2CommandLib, in cells. *)
HashSize(alg) == CASE alg = TPM_ALG_SHA1 -> 2 [] alg = TPM_ALG_SHA256 -> 3 [] alg = TPM_ALG_SHA384 -> 4 [] OTHER -> 0

(* GetHashInfo finds the algorithms of mHashInfo only. *)
mHashInfo == {TPM_ALG_SHA1, TPM_ALG_SHA256}

mTcg2EventInfo == <<"TCG_1_2", "TCG_2">>

VARIABLES
  events,     \* what has been measured since the boot, in order
  algs,       \* the algorithms of the platform's Spec ID event
  log,        \* format -> the cells of the log
  lastEntry,  \* format -> the start of the last entry in it
  table,      \* the cells of the final events table
  tableFrom,  \* the table holds the events behind the first tableFrom, or NoTable
  line,       \* the command line of the run
  pc,         \* place in UefiMain and DumpEventLog
  PcrIndex, Index,            \* locals of UefiMain; Index counts mTcg2EventInfo from 1
  pcrLoop,    \* inside the for loop over all PCRs
  EventLogLastEntry,
  fetched,    \* Len(events) when GetEventLog returned EventLogLastEntry
  AlgoIndex,  \* local of DumpEventLog, from 1
  at,         \* EventHdr or TcgPcrEvent2
  NumberOfEvents,
  counted,    \* Len(events) when the last loop of the call ended; without a table, fetched
  digest,     \* TcgDigest or HashDigest: what it was extended with
  shown,      \* [from, at]: what this call of DumpEventLog has printed
  report,     \* what the calls of DumpEventLog of this run have printed
  file,       \* cells of the binary file, <<>> when there is none
  runs

firmware == <<events, algs, log, lastEntry, table, tableFrom>>
walk == <<AlgoIndex, at, NumberOfEvents, counted, digest, shown>>
main == <<line, PcrIndex, Index, pcrLoop, EventLogLastEntry, fetched>>
vars == <<firmware, walk, main, pc, report, file, runs>>

-----------------------------------------------------------------------------
(* How firmware lays events out.  Specified by TCG and known here from the *)
(* structures the tool reads them with.                                    *)

(* The sequences of ss one behind the other. *)
Concat(ss) ==
  LET C[i \in 0..Len(ss)] == IF i = 0 THEN <<>> ELSE C[i - 1] \o ss[i] IN C[Len(ss)]

Word(v) == <<v, 0>>
Filler(n) == [i \in 1..n |-> Junk]
DigestCells(e, alg) == <<e.digest[alg]>> \o Filler(HashSize(alg) - 1)

EventHdrCells(e) ==
  Word(e.pcr) \o Word(e.type) \o DigestCells(e, TPM_ALG_SHA1) \o Word(Len(e.data)) \o e.data

Event2Cells(as, e) ==
  Word(e.pcr) \o Word(e.type) \o Word(Len(as))
    \o Concat([i \in 1..Len(as) |-> <<as[i]>> \o DigestCells(e, as[i])])
    \o Word(Len(e.data)) \o e.data

EventCells(format, as, e) == IF format = "TCG_2" THEN Event2Cells(as, e) ELSE EventHdrCells(e)

SpecIdEvent(as) ==
  [pcr |-> 0, type |-> EV_NO_ACTION, digest |-> [a \in {TPM_ALG_SHA1} |-> 0],
   data |-> <<SpecIdSignature, Junk>> \o Word(Len(as))
              \o Concat([i \in 1..Len(as) |-> <<as[i], HashSize(as[i])>>]) \o <<1, Junk>>]

(* The log of the events es, and where its entry i starts. *)
LogCells(format, as, es) ==
  (IF format = "TCG_2" THEN EventHdrCells(SpecIdEvent(as)) ELSE <<>>)
    \o Concat([i \in 1..Len(es) |-> EventCells(format, as, es[i])])
EntryAt(format, i) == Len(LogCells(format, algs, SubSeq(events, 1, i - 1))) + 1

Formats == {"TCG_1_2", "TCG_2"}
FinalCount == IF tableFrom = NoTable THEN 0 ELSE Len(events) - tableFrom

(* The register of the TPM after the first n events. *)
Extended(alg, pcr, es) ==
  LET mine == SelectSeq(es, LAMBDA e : e.pcr = pcr /\ e.type # EV_NO_ACTION)
  IN  [i \in 1..Len(mine) |-> mine[i].digest[alg]]

-----------------------------------------------------------------------------
(* Reading events. *)
Cell(m, a) == IF a \in 1..Len(m) THEN m[a] ELSE Junk

SHA1Size == 2
HdrSize == 2 * U32 + SHA1Size + U32            \* sizeof(TCG_PCR_EVENT_HDR)
GetPcrEventSize(m, a) == HdrSize + Cell(m, a + HdrSize - U32)

(* The loop over the digests of a TCG_PCR_EVENT2, after i turns: the next  *)
(* algorithm is taken from behind the digest, also behind the last one.    *)
DigestWalk(m, a) ==
  LET D[i \in 0..Cell(m, a + 2 * U32)] ==
        IF i = 0 THEN [hashAlgo |-> Cell(m, a + 3 * U32), buffer |-> a + 3 * U32 + 1]
                 ELSE LET prev == D[i - 1]
                          next == prev.buffer + HashSize(prev.hashAlgo)
                      IN  [hashAlgo |-> Cell(m, next), buffer |-> next + 1]
  IN  D

(* Where the EventSize field of a TCG_PCR_EVENT2 is. *)
EventSizeAt(m, a) == DigestWalk(m, a)[Cell(m, a + 2 * U32)].buffer - 1

GetPcrEvent2Size(m, a) == EventSizeAt(m, a) + U32 + Cell(m, EventSizeAt(m, a)) - a

GetDigestFromPcrEvent2(m, a, alg) ==
  LET D == DigestWalk(m, a)
      found == {i \in 0..(Cell(m, a + 2 * U32) - 1) : D[i].hashAlgo = alg}
  IN  IF found = {} THEN <<>> ELSE <<Cell(m, D[Min(found)].buffer)>>

GetTcgSpecIdNumberOfAlgorithms(m, a) == Cell(m, a + 2)
GetTcgSpecIdDigestSize(m, a, i) == Cell(m, a + 2 + U32 + 2 * (i - 1))     \* algorithmId of entry i

GetTcgEfiSpecIdEventStructSize(m, a) ==
  LET vendorInfoSize == a + 2 + U32 + 2 * GetTcgSpecIdNumberOfAlgorithms(m, a)
  IN  vendorInfoSize + 1 + Cell(m, vendorInfoSize) - a

(* The address behind the first cell from p on that is the mark: what is   *)
(* read of a string or a device path whose size nobody looks at.           *)
Behind(m, p, mark) ==
  LET marks == {a \in p..Len(m) : m[a] = mark} IN IF marks = {} THEN Len(m) + 2 ELSE Min(marks) + 1

(* The Event2 structure of SP800-155: five strings with their sizes in     *)
(* front, an identifier before the last one.  The sizes lead from one to   *)
(* the next, but %a prints each up to its NUL.                             *)
AfterString(m, p) == p + 1 + Cell(m, p)
Sp800155Strings(m, b) ==
  LET second == AfterString(m, b + 3)
      third == AfterString(m, second)
      fourth == AfterString(m, third)
  IN  {b + 3, second, third, fourth, AfterString(m, fourth) + 1}
DumpTcgSp800155PlatformIdEvent2Struct(m, b) ==
  Max({Behind(m, p + 1, NUL) : p \in Sp800155Strings(m, b)})

(* The address behind the last cell that ParseEventData interprets of the  *)
(* event data at b.                                                        *)
ParseEventData(m, type, b, size) ==
  CASE type = EV_NO_ACTION /\ size >= 3 /\ Cell(m, b) = Sp800155Signature ->
         DumpTcgSp800155PlatformIdEvent2Struct(m, b)
    [] type = EV_NO_ACTION /\ size >= 2 /\ Cell(m, b) = StartupLocalitySignature -> b + 2
    [] type = EV_SEPARATOR -> b + U32
    [] type = EV_EFI_VARIABLE_BOOT -> b + 2 + Cell(m, b) + Cell(m, b + 1)
    [] type = EV_EFI_BOOT_SERVICES_APPLICATION -> Behind(m, b + 1, EndNode)    \* ConvertDevicePathToText
    [] type = EV_EFI_PLATFORM_FIRMWARE_BLOB2 -> b + 1 + Cell(m, b) + 2
    [] type = EV_EFI_HANDOFF_TABLES2 ->
         LET tables == b + 1 + Cell(m, b) IN tables + 1 + 2 * Cell(m, tables)
    [] type = EV_EFI_SPDM_FIRMWARE_BLOB ->      \* device type, two headers, measurement, PCI context
         b + 3 + Cell(m, b + 2) + IF Cell(m, b) = 1 THEN 2 ELSE 0
    [] OTHER -> b + size

DumpEvent(m, a) == ParseEventData(m, Cell(m, a + U32), a + HdrSize, Cell(m, a + HdrSize - U32))
DumpEvent2(m, a) ==
  ParseEventData(m, Cell(m, a + U32), EventSizeAt(m, a) + U32, Cell(m, EventSizeAt(m, a)))

(* ExtendEvent sets the register to 0xFF when it has no hash function, or  *)
(* no memory for the context of the hash.                                  *)
IsShort(r) == r.alg \in mHashInfo /\ r.digest # <<>> /\ r.digest[1] = Failed
MemoryFails == Cardinality({i \in 1..Len(report) : IsShort(report[i])}) < MaxShortages
ExtendEvent(alg, register, new) ==
  IF alg \notin mHashInfo THEN {<<Failed>>}
  ELSE {Append(register, new)} \cup (IF MemoryFails THEN {<<Failed>>} ELSE {})

-----------------------------------------------------------------------------
Format == mTcg2EventInfo[Index]
FromFile == line.parse
WalkFormat == IF FromFile THEN "TCG_2" ELSE Format
Memory == IF FromFile THEN file ELSE log[Format]
Calculate == line.calculate /\ ~FromFile

HashAlg == IF WalkFormat = "TCG_2" THEN GetTcgSpecIdDigestSize(Memory, HdrSize + 1, AlgoIndex) ELSE TPM_ALG_SHA1

Init ==
  /\ events \in Boots
  /\ algs \in SpecAlgs
  /\ log = [f \in Formats |-> LogCells(f, algs, events)]
  /\ lastEntry = [f \in Formats |-> EntryAt(f, Len(events))]
  /\ table = <<>> /\ tableFrom = NoTable
  /\ line \in CommandLines
  /\ pc = "UefiMain"
  /\ PcrIndex = 0 /\ Index = 0 /\ pcrLoop = FALSE /\ EventLogLastEntry = 0 /\ fetched = 0
  /\ AlgoIndex = 0 /\ at = 0 /\ NumberOfEvents = 0 /\ counted = 0 /\ digest = <<>> /\ shown = <<>>
  /\ report = <<>>
  /\ file = <<>>
  /\ runs = 1

(* Firmware measures e at any time.  Once GetEventLog has been called, the *)
(* event is also in the final events table.                                *)
Measure(e) ==
  /\ Len(events) < MaxEvents
  /\ pc # "done"
  /\ events' = Append(events, e)
  /\ log' = [f \in Formats |-> log[f] \o EventCells(f, algs, e)]
  /\ lastEntry' = [f \in Formats |-> Len(log[f]) + 1]
  /\ table' = IF tableFrom = NoTable THEN table ELSE table \o Event2Cells(algs, e)
  /\ UNCHANGED <<algs, tableFrom, walk, main, pc, report, file, runs>>

(* The first part of UefiMain: the command line. *)
UefiMain ==
  /\ pc = "UefiMain"
  /\ PcrIndex' = line.pcr
  /\ pc' = IF ~line.parses \/ line.help \/ line.acpi \/ (line.pcr > MaxPcrIndex /\ line.pcr # PCR_INDEX_ALL)
             THEN "done"
             ELSE IF line.parse THEN "parse" ELSE "protocol"
  /\ UNCHANGED <<firmware, line, Index, pcrLoop, EventLogLastEntry, fetched, walk, report, file, runs>>

(* DumpEventLog up to the first turn of the loop over the log: the Spec ID *)
(* event is shown for every PcrIndex.                                      *)
BeginWalk(m, format, algo, calc) ==
  /\ AlgoIndex' = algo
  /\ digest' = <<>>
  /\ at' = IF format = "TCG_2"
             THEN HdrSize + 1 + GetTcgEfiSpecIdEventStructSize(m, HdrSize + 1) ELSE 1
  /\ shown' = IF format = "TCG_2" /\ ~calc THEN <<[from |-> "log", at |-> 1]>> ELSE <<>>
  /\ NumberOfEvents' = 0 /\ counted' = 0
  /\ pc' = "log"

(* -PARSE: the status of ReadFileToBuffer is not looked at; when the file  *)
(* is missing or a call fails the walk runs on an uninitialized pointer.   *)
Parse ==
  /\ pc = "parse"
  /\ \/ pc' = "undefined" /\ UNCHANGED <<walk, PcrIndex, EventLogLastEntry>>
     \/ /\ file # <<>>
        /\ BeginWalk(file, "TCG_2", 1, FALSE)
        /\ PcrIndex' = PCR_INDEX_ALL
        /\ EventLogLastEntry' = Len(file)
  /\ UNCHANGED <<firmware, line, Index, pcrLoop, fetched, report, file, runs>>

(* LocateProtocol and GetCapability, and -C. *)
Tcg2Protocol ==
  /\ pc = "protocol"
  /\ \/ pc' = "done" /\ UNCHANGED Index
     \/ ~line.cap /\ pc' = "format" /\ Index' = 1
  /\ UNCHANGED <<firmware, line, PcrIndex, pcrLoop, EventLogLastEntry, fetched, walk, report, file, runs>>

(* One turn of the loop over the formats, up to the walk.  A format is     *)
(* skipped when -L does not select it or GetEventLog fails for it.         *)
NextFormat ==
  /\ Index' = Index + 1
  /\ pc' = IF Index < Len(mTcg2EventInfo) THEN "format" ELSE "done"

RetryingSkipFormat == pc = "format" /\ UNCHANGED vars     \* mutant: continue without the next Index

SkipFormat ==
  /\ pc = "format"
  /\ NextFormat
  /\ UNCHANGED <<firmware, line, PcrIndex, pcrLoop, EventLogLastEntry, fetched, walk, report, file, runs>>

GetEventLog ==
  /\ pc = "format"
  /\ Format \in line.formats
  /\ fetched' = Len(events)
  /\ EventLogLastEntry' = lastEntry[Format]
  /\ tableFrom' = IF Format = "TCG_2" /\ tableFrom = NoTable THEN Len(events) ELSE tableFrom
  /\ pc' = "binary"
  /\ UNCHANGED <<events, algs, log, lastEntry, table, line, PcrIndex, Index, pcrLoop, walk, report, file, runs>>

(* -BIN: the size is that of the last entry behind its start.  The file is *)
(* emptied before it is written; a call of the file system may fail.       *)
BinarySize == EventLogLastEntry - 1 + IF Format = "TCG_2" THEN GetPcrEvent2Size(log[Format], EventLogLastEntry)
                                                          ELSE GetPcrEventSize(log[Format], EventLogLastEntry)

(* ... and the call of DumpEventLog, or the first one of the loop over the *)
(* PCRs.                                                                   *)
DumpBinary ==
  /\ pc = "binary"
  /\ IF line.bin /\ Format = "TCG_2"
       THEN \/ file' = SubSeq(log[Format], 1, BinarySize)
            \/ file' \in {file, <<>>}
       ELSE UNCHANGED file
  /\ pcrLoop' = (Calculate /\ PcrIndex = PCR_INDEX_ALL)
  /\ PcrIndex' = IF pcrLoop' THEN 0 ELSE PcrIndex
  /\ BeginWalk(log[Format], Format, 1, Calculate)
  /\ UNCHANGED <<firmware, line, Index, EventLogLastEntry, fetched, report, runs>>

(* One event of the log or of the table: shown, or extended into digest.   *)
Wanted(m) == Cell(m, at) = PcrIndex \/ (PcrIndex = PCR_INDEX_ALL /\ ~Calculate)
EventDigest(m) == IF WalkFormat = "TCG_2" THEN GetDigestFromPcrEvent2(m, at, HashAlg) ELSE <<Cell(m, at + 2 * U32)>>

Extending(m) == Wanted(m) /\ Calculate /\ Cell(m, at + U32) # EV_NO_ACTION /\ EventDigest(m) # <<>>
Extend(m) ==
  IF Extending(m) THEN digest' \in ExtendEvent(HashAlg, digest, EventDigest(m)[1]) ELSE UNCHANGED digest

TableBlindVisit(m, from) ==        \* mutant: events of the table are not printed
  /\ shown' = IF Wanted(m) /\ ~Calculate /\ from = "log" THEN Append(shown, [from |-> from, at |-> at]) ELSE shown
  /\ Extend(m)

NoActionBlindVisit(m, from) ==     \* mutant: EV_NO_ACTION is extended as well
  /\ shown' = IF Wanted(m) /\ ~Calculate THEN Append(shown, [from |-> from, at |-> at]) ELSE shown
  /\ digest' = IF Wanted(m) /\ Calculate THEN digest \o EventDigest(m) ELSE digest

Visit(m, from) ==
  /\ shown' = IF Wanted(m) /\ ~Calculate THEN Append(shown, [from |-> from, at |-> at]) ELSE shown
  /\ Extend(m)

SizeAt(m) == IF WalkFormat = "TCG_2" THEN GetPcrEvent2Size(m, at) ELSE GetPcrEventSize(m, at)

HasTable == WalkFormat = "TCG_2" /\ ~FromFile /\ tableFrom # NoTable

InLog == at <= EventLogLastEntry

LogStep ==
  /\ pc = "log"
  /\ InLog
  /\ Visit(Memory, "log")
  /\ at' = at + SizeAt(Memory)
  /\ UNCHANGED <<firmware, main, AlgoIndex, NumberOfEvents, counted, pc, report, file, runs>>

LogEnd ==
  /\ pc = "log"
  /\ ~InLog
  /\ pc' = IF HasTable THEN "table" ELSE "print"
  /\ at' = 1
  /\ counted' = IF HasTable THEN counted ELSE fetched
  /\ UNCHANGED <<firmware, main, AlgoIndex, NumberOfEvents, digest, shown, report, file, runs>>

(* The table is live: its NumberOfEvents is read again in every turn. *)
TableStep ==
  /\ pc = "table"
  /\ NumberOfEvents < FinalCount
  /\ Visit(table, "table")
  /\ at' = at + SizeAt(table)
  /\ NumberOfEvents' = NumberOfEvents + 1
  /\ UNCHANGED <<firmware, main, AlgoIndex, counted, pc, report, file, runs>>

TableEnd ==
  /\ pc = "table"
  /\ NumberOfEvents >= FinalCount
  /\ pc' = "print"
  /\ counted' = Len(events)
  /\ UNCHANGED <<firmware, main, AlgoIndex, at, NumberOfEvents, digest, shown, report, file, runs>>

(* The end of a walk.  With -E the value is printed beside the one that    *)
(* DumpPcr reads from the TPM now, and the next algorithm, PCR or format   *)
(* begins; PcrIndex is the loop variable of UefiMain.                      *)
Entry ==
  [format |-> WalkFormat, pcr |-> PcrIndex, alg |-> HashAlg, digest |-> digest, shown |-> shown,
   calculated |-> Calculate, logged |-> IF FromFile THEN 0 ELSE fetched, counted |-> counted,
   read |-> Len(events), tpm |-> IF Calculate THEN Extended(HashAlg, PcrIndex, events) ELSE <<>>]

LastAlgorithm == WalkFormat # "TCG_2" \/ AlgoIndex = GetTcgSpecIdNumberOfAlgorithms(Memory, HdrSize + 1)

NextWalk(algo) == BeginWalk(Memory, WalkFormat, algo, Calculate)

WalkEnd ==
  /\ pc = "print"
  /\ report' = Append(report, Entry)
  /\ \/ /\ Calculate /\ ~LastAlgorithm
        /\ NextWalk(AlgoIndex + 1)
        /\ UNCHANGED <<PcrIndex, Index, pcrLoop>>
     \/ /\ Calculate /\ LastAlgorithm /\ pcrLoop
        /\ PcrIndex' = PcrIndex + 1
        /\ IF PcrIndex < MaxPcrIndex
             THEN NextWalk(1) /\ UNCHANGED <<Index, pcrLoop>>
             ELSE NextFormat /\ pcrLoop' = FALSE /\ UNCHANGED walk
     \/ /\ ~FromFile /\ ~pcrLoop /\ (Calculate => LastAlgorithm)
        /\ NextFormat
        /\ UNCHANGED <<PcrIndex, pcrLoop, walk>>
     \/ /\ FromFile
        /\ pc' = "done"
        /\ UNCHANGED <<PcrIndex, Index, pcrLoop, walk>>
  /\ UNCHANGED <<firmware, line, EventLogLastEntry, fetched, file, runs>>

(* The user starts the tool again. *)
RunAgain ==
  /\ pc = "done"
  /\ runs < MaxRuns
  /\ runs' = runs + 1
  /\ line' \in CommandLines
  /\ pc' = "UefiMain"
  /\ PcrIndex' = 0 /\ Index' = 0 /\ pcrLoop' = FALSE /\ EventLogLastEntry' = 0 /\ fetched' = 0
  /\ AlgoIndex' = 0 /\ at' = 0 /\ NumberOfEvents' = 0 /\ counted' = 0 /\ digest' = <<>> /\ shown' = <<>>
  /\ report' = <<>>
  /\ UNCHANGED <<firmware, file>>

Program ==
  \/ UefiMain \/ Parse \/ Tcg2Protocol \/ SkipFormat \/ GetEventLog \/ DumpBinary
  \/ LogStep \/ LogEnd \/ TableStep \/ TableEnd \/ WalkEnd

Next == Program \/ RunAgain \/ \E e \in Events : Measure(e)

Spec == Init /\ [][Next]_vars /\ WF_vars(Program)

-----------------------------------------------------------------------------
TypeOK ==
  /\ tableFrom \in NoTable..Len(events)
  /\ pc \in {"UefiMain", "parse", "protocol", "format", "binary", "log", "table", "print", "done", "undefined"}
  /\ PcrIndex \in 0..PCR_INDEX_ALL /\ Index \in 0..(Len(mTcg2EventInfo) + 1) /\ pcrLoop \in BOOLEAN
  /\ fetched \in 0..Len(events) /\ AlgoIndex \in 0..Len(algs) /\ at \in Nat
  /\ NumberOfEvents \in 0..Len(events) /\ counted \in 0..Len(events) /\ digest \in Seq(Nat)
  /\ \A i \in 1..Len(shown) : shown[i].from \in {"log", "table"} /\ shown[i].at \in Nat

(* The number of the event that an entry of the log or the table is about, *)
(* 0 for the Spec ID event.                                                *)
TableEntryAt(i) == EntryAt("TCG_2", tableFrom + i) - EntryAt("TCG_2", tableFrom + 1) + 1
Number(format, s) ==
  IF s.from = "table" THEN tableFrom + CHOOSE i \in 1..FinalCount : TableEntryAt(i) = s.at
  ELSE IF format = "TCG_2" /\ s.at = 1 THEN 0
  ELSE CHOOSE i \in 1..Len(events) : EntryAt(format, i) = s.at

(* Whatever the log holds, the walk only ever interprets the start of an   *)
(* entry as one: the sizes computed from the digests of an event lead from *)
(* each entry to the next, in the log, in the table and in the file.       *)
OnEvent ==
  /\ pc = "log" /\ InLog => \E i \in 1..Len(events) : at = EntryAt(WalkFormat, i)
  /\ pc = "table" /\ NumberOfEvents < FinalCount => at = TableEntryAt(NumberOfEvents + 1)

(* What the code takes for granted of the data of an event: the strings of *)
(* an Event2 structure end in a NUL, a device path in an end node.         *)
Closed(e) ==
  /\ e.type = EV_NO_ACTION /\ Len(e.data) >= 3 /\ e.data[1] = Sp800155Signature =>
       \A p \in Sp800155Strings(e.data, 1) : Cell(e.data, p) > 0 /\ Cell(e.data, AfterString(e.data, p) - 1) = NUL
  /\ e.type = EV_EFI_BOOT_SERVICES_APPLICATION => e.data # <<>> /\ Last(e.data) = EndNode

(* What is interpreted of the data of an event lies inside the event, when *)
(* its strings and its device path end inside of it.                       *)
WithinEvent ==
  LET Interpreted(m) == IF WalkFormat = "TCG_2" THEN DumpEvent2(m, at) ELSE DumpEvent(m, at) IN
  /\ pc = "log" /\ InLog /\ ~Calculate =>
       \A i \in 1..Len(events) :
         at = EntryAt(WalkFormat, i) /\ Closed(events[i]) => Interpreted(Memory) <= EntryAt(WalkFormat, i + 1)
  /\ pc = "table" /\ ~Calculate /\ NumberOfEvents < FinalCount /\ Closed(events[tableFrom + NumberOfEvents + 1]) =>
       Interpreted(table) <= TableEntryAt(NumberOfEvents + 2)

(* A printed log shows every event of the PCR once and in the order of     *)
(* measurement, those measured while it is printed too, when no earlier    *)
(* call of GetEventLog has put events of the log into the final events     *)
(* table; a log without a table shows those up to GetEventLog.             *)
Selected(p, n) == SelectSeq([i \in 1..n |-> i], LAMBDA i : p \in {PCR_INDEX_ALL, events[i].pcr})
ShownNumbers(r) == [i \in 1..Len(r.shown) |-> Number(r.format, r.shown[i])]
ShownOnce ==
  report # <<>> =>
    LET r == Last(report) IN
    ~r.calculated /\ ~FromFile =>
      CASE r.format = "TCG_1_2" -> ShownNumbers(r) = Selected(r.pcr, r.logged)
        [] r.format = "TCG_2" /\ tableFrom = r.logged -> ShownNumbers(r) = <<0>> \o Selected(r.pcr, r.counted)
        [] OTHER -> TRUE

(* The expected value of a PCR is what DumpPcr reads from the TPM behind   *)
(* it, but for the events measured between the last test of the loop over  *)
(* the table and that call: the log and the table together hold each event *)
(* once, and each algorithm starts from zero.  A 1.2 log is as of          *)
(* GetEventLog.  Where memory for a hash was short it begins with 0xFF.    *)
ExpectedRight ==
  report # <<>> =>
    LET r == Last(report) IN
    r.calculated /\ r.alg \in mHashInfo /\ (r.format = "TCG_2" => tableFrom = r.logged) =>
      \/ r.tpm = r.digest \o Extended(r.alg, r.pcr, SubSeq(events, r.counted + 1, r.read))
      \/ IsShort(r)

(* A binary file is the log up to some event, whole entries only, and      *)
(* parsing it shows the Spec ID event and then every entry of it.          *)
FileIsLog ==
  file # <<>> =>
    \E n \in 1..Len(events) :
      /\ file = LogCells("TCG_2", algs, SubSeq(events, 1, n))
      /\ FromFile /\ report # <<>> => ShownNumbers(report[1]) = [i \in 1..(n + 1) |-> i - 1]

(* "-E - Print expected PCR value", for "-I - PcrIndex, the valid value is *)
(* 0-23|ALL" (PrintUsage): with ALL, every PCR is printed for each format. *)
AllPcrsExpected ==
  pc = "done" /\ line.calculate /\ line.pcr = PCR_INDEX_ALL =>
    \A i \in 1..Len(report) :
      {report[j].pcr : j \in {k \in 1..Len(report) : report[k].format = report[i].format}} = 0..MaxPcrIndex

(* A walk of the log, the final events table or a file goes from event to  *)
(* event, interprets nothing outside of the one it is at, and shows and    *)
(* writes what has been measured.                                          *)
EventsRight == TypeOK /\ OnEvent /\ WithinEvent /\ ShownOnce /\ FileIsLog
=============================================================================
