---------------------------- MODULE PatchMicrocode ----------------------------
(***************************************************************************)
(* PatchMicrocode: the processors asked one after the other for what they  *)
(* are or to load an update, and the checksums of an update.               *)
(*                                                                         *)
(* A processor is its index; what it reports of itself is its index too.   *)
(* An update is a record of 32-bit words, here of words below Word.        *)
(***************************************************************************)
EXTENDS Integers, Sequences

CONSTANTS
  Machines,     \* [enabled, bsp]: which processors are enabled, and the one that boots
  Updates,      \* [signature, flags, checksum, rest, data, default, extended, extendedChecksum]
  Word          \* one more than the largest word, 2^32 in the code

Dwords == 0..Word - 1
UpdateForm ==
  [signature : Dwords, flags : Dwords, checksum : Dwords, rest : Dwords, data : Seq(Dwords), default : BOOLEAN,
   extended : Seq(Dwords \X Dwords \X Dwords), extendedChecksum : Dwords]
ASSUME McuAssumption ==
  /\ Word \in Nat \ {0}
  /\ \A m \in Machines : m.enabled \in Seq(BOOLEAN) /\ m.bsp \in 0..Len(m.enabled) - 1 /\ m.enabled[m.bsp + 1]
  /\ \A u \in Updates : u \in UpdateForm

VARIABLES
  machine, update, request,
  cpc,          \* "start", "locate", "cpus", "header", "table", "done", "asserted", "undefined"
  mpServices, numberOfCpus, bspIndex, cpuIndex,
  shownInfo,    \* per index, the processor whose CPU_INFO was shown, NoInfo if zeros
  patched,      \* the processors that loaded the update, in order
  checkSums,    \* the values of CheckSum32 printed
  incomplete,   \* InCompleteCheckSum32
  told,         \* GetNumberOfProcessors and WhoAmI have answered
  startFailed   \* StartupThisAP failed for a processor that is enabled

cpuVars == <<machine, update, request, cpc, mpServices, numberOfCpus, bspIndex, cpuIndex, shownInfo, patched, checkSums, incomplete, told, startFailed>>

NoInfo == -1
Requests == {"-D", "-D file", "-P file", "other"}
Cpus == 0..Len(machine.enabled) - 1
Enabled(c) == machine.enabled[c + 1]

McuInit ==
  /\ machine \in Machines /\ update \in Updates /\ request \in Requests
  /\ cpc = "start" /\ mpServices = FALSE /\ numberOfCpus = 1 /\ bspIndex = 0 /\ cpuIndex = 0
  /\ shownInfo = <<>> /\ patched = <<>> /\ checkSums = <<>> /\ incomplete = 0
  /\ told = FALSE /\ startFailed = FALSE

-----------------------------------------------------------------------------
(* The status of GetImageFromFile is not looked at: after an error         *)
(* ImageBuffer is whatever was on the stack.                               *)
PatchMicrocodeEntrypoint ==
  /\ cpc = "start"
  /\ \/ request = "-D" /\ cpc' = "locate"
     \/ request = "-P file" /\ cpc' \in {"locate", "undefined"}
     \/ request = "-D file" /\ cpc' \in {"header", "undefined"}
     \/ request = "other" /\ cpc' = "done"
  /\ UNCHANGED <<machine, update, request, mpServices, numberOfCpus, bspIndex, cpuIndex, shownInfo, patched, checkSums, incomplete, told, startFailed>>

(* The start of DumpCpuInfo and of TriggerMicrocodeUpdate, the same lines  *)
(* in both.  Without the protocol there is one processor, number 0.  An    *)
(* error of the two calls ends a DEBUG build at an ASSERT, a RELEASE build *)
(* goes on.                                                                *)
LocateMpServices ==
  /\ cpc = "locate"
  /\ mpServices' \in BOOLEAN
  /\ told' \in IF mpServices' THEN BOOLEAN ELSE {FALSE}
  /\ cpc' \in IF mpServices' /\ ~told' THEN {"cpus", "asserted"} ELSE {"cpus"}
  /\ IF told' THEN numberOfCpus' = Len(machine.enabled) /\ bspIndex' = machine.bsp
     ELSE /\ numberOfCpus' \in IF mpServices' THEN {1, Len(machine.enabled)} ELSE {1}
          /\ bspIndex' \in IF mpServices' THEN {0, machine.bsp} ELSE {0}
  /\ UNCHANGED <<machine, update, request, cpuIndex, shownInfo, patched, checkSums, incomplete, startFailed>>

-----------------------------------------------------------------------------
IsBsp(i) == i = bspIndex          \* in DumpCpuInfo
IsBspZero(i) == i = 0
IsBspToPatch(i) == i = bspIndex   \* in TriggerMicrocodeUpdate

(* The processors on which a procedure may run for an index: the one that  *)
(* executes this code, the one StartupThisAP finds, or none.               *)
RunsOn(i, isBsp) ==
  IF isBsp THEN {machine.bsp}
  ELSE IF i = machine.bsp \/ ~Enabled(i) THEN {NoInfo} ELSE {i, NoInfo}

(* CpuInfo is cleared before every processor is asked.                     *)
ClearedCpuInfo == NoInfo

(* GetCpuInfoForThis fills the buffer, or it stays as it is.               *)
GetCpuInfoForThis(on) == IF on = NoInfo THEN ClearedCpuInfo ELSE on

DumpCpuInfo ==
  /\ cpc = "cpus" /\ request = "-D" /\ cpuIndex < numberOfCpus
  /\ \E on \in RunsOn(cpuIndex, IsBsp(cpuIndex)) :
       /\ shownInfo' = Append(shownInfo, GetCpuInfoForThis(on))
       /\ startFailed' = (startFailed \/ (on = NoInfo /\ Enabled(cpuIndex) /\ cpuIndex # machine.bsp))
  /\ cpuIndex' = cpuIndex + 1
  /\ UNCHANGED <<machine, update, request, cpc, mpServices, numberOfCpus, bspIndex, patched, checkSums, incomplete, told>>

TriggerMicrocodeUpdate ==
  /\ cpc = "cpus" /\ request = "-P file" /\ cpuIndex < numberOfCpus
  /\ \E on \in RunsOn(cpuIndex, IsBspToPatch(cpuIndex)) :
       /\ patched' = IF on = NoInfo THEN patched ELSE Append(patched, on)
       /\ startFailed' = (startFailed \/ (on = NoInfo /\ Enabled(cpuIndex) /\ cpuIndex # machine.bsp))
  /\ cpuIndex' = cpuIndex + 1
  /\ UNCHANGED <<machine, update, request, cpc, mpServices, numberOfCpus, bspIndex, shownInfo, checkSums, incomplete, told>>

CpusEnd ==
  /\ cpc = "cpus" /\ cpuIndex >= numberOfCpus
  /\ cpc' = "done"
  /\ UNCHANGED <<machine, update, request, mpServices, numberOfCpus, bspIndex, cpuIndex, shownInfo, patched, checkSums, incomplete, told, startFailed>>

-----------------------------------------------------------------------------
Totals(words) ==
  LET total[n \in 0..Len(words)] == IF n = 0 THEN 0 ELSE total[n - 1] + words[n] IN total
Sum(words) == Totals(words)[Len(words)]
CalculateSum32(words) == Sum(words) % Word
HeaderWords == <<update.signature, update.flags, update.checksum, update.rest>>

(* The sum of header and data without the three words that an extended     *)
(* entry has of its own.                                                   *)
InCompleteCheckSum32 == (CalculateSum32(HeaderWords \o update.data) - update.signature - update.flags - update.checksum) % Word

(* DumpMicrocode: DataSize 0 stands for an update of 2000 bytes without an *)
(* extended table.                                                         *)
DumpMicrocodeHeader ==
  /\ cpc = "header"
  /\ incomplete' = InCompleteCheckSum32
  /\ LET own == (InCompleteCheckSum32 + update.signature + update.flags + update.checksum) % Word
     IN  IF update.default \/ update.extended = <<>>
         THEN checkSums' = <<own>> /\ cpc' = "done"
         ELSE /\ checkSums' = <<own, CalculateSum32(<<Len(update.extended), update.extendedChecksum>> \o [k \in 1..Len(update.extended) |-> Sum(update.extended[k])])>>
              /\ cpc' = "table"
  /\ UNCHANGED <<machine, update, request, mpServices, numberOfCpus, bspIndex, cpuIndex, shownInfo, patched, told, startFailed>>

(* One entry <<ProcessorSignature, ProcessorFlag, Checksum>>.              *)
DumpMicrocodeEntry ==
  /\ cpc = "table" /\ Len(checkSums) - 2 < Len(update.extended)
  /\ checkSums' = Append(checkSums, (incomplete + Sum(update.extended[Len(checkSums) - 1])) % Word)
  /\ UNCHANGED <<machine, update, request, cpc, mpServices, numberOfCpus, bspIndex, cpuIndex, shownInfo, patched, incomplete, told, startFailed>>
TableEnds ==
  /\ cpc = "table" /\ Len(checkSums) - 2 >= Len(update.extended)
  /\ cpc' = "done"
  /\ UNCHANGED <<machine, update, request, mpServices, numberOfCpus, bspIndex, cpuIndex, shownInfo, patched, checkSums, incomplete, told, startFailed>>

McuNext ==
  \/ PatchMicrocodeEntrypoint \/ LocateMpServices \/ DumpCpuInfo \/ TriggerMicrocodeUpdate \/ CpusEnd
  \/ DumpMicrocodeHeader \/ DumpMicrocodeEntry \/ TableEnds
McuSpec == McuInit /\ [][McuNext]_cpuVars /\ WF_cpuVars(McuNext)

-----------------------------------------------------------------------------
(* What is shown under the number of a processor was read on it, or is     *)
(* zeros where it could not be asked: never what the processor before it   *)
(* has reported.  Once the two services have answered (DumpCpuInfo).       *)
OwnInfo ==
  told => \A k \in 1..Len(shownInfo) :
            /\ shownInfo[k] \in {NoInfo, k - 1}
            /\ shownInfo[k] = NoInfo => ~Enabled(k - 1) \/ startFailed

(* With the services answering and no processor refusing, every enabled    *)
(* one has loaded the update once when the run ends, the boot processor    *)
(* wherever it stands in the numbering (TriggerMicrocodeUpdate).           *)
PatchedOnce ==
  /\ \A i, j \in 1..Len(patched) : told /\ i < j => patched[i] < patched[j]
  /\ cpc = "done" /\ request = "-P file" /\ told /\ ~startFailed =>
       {patched[i] : i \in 1..Len(patched)} = {c \in Cpus : Enabled(c)}

(* The checksum shown for the update, and for each extended entry the one  *)
(* of the update with the three words of the entry in place of its own,    *)
(* modulo the width of a word (DumpMicrocode).                             *)
SumWith(three) == (Sum(three) + update.rest + Sum(update.data)) % Word
ChecksumsRight ==
  \A k \in 1..Len(checkSums) :
    k # 2 => checkSums[k] = SumWith(IF k = 1 THEN <<update.signature, update.flags, update.checksum>> ELSE update.extended[k - 2])

(* Every processor is asked and patched for itself, and the checksums of   *)
(* an update are its own.                                                  *)
ProcessorsRight == OwnInfo /\ PatchedOnce /\ ChecksumsRight
=============================================================================
