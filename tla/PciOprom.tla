------------------------------- MODULE PciOprom -------------------------------
(***************************************************************************)
(* GetPciOprom: the command line, the choice of the device, and the walk   *)
(* over the images of its option ROM with the files they are saved to.     *)
(*                                                                         *)
(* A ROM is counted in blocks of 512 bytes.  `layout' is how it was built: *)
(* a sequence of images, each with a number of blocks without a signature  *)
(* before it.                                                              *)
(***************************************************************************)
EXTENDS Integers, Sequences

CONSTANTS
  PciPlatforms,    \* sequences of [location, ids, layout]
  OpromCommands    \* [flag, args], the args as sequences of hexadecimal digits

(***************************************************************************)
(* A ROM begins with an image, no image is empty, and its machine is named *)
(* as GetMachineTypeName does.  Locations and identifiers are numbers.     *)
(***************************************************************************)
MachineNames == {"IA32", "EBC", "X64", "ARM", "AARCH64", "<Unknown>"}
RomForm(layout) ==
  /\ Len(layout) \in Nat /\ (Len(layout) > 0 => layout[1].gap = 0)
  /\ \A i \in 1..Len(layout) :
       /\ layout[i].gap \in Nat /\ layout[i].len \in Nat \ {0} /\ layout[i].last \in BOOLEAN
       /\ layout[i].machine \in MachineNames /\ layout[i].compressed \in BOOLEAN
ASSUME OpromAssumption ==
  /\ \A p \in PciPlatforms : Len(p) \in Nat /\ \A d \in 1..Len(p) :
       RomForm(p[d].layout) /\ p[d].location \in Seq(Nat) /\ Len(p[d].location) = 3 /\ p[d].ids \in Seq(Nat) /\ Len(p[d].ids) = 2
  /\ \A c \in OpromCommands : c.args \in Seq(Seq(0..15))

VARIABLES
  pciDevices, command,
  rpc,             \* "start", "devices", "images", "done", "undefined"
  found, device,   \* Found, and the device whose turn it is
  romEntry,        \* RomEntry, as a block of the ROM
  pcir,            \* Pcir: the block of its image; NoBlock before there is one
  legacyRomHeader, \* LegacyRomHeader has been set
  oproms,          \* the images shown: <<device, block>>
  romFiles,        \* the files written by this run: [name -> what is in it]
  romIoFailed      \* some file could not be saved

romVars == <<pciDevices, command, rpc, found, device, romEntry, pcir, legacyRomHeader, oproms, romFiles, romIoFailed>>

NoBlock == -1
AnyNumber == -1     \* 0x100, 0x20, 0x8 and 0xFFFF: no limit on the number
NotSaved == [from |-> NoBlock, blocks |-> 0, unpacked |-> FALSE]

-----------------------------------------------------------------------------
(* Memory: where the images of a ROM begin and end, and its size.          *)
Sizes(layout) == [i \in 1..Len(layout) |-> layout[i].gap + layout[i].len]
ImageEnd(layout, i) ==
  LET End[n \in 0..Len(layout)] == IF n = 0 THEN 0 ELSE End[n - 1] + Sizes(layout)[n] IN End[i]
BlocksOf(layout) == ImageEnd(layout, Len(layout))
StartOf(layout, i) == ImageEnd(layout, i - 1) + layout[i].gap
HasRomSignature(layout, b) == \E i \in 1..Len(layout) : StartOf(layout, i) = b
ImageAt(layout, b) == layout[CHOOSE i \in 1..Len(layout) : StartOf(layout, i) = b]

-----------------------------------------------------------------------------
(* GetPciOpromMain.  -f converts its arguments with StrDecimalToUintn,     *)
(* which stops at the first letter, -i with StrHexToUintn.                 *)
ToNumber(digits, n, base) ==
  LET Value[k \in 0..Len(digits)] == IF k = 0 THEN 0 ELSE Value[k - 1] * base + digits[k] IN Value[n]
Decimals(digits) == {k \in 0..Len(digits) : \A i \in 1..k : digits[i] < 10}
StrHexToUintn(digits) == ToNumber(digits, Len(digits), 16)
StrDecimalToUintn(digits) ==
  ToNumber(digits, CHOOSE k \in Decimals(digits) : k + 1 \notin Decimals(digits), 10)

Limits == [f |-> <<256, 32, 8>>, i |-> <<65535, 65535>>]
Numbers ==
  CASE command.flag = "f" -> [k \in 1..Len(command.args) |-> StrDecimalToUintn(command.args[k])]
    [] command.flag = "i" -> [k \in 1..Len(command.args) |-> StrHexToUintn(command.args[k])]
    [] OTHER -> <<>>
Accepted ==
  /\ Len(command.args) + 1 <= 4
  /\ command.flag \in {"f", "i"} =>
       /\ Len(command.args) = Len(Limits[command.flag])
       /\ \A k \in 1..Len(Numbers) : Numbers[k] < Limits[command.flag][k]

Wanted == [location |-> IF command.flag = "f" THEN Numbers ELSE <<AnyNumber, AnyNumber, AnyNumber>>,
           ids |-> IF command.flag = "i" THEN Numbers ELSE <<AnyNumber, AnyNumber>>]
DumpsAll == command.flag \notin {"f", "i"}

OpromInit ==
  /\ pciDevices \in PciPlatforms /\ command \in OpromCommands
  /\ rpc = "start" /\ found = FALSE /\ device = 1 /\ romEntry = 0 /\ pcir = NoBlock /\ legacyRomHeader = FALSE
  /\ oproms = <<>> /\ romFiles = <<>> /\ romIoFailed = FALSE

(* The help and version options, a command line that is not accepted, and  *)
(* LocateHandleBuffer failing end the run.                                 *)
GetPciOpromMain ==
  /\ rpc = "start"
  /\ rpc' \in IF command.flag \in {"h", "v"} \/ ~Accepted THEN {"done"} ELSE {"devices", "done"}
  /\ UNCHANGED <<pciDevices, command, found, device, romEntry, pcir, legacyRomHeader, oproms, romFiles, romIoFailed>>

-----------------------------------------------------------------------------
(* SavePciOpromToFile: the old file is deleted and a new one written.  If  *)
(* a call fails the file is the old one, or gone; the caller goes on.      *)
SavePciOpromToFile(name, data) ==
  \/ romFiles' = [n \in DOMAIN romFiles \cup {name} |-> IF n = name THEN data ELSE romFiles[n]] /\ UNCHANGED romIoFailed
  \/ /\ \/ romFiles' = romFiles
        \/ romFiles' = [n \in DOMAIN romFiles \cup {name} |-> IF n = name THEN NotSaved ELSE romFiles[n]]
     /\ romIoFailed' = TRUE

(* UnicodeSPrint into mPciOpromFileName, which has room for 15 characters. *)
OpromFileName(machine) ==
  CASE machine = "IA32" -> "PciOpromIA32.ef"
    [] machine = "AARCH64" -> "PciOpromAARCH64"
    [] machine = "X64" -> "PciOpromX64.efi"
    [] machine = "EBC" -> "PciOpromEBC.efi"
    [] machine = "ARM" -> "PciOpromARM.efi"
    [] OTHER -> "PciOprom<Unknow"

-----------------------------------------------------------------------------
Layout == pciDevices[device].layout
Matches(want, has) == \A k \in 1..Len(want) : want[k] \in {AnyNumber, has[k]}

(* The rest of the loop of GetPciOprom after ProcessPciRomImage.           *)
AfterDevice ==
  IF DumpsAll THEN device' = device + 1 /\ rpc' = "devices" ELSE device' = device /\ rpc' = "done"

NextDevice ==
  /\ rpc = "devices" /\ device <= Len(pciDevices)
  /\ ~(Matches(Wanted.location, pciDevices[device].location) /\ Matches(Wanted.ids, pciDevices[device].ids))
  /\ device' = device + 1
  /\ UNCHANGED <<pciDevices, command, rpc, found, romEntry, pcir, legacyRomHeader, oproms, romFiles, romIoFailed>>
DevicesEnd ==
  /\ rpc = "devices" /\ device > Len(pciDevices)
  /\ rpc' = "done"
  /\ UNCHANGED <<pciDevices, command, found, device, romEntry, pcir, legacyRomHeader, oproms, romFiles, romIoFailed>>

(* ProcessPciRomImage up to its loop; the whole ROM is saved for -f and -i.*)
ProcessPciRomImage ==
  /\ rpc = "devices" /\ device <= Len(pciDevices)
  /\ Matches(Wanted.location, pciDevices[device].location) /\ Matches(Wanted.ids, pciDevices[device].ids)
  /\ found' = TRUE
  /\ romEntry' = 0 /\ pcir' = NoBlock /\ legacyRomHeader' = FALSE
  /\ IF Layout = <<>>
       THEN AfterDevice /\ UNCHANGED <<romFiles, romIoFailed>>
       ELSE /\ rpc' = "images" /\ device' = device
            /\ IF DumpsAll THEN UNCHANGED <<romFiles, romIoFailed>>
               ELSE SavePciOpromToFile("PciOpromAll.bin", [from |-> 0, blocks |-> BlocksOf(Layout), unpacked |-> FALSE])
  /\ UNCHANGED <<pciDevices, command, oproms>>

-----------------------------------------------------------------------------
(* The condition of the loop at its end, where RomOffset is still that of  *)
(* the round.                                                              *)
IndicatorBlindLast(b) == FALSE
LastImage(b) == ImageAt(Layout, b).last

RomEnds ==
  /\ rpc = "images" /\ romEntry >= BlocksOf(Layout)
  /\ AfterDevice
  /\ UNCHANGED <<pciDevices, command, found, romEntry, pcir, legacyRomHeader, oproms, romFiles, romIoFailed>>

(* No signature: 512 bytes on, and `continue', to a condition that looks   *)
(* at the data structure of the image before.                              *)
SkipNothing == romEntry
SkipBlock == romEntry + 1
RomSkip ==
  /\ rpc = "images" /\ romEntry < BlocksOf(Layout) /\ ~HasRomSignature(Layout, romEntry)
  /\ pcir # NoBlock
  /\ romEntry' = SkipBlock
  /\ IF LastImage(pcir) THEN AfterDevice ELSE UNCHANGED <<rpc, device>>
  /\ UNCHANGED <<pciDevices, command, found, pcir, legacyRomHeader, oproms, romFiles, romIoFailed>>

(* What is saved of an image: legacy ROMs by ImageLength, EFI images by    *)
(* InitializationSize, unpacked where they are compressed.                 *)
SaveImage(image) ==
  CASE DumpsAll \/ image.code \notin {"LEGACY", "EFI"} -> UNCHANGED <<romFiles, romIoFailed>>
    [] ~DumpsAll /\ image.code = "LEGACY" ->
         SavePciOpromToFile("PciOpromLegacy.bin", [from |-> romEntry, blocks |-> image.len, unpacked |-> FALSE])
    [] ~DumpsAll /\ image.code = "EFI" ->
         SavePciOpromToFile(OpromFileName(image.machine), [from |-> romEntry, blocks |-> image.init, unpacked |-> image.compressed])

RomImage ==
  /\ rpc = "images" /\ romEntry < BlocksOf(Layout) /\ HasRomSignature(Layout, romEntry)
  /\ LET image == ImageAt(Layout, romEntry)
     IN  /\ oproms' = Append(oproms, <<device, romEntry>>)
         /\ legacyRomHeader' = (legacyRomHeader \/ image.code = "LEGACY")
         /\ SaveImage(image)
         /\ pcir' = romEntry /\ romEntry' = romEntry + image.len
         /\ IF LastImage(romEntry) THEN AfterDevice ELSE UNCHANGED <<rpc, device>>
  /\ UNCHANGED <<pciDevices, command, found>>

(* For an EFI image the signature is read through LegacyRomHeader, which   *)
(* only a legacy image before it sets: the read may also fault.            *)
ReadLegacyRomHeader ==
  /\ rpc = "images" /\ romEntry < BlocksOf(Layout) /\ HasRomSignature(Layout, romEntry)
  /\ ImageAt(Layout, romEntry).code = "EFI" /\ ~legacyRomHeader
  /\ rpc' = "undefined"
  /\ UNCHANGED <<pciDevices, command, found, device, romEntry, pcir, legacyRomHeader, oproms, romFiles, romIoFailed>>

OpromNext ==
  \/ GetPciOpromMain \/ NextDevice \/ DevicesEnd \/ ProcessPciRomImage
  \/ RomEnds \/ RomSkip \/ RomImage \/ ReadLegacyRomHeader
OpromSpec == OpromInit /\ [][OpromNext]_romVars /\ WF_romVars(OpromNext)

-----------------------------------------------------------------------------
(* The images of a ROM: all up to the first one with the last image flag.  *)
ChainOf(layout) == {i \in 1..Len(layout) : \A j \in 1..i - 1 : ~layout[j].last}

(* Every image shown is one of the chain of its ROM, at its start, and     *)
(* shown once, right behind the one before it; and of every ROM the walk   *)
(* has finished all are shown, with gaps of any length between them and    *)
(* with or without a last image flag: ProcessPciRomImage.                  *)
RomImagesExact ==
  \A d \in 1..Len(pciDevices) :
    LET layout == pciDevices[d].layout
        shown  == {n \in 1..Len(oproms) : oproms[n][1] = d}
        places(k) == {n \in shown : oproms[n][2] = StartOf(layout, k)}
    IN  /\ \A n \in shown : \E k \in ChainOf(layout) :
             places(k) = {n} /\ (IF k = 1 THEN n - 1 \notin shown ELSE places(k - 1) = {n - 1})
        /\ shown # {} /\ (d < device \/ rpc = "done") => \A k \in ChainOf(layout) : places(k) # {}

LastOf(layout, S) == {i \in ChainOf(layout) \cap S : \A j \in ChainOf(layout) \cap S : j <= i}
LegacyImages(layout) == {i \in 1..Len(layout) : layout[i].code = "LEGACY"}
EfiImages(layout, m) == {i \in 1..Len(layout) : layout[i].code = "EFI" /\ layout[i].machine = m}
Content(layout, i) ==
  [from |-> StartOf(layout, i), blocks |-> IF layout[i].code = "EFI" THEN layout[i].init ELSE layout[i].len,
   unpacked |-> layout[i].code = "EFI" /\ layout[i].compressed]

(* After -f or -i, unless a file call failed, the files hold the whole ROM,*)
(* its last legacy image, and the last EFI image of each machine: no two   *)
(* machines share a file.  A dump of all devices writes none.              *)
SavedRight ==
  /\ DumpsAll => romFiles = <<>>
  /\ rpc = "done" /\ found /\ ~DumpsAll /\ ~romIoFailed /\ Layout # <<>> =>
       /\ romFiles["PciOpromAll.bin"] = [from |-> 0, blocks |-> BlocksOf(Layout), unpacked |-> FALSE]
       /\ \A i \in LastOf(Layout, LegacyImages(Layout)) : romFiles["PciOpromLegacy.bin"] = Content(Layout, i)
       /\ \A m \in MachineNames : \A i \in LastOf(Layout, EfiImages(Layout, m)) :
            \E n \in DOMAIN romFiles : romFiles[n] = Content(Layout, i)

(* The device processed is the first one that has all the numbers of the   *)
(* command, read as hexadecimal; for -f, whose arguments are converted as  *)
(* decimals, where that is the same (GetPciOprom).                         *)
Named(d) ==
  /\ command.flag = "f" => \A k \in 1..3 : StrHexToUintn(command.args[k]) = pciDevices[d].location[k]
  /\ command.flag = "i" => \A k \in 1..2 : StrHexToUintn(command.args[k]) = pciDevices[d].ids[k]
Unambiguous == \A k \in 1..Len(command.args) : StrHexToUintn(command.args[k]) = StrDecimalToUintn(command.args[k])
DeviceRight ==
  ~DumpsAll /\ (command.flag = "f" => Unambiguous) /\ found =>
    Named(device) /\ \A d \in 1..device - 1 : ~Named(d)

(* The ROM shown and saved is the one of the device that was asked for,    *)
(* image by image.                                                         *)
RomRight == RomImagesExact /\ SavedRight /\ DeviceRight
=============================================================================
