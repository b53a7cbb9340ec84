----------------------------- MODULE MCShellTools -----------------------------
(***************************************************************************)
(* The support files of the applications (files, the names of GUIDs and of *)
(* images) and four small tools.  They share nothing: a behaviour is one   *)
(* of them at work, the others stay as they are.                           *)
(***************************************************************************)
EXTENDS FileAccess, GuidNames, ImageNames, PciOprom, PatchMicrocode, SmmProfileDump, EsrtFmpDump

CONSTANT MaxPdb       \* length of the longest PDB path

VARIABLE part

-----------------------------------------------------------------------------
(* One to three volumes, old contents shorter and longer than the data,    *)
(* directories of up to three entries.                                     *)
Contents == {NoFile, <<>>, <<"old">>, <<"old", "old">>}
VolSeqs == {<<a>> : a \in Contents} \cup {<<a, b, c>> : a \in {NoFile, <<"old">>}, b \in {NoFile, <<"x">>}, c \in {NoFile, <<"y">>}}
Entry == [isDir : BOOLEAN, suffix : BOOLEAN]
Dirs == {<<>>} \cup {<<d, e, f>> : d \in Entry, e \in Entry, f \in Entry}
MCWorlds ==
  [vols : VolSeqs, data : {<<"new">>}, dir : {<<>>}, index : {0}]
  \cup [vols : {<<<<"old">>>>}, data : {<<"new">>}, dir : Dirs, index : {0, 1}]

-----------------------------------------------------------------------------
(* Files of up to four symbols, and longer ones of two or three lines.  A  *)
(* carriage return is followed by a line feed, as InitGuid counts on.      *)
Symbols == {"g1", "zero", "bad", "SP"} \cup LineEnds
ShortTexts == UNION {[1..n -> Symbols] : n \in 0..4}
Bodies == {<<"g1", "SP", "n1">>, <<"SP", "g2", "SP", "SP", "n2">>, <<"g2">>, <<"bad", "SP", "n3">>, <<"zero", "SP", "n4", "SP", "x">>, <<"SP">>, <<"g1", "SP", "n5">>, <<"g1", "SP">>}
End == {<<"NL">>, <<"CR", "NL">>}
Adjacent(t) == \E i \in 1..Len(t) - 1 : {t[i], t[i + 1]} \cap ({"SP"} \cup LineEnds) = {}
AllTexts ==
  {NoText} \cup {t \in ShortTexts : ~Adjacent(t)}
  \cup {a \o e \o b \o f \o c : a \in Bodies, b \in Bodies, c \in {<<>>, <<"g2">>, <<"g1", "SP", "n5">>}, e \in End, f \in End}
MCTexts == {t \in AllTexts : \A i \in 1..Len(t) : t[i] = "CR" => i < Len(t) /\ t[i + 1] = "NL"}
MCAsked == {<<"zero">>, <<"g1", "g2">>, <<"g1", "other">>, <<"other", "other2">>}

-----------------------------------------------------------------------------
(* Up to three images: every path up to MaxPdb characters for the first,   *)
(* without a period in a directory's name, and images without a PDB, in    *)
(* emulation, or with TE headers behind it.                                *)
Pdbs == UNION {[1..n -> {"a", "b", "BS", "DOT"}] : n \in 1..MaxPdb}
FileLast(pdb) == \A i, j \in 1..Len(pdb) : pdb[i] = "DOT" /\ pdb[j] = "BS" => j < i
MCPdbs == {p \in Pdbs : FileLast(p)}

Plain == [handled |-> TRUE, size |-> 10, pdb |-> None, path |-> "fv", ui |-> None, guid |-> <<"g">>, pathName |-> <<>>, private |-> TRUE, header |-> "PE", addressOfEntryPoint |-> 3, strippedSize |-> 0, dxeCore |-> FALSE]
At(k, base, code, start) == [f \in DOMAIN k \cup {"base", "code", "entryPoint"} |->
  IF f = "base" THEN base ELSE IF f = "code" THEN code ELSE IF f = "entryPoint" THEN start ELSE k[f]]

First(p) == At([Plain EXCEPT !.pdb = p, !.dxeCore = TRUE], 100, 100, 103)
Seconds ==
  {At(Plain, 200, 200, 203), At([Plain EXCEPT !.ui = <<"u", "v", "w", "x">>], 200, 200, 203),
   At([Plain EXCEPT !.path = "file", !.pathName = <<"BS", "e", "f", "g">>], 200, 500, 503),
   At([Plain EXCEPT !.path = "none"], 200, 200, 0), At([Plain EXCEPT !.handled = FALSE], 200, 200, 203),
   At([Plain EXCEPT !.private = FALSE], 200, 200, 0)}
Thirds ==
  {At([Plain EXCEPT !.header = "TE", !.addressOfEntryPoint = 6, !.strippedSize = 5], 300, 600, 603),
   At([Plain EXCEPT !.header = "TE", !.addressOfEntryPoint = 6, !.strippedSize = 5, !.guid = <<"h">>], 300, 40, 43)}
MCPlatforms ==
  {<<First(p)>> : p \in MCPdbs} \cup {<<First(<<"BS", "a", "DOT", "b">>), s, t>> : s \in Seconds, t \in Thirds}
  \cup {<<s, First(<<"c", "d", "e", "f", "DOT">>), t>> : s \in Seconds, t \in Thirds} \cup {<<s, t>> : s \in Seconds, t \in Thirds}

-----------------------------------------------------------------------------
(* Option ROMs of up to three images: gaps of up to two blocks, a last     *)
(* image flag on the last one, before it, or missing, legacy and EFI       *)
(* images for two machines, compressed or not.                             *)
Image(gap, len, last, code, machine_) ==
  [gap |-> gap, len |-> len, last |-> last, code |-> code, machine |-> machine_, init |-> 1, compressed |-> machine_ = "IA32"]
FirstImages == {Image(0, n, l, c, "X64") : n \in 1..2, l \in BOOLEAN, c \in {"LEGACY", "EFI", "other"}}
LaterImages == {Image(g, 2, l, c, m) : g \in {0, 2}, l \in BOOLEAN, c \in {"LEGACY", "EFI"}, m \in {"X64", "IA32"}}
Layouts == {<<>>} \cup {<<i>> : i \in FirstImages} \cup {<<i, j>> : i \in FirstImages, j \in LaterImages}
           \cup {<<i, j, k>> : i \in {f \in FirstImages : f.len = 1 /\ ~f.last}, j \in LaterImages, k \in {Image(2, 1, TRUE, "EFI", "X64"), Image(0, 1, FALSE, "LEGACY", "X64")}}
Device(function, id, layout) == [location |-> <<0, 5, function>>, ids |-> <<8086, id>>, layout |-> layout]
MCPciPlatforms ==
  {<<Device(0, 1, l)>> : l \in Layouts}
  \cup {<<Device(0, 1, <<Image(0, 1, FALSE, "LEGACY", "X64")>>), Device(1, 2, <<Image(0, 2, TRUE, "EFI", "EBC")>>), Device(2, 2, <<>>)>>}
MCOpromCommands ==
  {[flag |-> "none", args |-> <<>>], [flag |-> "h", args |-> <<>>], [flag |-> "f", args |-> <<<<0>>, <<1>>>>],
   [flag |-> "f", args |-> <<<<0>>, <<1, 1>>, <<1>>>>], [flag |-> "f", args |-> <<<<0>>, <<5>>, <<0>>>>], [flag |-> "f", args |-> <<<<0>>, <<5>>, <<9>>>>],
   [flag |-> "f", args |-> <<<<0>>, <<5>>, <<1>>>>], [flag |-> "i", args |-> <<<<1, 15, 9, 6>>, <<1>>>>], [flag |-> "i", args |-> <<<<1, 15, 9, 6>>, <<2>>>>]}

-----------------------------------------------------------------------------
(* One to three processors; updates whose sums pass the width of a word.   *)
MCMachines == {m \in UNION {[enabled : [1..n -> BOOLEAN], bsp : 0..n - 1] : n \in 1..3} : m.enabled[m.bsp + 1]}
MCUpdates ==
  [signature : {0, 3}, flags : {3}, checksum : {0, 2}, rest : {1}, data : {<<3, 3>>}, default : {FALSE}, extendedChecksum : {1},
   extended : {<<>>, <<<<1, 1, 3>>>>, <<<<2, 0, 1>>, <<3, 3, 3>>>>}]
  \cup [signature : {3}, flags : {1}, checksum : {2}, rest : {1}, data : {<<3>>}, default : {TRUE}, extendedChecksum : {0}, extended : {<<>>}]

-----------------------------------------------------------------------------
(* Up to three descriptors, one of which an allocation can split twice.    *)
Region(start, pages, type) == [start |-> start, pages |-> pages, type |-> type]
MCMaps == {<<Region(0, 3, "Available")>>, <<Region(0, 1, "RT_Data"), Region(2, 1, "Available"), Region(6, 1, "Reserved")>>, <<Region(2, 1, "BS_Code"), Region(4, 2, "Available")>>}
MCImageTables == {<<>>, <<[base |-> 10, size |-> 10, name |-> "one"], [base |-> 20, size |-> 5, name |-> "two"]>>}
MCProfiles == {NoProfile, <<>>, <<[instruction |-> 19, address |-> 0]>>, <<[instruction |-> 10, address |-> 2], [instruction |-> 25, address |-> 4]>>, <<[instruction |-> 20, address |-> 5]>>}

-----------------------------------------------------------------------------
(* Protocols with descriptors of the known size, shorter and longer; HOBs  *)
(* of other types before, between and behind capsules; up to two drivers   *)
(* and payloads; classes in the table that the protocol does not know.     *)
Fmp(count, size) == [count |-> count, size |-> size]
Capsule(guid, headerSize, drivers, payloads) == [type |-> "capsule", guid |-> guid, headerSize |-> headerSize, drivers |-> drivers, payloads |-> payloads]
OtherHob == [type |-> "other"]
MCFirmwares ==
  [fmps : {<<>>, <<Fmp(2, 4), Fmp(2, 3)>>, <<Fmp(2, 5), Fmp(0, 4), Fmp(1, 4)>>},
   hobs : {<<>>, <<OtherHob, Capsule("fmp", 2, <<4>>, <<5, 9>>), OtherHob, Capsule("ux", 2, <<>>, <<>>)>>, <<Capsule("other", 3, <<>>, <<>>), Capsule("fmp", 3, <<>>, <<3>>), OtherHob>>},
   esrt : {NoTable, <<"a", "b">>}, managed : {{}, {"b", "c"}}, variables : [{"FMP", "NONFMP"} -> {0, 3, 4}]]

-----------------------------------------------------------------------------
Parts == {"files", "guids", "images", "rom", "microcode", "profile", "esrt"}
ARest(S) == CHOOSE x \in S : TRUE
RestWorld == ARest(MCWorlds)
RestText == NoText
RestAsked == ARest(MCAsked)
RestPlatform == ARest(MCPlatforms)
RestPci == ARest(MCPciPlatforms)
RestCommand == ARest(MCOpromCommands)
RestMachine == ARest(MCMachines)
RestUpdate == ARest(MCUpdates)
RestMap == ARest(MCMaps)
RestFirmware == ARest(MCFirmwares)
AtRest(p) ==
  CASE p = "files" -> world = RestWorld /\ helper = "read" /\ FileInit
    [] p = "guids" -> original = RestText /\ guids = RestAsked /\ GuidInit
    [] p = "images" -> images = RestPlatform /\ Init
    [] p = "rom" -> pciDevices = RestPci /\ command = RestCommand /\ OpromInit
    [] p = "microcode" -> machine = RestMachine /\ update = RestUpdate /\ request = "-D" /\ McuInit
    [] p = "profile" -> memory = RestMap /\ loaded = <<>> /\ profile = NoProfile /\ ProfileInit
    [] p = "esrt" -> firmware = RestFirmware /\ EsrtInit
AtWork(p) ==
  CASE p = "files" -> FileInit
    [] p = "guids" -> GuidInit
    [] p = "images" -> Init
    [] p = "rom" -> OpromInit
    [] p = "microcode" -> McuInit
    [] p = "profile" -> ProfileInit
    [] p = "esrt" -> EsrtInit
ToolsInit == part \in Parts /\ \A p \in Parts : IF p = part THEN AtWork(p) ELSE AtRest(p)

FileSteps == part = "files" /\ FileNext /\ UNCHANGED <<part, guidVars, vars, romVars, cpuVars, profileVars, esrtVars>>
GuidSteps == part = "guids" /\ GuidNext /\ UNCHANGED <<part, fileVars, vars, romVars, cpuVars, profileVars, esrtVars>>
ImageSteps == part = "images" /\ Next /\ UNCHANGED <<part, fileVars, guidVars, romVars, cpuVars, profileVars, esrtVars>>
RomSteps == part = "rom" /\ OpromNext /\ UNCHANGED <<part, fileVars, guidVars, vars, cpuVars, profileVars, esrtVars>>
MicrocodeSteps == part = "microcode" /\ McuNext /\ UNCHANGED <<part, fileVars, guidVars, vars, romVars, profileVars, esrtVars>>
ProfileSteps == part = "profile" /\ ProfileStep /\ UNCHANGED <<part, fileVars, guidVars, vars, romVars, cpuVars, esrtVars>>
ProfileSmis == part = "profile" /\ SmiPageFault /\ UNCHANGED <<part, fileVars, guidVars, vars, romVars, cpuVars, esrtVars>>
EsrtSteps == part = "esrt" /\ EsrtNext /\ UNCHANGED <<part, fileVars, guidVars, vars, romVars, cpuVars, profileVars>>
toolVars == <<part, fileVars, guidVars, vars, romVars, cpuVars, profileVars, esrtVars>>
ToolsStep == FileSteps \/ GuidSteps \/ ImageSteps \/ RomSteps \/ MicrocodeSteps \/ ProfileSteps \/ EsrtSteps
ToolsSpec == ToolsInit /\ [][ToolsStep \/ ProfileSmis]_toolVars /\ WF_toolVars(RomSteps \/ MicrocodeSteps \/ ProfileSteps \/ EsrtSteps)

ToolEnded ==
  \/ part = "rom" /\ rpc \in {"done", "undefined"}
  \/ part = "microcode" /\ cpc \in {"done", "asserted", "undefined"}
  \/ part = "profile" /\ spc \in {"done", "undefined"}
  \/ part = "esrt" /\ epc = "done"

(* What the core dumps print in place of GUIDs and addresses is the name   *)
(* the GUID file and the images give them (GuidToName, AddressToImageName).     *)
NamesRight == GuidNamesRight /\ ImageNamesRight

(* Every run of the four tools ends: the walk over a ROM moves on at every *)
(* round (GetPciOprom.c:284,390), the memory map is recorded once it stops *)
(* growing (SmmProfileDump.c:306), and the HOB list is left behind         *)
(* (EsrtFmpDump.c:482).                                                    *)
ToolsEnd == (part \in {"rom", "microcode", "profile", "esrt"}) ~> ToolEnded
=============================================================================
