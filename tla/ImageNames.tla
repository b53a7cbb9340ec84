------------------------------ MODULE ImageNames ------------------------------
(***************************************************************************)
(* The image table of DxeCoreDump: GetLoadedImage walks the handles with a *)
(* loaded image protocol, names each image and enters it with the base it  *)
(* really runs at; the dumps then name the image of an address.            *)
(*                                                                         *)
(* A path or name is a sequence of one-letter words, "BS" for a backslash  *)
(* and "DOT" for a period.                                                 *)
(***************************************************************************)
EXTENDS Integers, Sequences, FiniteSets

CONSTANTS
  Platforms,           \* sequences of loaded images
  NAME_STRING_LENGTH,
  KnownProtocols,      \* the GUIDs in mProtocolFuncStruct
  SizeOfTeHeader,      \* sizeof (EFI_TE_IMAGE_HEADER)
  None                 \* NULL, or what is not there

VARIABLES
  images,              \* the loaded images, in handle order
  mImageStruct, mImageStructCountMax,
  mDxeCoreLoadedImage,
  pc,                  \* "start", "images", "ready", "asserted", "done"
  index,
  asked                \* the last lookup: [addr, guid, func, name]

vars == <<images, mImageStruct, mImageStructCountMax, mDxeCoreLoadedImage, pc, index, asked>>

UNKNOWN_NAME == <<"?", "?", "?">>

-----------------------------------------------------------------------------
(* GetShortPdbFileName: StartIndex and EndIndex after the characters up to *)
(* i, then the text between them.                                          *)
Scan(pdb) ==
  LET s[i \in 0..Len(pdb)] ==
        IF i = 0 THEN [start |-> 0, end |-> Len(pdb)]
        ELSE LET prev == s[i - 1]
             IN  [start |-> IF pdb[i] = "BS" THEN i ELSE prev.start,
                  end |-> IF pdb[i] = "DOT" THEN i - 1 ELSE prev.end]
  IN  s[Len(pdb)]
Truncated(name) == SubSeq(name, 1, IF Len(name) > NAME_STRING_LENGTH THEN NAME_STRING_LENGTH ELSE Len(name))
GetShortPdbFileName(pdb) == Truncated(SubSeq(pdb, Scan(pdb).start + 1, Scan(pdb).end))

(* GetDriverNameString: PDB, then the UI section or the GUID of a file in  *)
(* a volume, then the path of a file, then nothing.                        *)
GetDriverNameString(image) ==
  CASE image.base # 0 /\ image.pdb # None -> GetShortPdbFileName(image.pdb)
    [] ~(image.base # 0 /\ image.pdb # None) /\ image.path = "fv" ->
         Truncated(IF image.ui # None THEN image.ui ELSE image.guid)
    [] ~(image.base # 0 /\ image.pdb # None) /\ image.path = "file" -> image.pathName
    [] OTHER -> None

(* InternalPeCoffGetEntryPoint, as an address in the image buffer; None    *)
(* where there is neither a PE nor a TE header.                            *)
InternalPeCoffGetEntryPoint(image) ==
  CASE image.header = "TE" -> image.base + image.addressOfEntryPoint + SizeOfTeHeader - image.strippedSize
    [] image.header = "PE" -> image.base + image.addressOfEntryPoint
    [] OTHER -> None

(* The base an image runs at: in an emulation environment its code is not  *)
(* in the image buffer.                                                    *)
Emulated(image) ==
  /\ image.private
  /\ image.entryPoint # 0
  /\ (image.entryPoint < image.base \/ image.entryPoint >= image.base + image.size)
RealImageBase(image) ==
  IF Emulated(image) THEN image.base + image.entryPoint - InternalPeCoffGetEntryPoint(image) ELSE image.base

-----------------------------------------------------------------------------
Init ==
  /\ images \in Platforms
  /\ mImageStruct = <<>> /\ mImageStructCountMax = 0 /\ mDxeCoreLoadedImage = None
  /\ pc = "start" /\ index = 0 /\ asked = <<>>

(* GetLoadedImage up to its loop.                                          *)
LocateHandleBuffer ==
  /\ pc = "start"
  /\ mImageStructCountMax' = Len(images) /\ pc' = "images"
  /\ UNCHANGED <<images, mImageStruct, mDxeCoreLoadedImage, index, asked>>
(* No handles, or no memory for them or for the table: DxeCore is not      *)
(* found, and the application ends.                                        *)
LocateHandleBufferFails ==
  /\ pc = "start"
  /\ mImageStructCountMax' \in {0, Len(images)} /\ pc' = "done"
  /\ UNCHANGED <<images, mImageStruct, mDxeCoreLoadedImage, index, asked>>

(* AddImageStruct.                                                         *)
ImageStruct(base, size, name) ==
  [base |-> base, size |-> size, name |-> IF name = None THEN <<>> ELSE Truncated(name)]
AddImageStruct(base, size, name) ==
  IF Len(mImageStruct) >= mImageStructCountMax
    THEN pc' = "asserted" /\ UNCHANGED mImageStruct
    ELSE mImageStruct' = Append(mImageStruct, ImageStruct(base, size, name)) /\ UNCHANGED pc

(* One round of its loop.                                                  *)
AddImage ==
  /\ pc = "images" /\ index < Len(images)
  /\ LET image == images[index + 1]
     IN  IF ~image.handled
           THEN UNCHANGED <<mImageStruct, mDxeCoreLoadedImage, pc>>
           ELSE IF Emulated(image) /\ InternalPeCoffGetEntryPoint(image) = None
             THEN pc' = "asserted" /\ UNCHANGED <<mImageStruct, mDxeCoreLoadedImage>>
             ELSE /\ AddImageStruct(RealImageBase(image), image.size, GetDriverNameString(image))
                  /\ mDxeCoreLoadedImage' = IF image.dxeCore THEN index + 1 ELSE mDxeCoreLoadedImage
  /\ index' = index + 1
  /\ UNCHANGED <<images, mImageStructCountMax, asked>>

ImagesEnd ==
  /\ pc = "images" /\ index = Len(images)
  /\ pc' = IF mDxeCoreLoadedImage = None THEN "done" ELSE "ready"
  /\ UNCHANGED <<images, mImageStruct, mImageStructCountMax, mDxeCoreLoadedImage, index, asked>>

-----------------------------------------------------------------------------
(* AddressToImageName and AddressToImageNameEx: func is what is at         *)
(* FuncOffset of the interface.                                            *)
Holding(address) ==
  {i \in 1..Len(mImageStruct) : address >= mImageStruct[i].base /\ address < mImageStruct[i].base + mImageStruct[i].size}
AddressToImageName(address) ==
  IF Holding(address) = {} THEN UNKNOWN_NAME
  ELSE mImageStruct[CHOOSE i \in Holding(address) : \A j \in Holding(address) : i <= j].name
mProtocolFuncStruct == KnownProtocols
AddressToImageNameEx(address, guid, func) ==
  IF AddressToImageName(address) # UNKNOWN_NAME THEN AddressToImageName(address)
  ELSE IF guid \in mProtocolFuncStruct THEN AddressToImageName(func) ELSE UNKNOWN_NAME

(* What the dumps print of a notification function (guid = None) or of an  *)
(* interface that is at address.                                           *)
Lookup(address, guid, func) ==
  /\ pc = "ready"
  /\ asked' = <<[addr |-> address, guid |-> guid, func |-> func,
                name |-> IF guid = None THEN AddressToImageName(address) ELSE AddressToImageNameEx(address, guid, func)]>>
  /\ UNCHANGED <<images, mImageStruct, mImageStructCountMax, mDxeCoreLoadedImage, pc, index>>

Addresses == UNION {{images[i].code, images[i].code + images[i].size - 1, images[i].code + images[i].size} : i \in 1..Len(images)}
Protocols == KnownProtocols \cup {"other"}
Next ==
  \/ LocateHandleBuffer \/ LocateHandleBufferFails \/ AddImage \/ ImagesEnd
  \/ \E a, f \in Addresses, g \in Protocols \cup {None} : Lookup(a, g, f)

Spec == Init /\ [][Next]_vars

-----------------------------------------------------------------------------
(* The image whose code is at an address, by where the loader put it       *)
(* (code), which GetLoadedImage does not read.                             *)
Handled == {i \in 1..Len(images) : images[i].handled}
Owner(address) == {i \in Handled : address >= images[i].code /\ address < images[i].code + images[i].size}
NameIn(i) == LET n == GetDriverNameString(images[i]) IN IF n = None THEN <<>> ELSE Truncated(n)

ShownAs(q, address) ==
  IF Owner(address) = {} THEN q.name = UNKNOWN_NAME ELSE \E i \in Owner(address) : q.name = NameIn(i)

(* A function is shown under the name of the image that holds it, also     *)
(* where an emulator runs it outside of the image buffer and for TE images *)
(* with stripped headers; an address that no image holds has no name.      *)
FunctionNamed == \A k \in 1..Len(asked) : asked[k].guid = None => ShownAs(asked[k], asked[k].addr)

(* An interface is shown under the image that holds it; one in allocated   *)
(* memory under the image of its function if its protocol is known, and    *)
(* under no name if it is not.                                             *)
InterfaceNamed ==
  \A k \in 1..Len(asked) :
    LET q == asked[k]
    IN  q.guid # None =>
          \/ Owner(q.addr) # {} /\ ShownAs(q, q.addr)
          \/ Owner(q.addr) = {} /\ q.guid \in KnownProtocols /\ ShownAs(q, q.func)
          \/ Owner(q.addr) = {} /\ q.guid \notin KnownProtocols /\ q.name = UNKNOWN_NAME

(* The portion between the last backslash and the end of the string, less  *)
(* the extension; the passing run has no period before the last backslash. *)
Last(pdb, c) == LET at == {i \in 1..Len(pdb) : pdb[i] = c} IN IF at = {} THEN 0 ELSE CHOOSE i \in at : \A j \in at : j <= i
FileName(pdb) == SubSeq(pdb, Last(pdb, "BS") + 1, Len(pdb))
Stem(name) == IF Last(name, "DOT") = 0 THEN name ELSE SubSeq(name, 1, Last(name, "DOT") - 1)
Short(name) == IF Len(name) > NAME_STRING_LENGTH THEN [i \in 1..NAME_STRING_LENGTH |-> name[i]] ELSE name

(* Each image that has a PDB path is entered under the portion of it that  *)
(* the comment of GetShortPdbFileName describes, in the order of the       *)
(* handles and with none left out.                                         *)
TableNamed ==
  pc \in {"images", "ready"} =>
    LET done == {i \in Handled : i <= index}
        Slot(i) == Cardinality({j \in done : j <= i})
    IN  /\ Len(mImageStruct) = Cardinality(done)
        /\ \A i \in done :
             /\ mImageStruct[Slot(i)].size = images[i].size
             /\ images[i].pdb # None => mImageStruct[Slot(i)].name = Short(Stem(FileName(images[i].pdb)))

(* Images have the short names of their PDB paths, and what they hold is   *)
(* shown under these.                                                      *)
ImageNamesRight == TableNamed /\ FunctionNamed /\ InterfaceNamed
=============================================================================
