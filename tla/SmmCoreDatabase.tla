--------------------------- MODULE SmmCoreDatabase ---------------------------
(***************************************************************************)
(* The database that SmmCoreDump builds from the lists of the SMM core:    *)
(* its format, the pass that computes its size and the pass that fills it. *)
(*                                                                         *)
(* A buffer is a function from byte offsets to the structures written      *)
(* there: a record header at the start of each record, an item structure   *)
(* behind it for each list element.  Offsets and Length fields are the     *)
(* real ones (packed structures, 8-byte UINTN).                            *)
(***************************************************************************)
EXTENDS Integers, Sequences

CONSTANT KnownProtocols     \* the GUIDs of mProtocolFuncStruct

Own     == "gEfiCallerIdGuid"   \* the tool's own GUID, used for its probes
SwGuid  == "gEfiSmmSwDispatch2ProtocolGuid"
NoRef   == -1                   \* (UINTN)-1
UNKNOWN_NAME == "???"

(* sizeof of the structures of SmmCoreDumpComm.h and SmmChildDumpComm.h. *)
SizeOf == [image |-> 132, handle |-> 28, protocol |-> 44, smi |-> 40, child |-> 36,
           handleProtocol |-> 32, interface |-> 16, notify |-> 16, smiHandler |-> 24,
           childSw |-> 32]

-----------------------------------------------------------------------------
(* From an address to the image that holds it. *)

Holds(image, addr) == addr >= image.base /\ addr < image.base + image.size

(* The first image of mImageStruct, counted from 0, that holds addr. *)
OneBasedImageRef(images, addr) ==      \* mutant: counts from 1
  LET hits == {i \in 1..Len(images) : Holds(images[i], addr)}
  IN  IF hits = {} THEN NoRef ELSE CHOOSE i \in hits : \A j \in hits : i <= j

AddressToImageRef(images, addr) ==
  LET hits == {i \in 1..Len(images) : Holds(images[i], addr)}
  IN  IF hits = {} THEN NoRef ELSE (CHOOSE i \in hits : \A j \in hits : i <= j) - 1

(* An interface may be data outside its image: then a known protocol's      *)
(* function pointer, read from the interface, says which image it is.       *)
AddressToImageRefEx(images, item) ==
  LET ref == AddressToImageRef(images, item.addr)
  IN  IF ref # NoRef THEN ref
      ELSE IF item.guid \in KnownProtocols THEN AddressToImageRef(images, item.func)
      ELSE NoRef

-----------------------------------------------------------------------------
(* The size pass. *)

Sums(numbers) ==
  LET sum[n \in 0..Len(numbers)] == IF n = 0 THEN 0 ELSE sum[n - 1] + numbers[n] IN sum
SumOf(numbers) == Sums(numbers)[Len(numbers)]

(* The protocol lists are followed up to the entry that the tool's own      *)
(* probe left behind (UninstallProtocol empties it but keeps it).           *)
UpToOwn(protocols) ==
  LET own == {i \in 1..Len(protocols) : protocols[i].guid = Own}
  IN  IF own = {} THEN protocols
      ELSE SubSeq(protocols, 1, (CHOOSE i \in own : \A j \in own : i <= j) - 1)

GetSmmImageDatabaseSize(images) == SizeOf.image * Len(images)

GetSmmHandlerDatabaseSize(handles) ==
  SumOf([i \in 1..Len(handles) |-> SizeOf.handle + Len(handles[i].interfaces) * SizeOf.handleProtocol])

ProtocolSizes(protocols) ==
  [i \in 1..Len(protocols) |-> SizeOf.protocol + Len(protocols[i].interfaces) * SizeOf.interface
                                               + Len(protocols[i].notifies) * SizeOf.notify]

UnfilteredProtocolSize(protocols) == SumOf(ProtocolSizes(protocols))   \* mutant: the size pass does not stop at Own

GetSmmProtocolDatabaseSize(protocols) == SumOf(ProtocolSizes(UpToOwn(protocols)))

GetSmmSmiDatabaseSize(smis) ==
  SumOf([i \in 1..Len(smis) |-> SizeOf.smi + Len(smis[i].handlers) * SizeOf.smiHandler])

GetSmmRootSmiDatabaseSize(roots) == SizeOf.smi + Len(roots) * SizeOf.smiHandler

(* SmmChildDumpLibNull has no database; SmmChildDumpLibNt32 dumps only the  *)
(* software SMI callbacks, the seven other sizes are 0.                     *)
SmmChildGetDataSize(child) ==
  IF child.lib = "Null" THEN 0 ELSE SizeOf.child + Len(child.callbacks) * SizeOf.childSw

GetSmmCoreDatabaseSize(images, core, child) ==
  [image    |-> GetSmmImageDatabaseSize(images),
   handle   |-> GetSmmHandlerDatabaseSize(core.handles),
   protocol |-> GetSmmProtocolDatabaseSize(core.protocols),
   smi      |-> GetSmmSmiDatabaseSize(core.smis),
   root     |-> GetSmmRootSmiDatabaseSize(core.roots),
   child    |-> SmmChildGetDataSize(child)]

TotalSize(sizes) ==
  sizes.image + sizes.handle + sizes.protocol + sizes.smi + sizes.root + sizes.child

-----------------------------------------------------------------------------
(* The data pass. *)

EmptyMem == [o \in {} |-> 0]

(* What is in a piece of memory, put at base; and f put over g.             *)
At(base, cells) == [o \in {base + c : c \in DOMAIN cells} |-> cells[o - base]]
Over(f, g) == [o \in DOMAIN f \cup DOMAIN g |-> IF o \in DOMAIN f THEN f[o] ELSE g[o]]

(* What a pass over one section has written so far; ok turns FALSE where    *)
(* the code returns 0.                                                      *)
Section0 == [size |-> 0, mem |-> EmptyMem, ok |-> TRUE]

(* One group of items behind a record: written one by one, and none counted *)
(* if one of them finds too little room.                                    *)
EmitGroup(record, group, room) ==
  LET left == room - record.len
      fits == \A i \in 1..Len(group.items) : /\ (i-1) * group.size < left
                                              /\ group.size <= left - (i-1) * group.size
      n    == IF fits THEN Len(group.items) ELSE 0
  IN  [len    |-> record.len + n * group.size,
       counts |-> Append(record.counts, n),
       cells  |-> Over(record.cells,
                    [o \in {record.len + (i-1) * group.size : i \in 1..n} |->
                       group.items[((o - record.len) \div group.size) + 1]])]

(* A structure that begins a record, before its Length is moved.            *)
Header(sig, key, root) == [sig |-> sig, key |-> key, root |-> root, len |-> 0, counts |-> <<>>]
Group(items, size) == [items |-> items, size |-> size]
Record(header, size, groups) == [header |-> header, size |-> size, groups |-> groups]

(* The one or two groups of a record. *)
EmitGroups(record, groups, room) ==
  LET first == EmitGroup(record, groups[1], room)
  IN  IF Len(groups) = 1 THEN first ELSE EmitGroup(first, groups[2], room)

(* One record: header, item groups, and Header.Length moved past them. *)
EmitRecord(section, record, expected) ==
  IF ~section.ok \/ section.size >= expected \/ record.size > expected - section.size
  THEN [size |-> section.size, mem |-> section.mem, ok |-> FALSE]
  ELSE LET r == EmitGroups([len |-> record.size, counts |-> <<>>, cells |-> EmptyMem], record.groups,
                           expected - section.size)
       IN  [size |-> section.size + r.len,
            mem  |-> Over(section.mem,
                       At(section.size,
                          Over([o \in {0} |-> [record.header EXCEPT !.len = r.len, !.counts = r.counts]],
                               r.cells))),
            ok   |-> TRUE]

(* The section after each of the records. *)
Sections(records, expected) ==
  LET section[n \in 0..Len(records)] ==
        IF n = 0 THEN Section0 ELSE EmitRecord(section[n - 1], records[n], expected)
  IN  section
Section(records, expected) == Sections(records, expected)[Len(records)]

(* The closing test of each section: Size != ExpectedSize returns 0. *)
Closed(section, expected) ==
  [size |-> section.size, mem |-> section.mem, ok |-> section.ok /\ section.size = expected]

GetSmmImageDatabaseData(images, expected) ==
  IF expected \div SizeOf.image # Len(images)
  THEN [Section0 EXCEPT !.ok = FALSE]
  ELSE [size |-> SizeOf.image * Len(images), ok |-> TRUE,
        mem  |-> [o \in {SizeOf.image * (i-1) : i \in 1..Len(images)} |->
                    [Header("SCID", images[(o \div SizeOf.image) + 1], FALSE) EXCEPT !.len = SizeOf.image]]]

InterfaceItems(images, list) ==
  [i \in 1..Len(list) |-> [addr |-> list[i].addr, guid |-> list[i].guid,
                           ref |-> AddressToImageRefEx(images, list[i])]]

AddressItems(images, list) ==
  [i \in 1..Len(list) |-> [addr |-> list[i], ref |-> AddressToImageRef(images, list[i])]]

HandleRecord(images, h) ==
  Record(Header("SCHD", h.id, FALSE), SizeOf.handle,
         <<Group(InterfaceItems(images, h.interfaces), SizeOf.handleProtocol)>>)

HandleRecords(images, handles) == [i \in 1..Len(handles) |-> HandleRecord(images, handles[i])]

GetSmmHandlerDatabaseData(images, handles, expected) ==
  Closed(Section(HandleRecords(images, handles), expected), expected)

ProtocolRecord(images, p) ==
  Record(Header("SCPD", p.guid, FALSE), SizeOf.protocol,
         <<Group(InterfaceItems(images, p.interfaces), SizeOf.interface),
           Group(AddressItems(images, p.notifies), SizeOf.notify)>>)

ProtocolRecords(images, protocols) ==
  [i \in 1..Len(protocols) |-> ProtocolRecord(images, protocols[i])]

GetSmmProtocolDatabaseData(images, protocols, expected) ==
  Closed(Section(ProtocolRecords(images, UpToOwn(protocols)), expected), expected)

SmiRecord(images, s) ==
  Record(Header("SCSD", s.type, FALSE), SizeOf.smi,
         <<Group(AddressItems(images, s.handlers), SizeOf.smiHandler)>>)

SmiRecords(images, smis) == [i \in 1..Len(smis) |-> SmiRecord(images, smis[i])]

GetSmmSmiDatabaseData(images, smis, expected) == Closed(Section(SmiRecords(images, smis), expected), expected)

RootRecord(images, roots) ==
  Record(Header("SCSD", "zero", TRUE), SizeOf.smi,
         <<Group(AddressItems(images, roots), SizeOf.smiHandler)>>)

(* The root record is written before the first check. *)
GetSmmRootSmiDatabaseData(images, roots, expected) ==
  Closed(EmitRecord(Section0, RootRecord(images, roots), expected), expected)

ChildRecord(images, child) ==
  Record(Header("CDSD", SwGuid, FALSE), SizeOf.child,
         <<Group(AddressItems(images, child.callbacks), SizeOf.childSw)>>)

(* The caller ignores its status. *)
SmmChildGetData(images, child, expected) == EmitRecord(Section0, ChildRecord(images, child), expected)

(* All sections one behind the other; the first mismatch rejects the whole. *)
GetSmmCoreDatabaseData(images, core, child, sizes) ==
  LET img  == GetSmmImageDatabaseData(images, sizes.image)
      hnd  == GetSmmHandlerDatabaseData(images, core.handles, sizes.handle)
      prt  == GetSmmProtocolDatabaseData(images, core.protocols, sizes.protocol)
      smi  == GetSmmSmiDatabaseData(images, core.smis, sizes.smi)
      root == GetSmmRootSmiDatabaseData(images, core.roots, sizes.root)
      chd  == SmmChildGetData(images, child, sizes.child)
      b1   == sizes.image
      b2   == b1 + sizes.handle
      b3   == b2 + sizes.protocol
      b4   == b3 + sizes.smi
      b5   == b4 + sizes.root
  IN  [ok  |-> img.ok /\ hnd.ok /\ prt.ok /\ smi.ok /\ root.ok,
       mem |-> Over(img.mem, Over(At(b1, hnd.mem), Over(At(b2, prt.mem), Over(At(b3, smi.mem),
               Over(At(b4, root.mem), IF sizes.child # 0 THEN At(b5, chd.mem) ELSE EmptyMem)))))]
=============================================================================
