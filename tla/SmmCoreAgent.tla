----------------------------- MODULE SmmCoreAgent -----------------------------
(***************************************************************************)
(* The SmmCoreDump driver: what SmmReadyToLockInSmmCoreDump does, once, in *)
(* SMM, when the platform locks SMRAM.                                     *)
(*                                                                         *)
(* The SMM core does not export its lists.  The driver finds them by       *)
(* installing a protocol and SMI handlers of its own, following the list   *)
(* links from its own node to the list head, and removing its nodes again. *)
(* It then builds the database and registers the handler that serves it.   *)
(***************************************************************************)
EXTENDS SmmCoreDatabase

CONSTANTS
  Platforms,         \* what firmware the driver may find itself in
  AssertsEnabled     \* TRUE: a failed ASSERT stops the program

(* The lists of a platform's firmware are lists, and nothing in them bears  *)
(* the GUID of this driver before it runs; addresses are numbers.           *)
IsList(s) == s \in Seq({s[i] : i \in 1..Len(s)})
AreImages(s) == \A i \in 1..Len(s) : s[i].base \in Nat /\ s[i].size \in Nat
AreInterfaces(s) == \A i \in 1..Len(s) : s[i].addr \in Nat /\ s[i].func \in Nat
AreAddresses(s) == \A i \in 1..Len(s) : s[i] \in Nat

ListsForm(p) ==
  /\ IsList(p.smmImages) /\ IsList(p.dxeImages)
  /\ IsList(p.handles) /\ \A i \in 1..Len(p.handles) : p.handles[i].id # Own /\ IsList(p.handles[i].interfaces)
  /\ IsList(p.protocols)
  /\ \A i \in 1..Len(p.protocols) :
       p.protocols[i].guid # Own /\ IsList(p.protocols[i].interfaces) /\ IsList(p.protocols[i].notifies)
  /\ IsList(p.smis) /\ \A i \in 1..Len(p.smis) : IsList(p.smis[i].handlers)
  /\ IsList(p.roots) /\ IsList(p.child.callbacks)
AddressesForm(p) ==
  /\ AreImages(p.smmImages) /\ AreImages(p.dxeImages)
  /\ \A i \in 1..Len(p.handles) : AreInterfaces(p.handles[i].interfaces)
  /\ \A i \in 1..Len(p.protocols) : AreInterfaces(p.protocols[i].interfaces) /\ AreAddresses(p.protocols[i].notifies)
  /\ \A i \in 1..Len(p.smis) : AreAddresses(p.smis[i].handlers)
  /\ AreAddresses(p.roots) /\ AreAddresses(p.child.callbacks)
ASSUME PlatformsAssumption == \A p \in Platforms : ListsForm(p) /\ AddressesForm(p)

VARIABLES
  platform,    \* the firmware as it was before the driver ran
  core,        \* the lists of the SMM core
  images,      \* mImageStruct[0 .. mImageStructCount-1]
  imageMax,    \* mImageStructCountMax
  coreFound,   \* mSmmCoreLoadedImage is not NULL
  found,       \* which of the four list heads are known
  sizes,       \* the section sizes of the size pass
  present,     \* mSmmCoreDatabase is not NULL
  mem,         \* the structures in it
  registered,  \* SmmCoreDumpHandler is registered
  apc          \* where SmmCoreDump is

agentVars == <<platform, core, images, imageMax, coreFound, found, sizes, present, mem,
               registered, apc>>

(* A slot of a zeroed mImageStruct. *)
BlankImage == [base |-> 0, size |-> 0, name |-> ""]

ImageStruct(i) == [base |-> i.base, size |-> i.size, name |-> i.name]

HasCore(list) == \E i \in 1..Len(list) : list[i].core

-----------------------------------------------------------------------------
(* AddImageStruct for each image of a list, on a table with `room' free     *)
(* slots: the ASSERT(FALSE) of a full table, or the image is dropped.       *)
Overflows(list, room) == Len(list) > room

AddImageStructs(table, list, room) ==
  table \o [i \in 1 .. (IF Overflows(list, room) THEN room ELSE Len(list)) |-> ImageStruct(list[i])]

(* One AllocateZeroPool fails, or no SMM image is found at all. *)
GetSmmLoadedImageFails ==
  /\ apc = "images"
  /\ apc' = "fallback"
  /\ UNCHANGED <<platform, core, images, imageMax, coreFound, found, sizes, present, mem, registered>>

(* The images of the SMM handle database. *)
GetSmmLoadedImage ==
  /\ apc = "images" /\ platform.smmImages # <<>>
  /\ imageMax' = Len(platform.smmImages)
  /\ images' = AddImageStructs(<<>>, platform.smmImages, Len(platform.smmImages))
  /\ coreFound' = HasCore(platform.smmImages)
  /\ apc' = IF coreFound' THEN "install" ELSE "fallback"
  /\ UNCHANGED <<platform, core, found, sizes, present, mem, registered>>

(* LocateHandleBuffer or AllocateZeroPool fails: the SMM core is not found. *)
GetLoadedImageFails ==
  /\ apc = "fallback"
  /\ apc' = "done"
  /\ UNCHANGED <<platform, core, images, imageMax, coreFound, found, sizes, present, mem, registered>>

(* The images of the UEFI handle database that lie in SMRAM.  The table is  *)
(* allocated anew for all UEFI images, but mImageStructCount goes on from   *)
(* where GetSmmLoadedImage left it.                                         *)
InSmram(list) ==
  LET kept[n \in 0..Len(list)] ==
        IF n = 0 THEN <<>> ELSE IF list[n].smram THEN Append(kept[n - 1], list[n]) ELSE kept[n - 1]
  IN  kept
SmramImages == InSmram(platform.dxeImages)[Len(platform.dxeImages)]

GetLoadedImage ==
  /\ apc = "fallback"
  /\ LET max   == Len(platform.dxeImages)
         blank == [i \in 1..Len(images) |-> BlankImage]
         room  == IF max > Len(images) THEN max - Len(images) ELSE 0
     IN  /\ imageMax' = max
         /\ images' = AddImageStructs(blank, SmramImages, room)
         /\ coreFound' = HasCore(SmramImages)
         /\ apc' = IF AssertsEnabled /\ Overflows(SmramImages, room) THEN "assert"
                   ELSE IF coreFound' THEN "install" ELSE "done"
  /\ UNCHANGED <<platform, core, found, sizes, present, mem, registered>>

-----------------------------------------------------------------------------
(* The SMM core's side of the probes: new nodes go to the tail of a list,   *)
(* a handle without protocols is freed, an empty PROTOCOL_ENTRY is kept.    *)

OwnInterface == [guid |-> Own, addr |-> 0, func |-> 0]

InstallProtocolInterface(c) ==
  [c EXCEPT !.handles = Append(@, [id |-> Own, interfaces |-> <<OwnInterface>>]),
            !.protocols = Append(@, [guid |-> Own, interfaces |-> <<OwnInterface>>, notifies |-> <<>>])]

WithoutHandle(handles, id) ==
  LET k == CHOOSE k \in 1..Len(handles) : handles[k].id = id
  IN  [i \in 1..Len(handles) - 1 |-> IF i < k THEN handles[i] ELSE handles[i + 1]]

UninstallProtocolInterface(c) ==
  [c EXCEPT !.handles = WithoutHandle(@, Own),
            !.protocols = [i \in 1..Len(@) |-> IF @[i].guid = Own
                                               THEN [@[i] EXCEPT !.interfaces = <<>>] ELSE @[i]]]

InstallFails ==
  /\ apc = "install"
  /\ apc' = "done"
  /\ UNCHANGED <<platform, core, images, imageMax, coreFound, found, sizes, present, mem, registered>>

Install ==
  /\ apc = "install"
  /\ core' = InstallProtocolInterface(core)
  /\ apc' = "discover"
  /\ UNCHANGED <<platform, images, imageMax, coreFound, found, sizes, present, mem, registered>>

(* GetSmmCoreHandleList follows AllHandles to the node that is no handle.   *)
(* GetSmmCoreProtocolDatabase starts from an interface of another handle.   *)
OtherInterfaces ==
  {h \in 1..Len(core.handles) : core.handles[h].id # Own /\ core.handles[h].interfaces # <<>>}

Discover ==
  /\ apc = "discover"
  /\ found' = [found EXCEPT !.handle = TRUE, !.protocol = OtherInterfaces # {}]
  /\ apc' = "uninstall"
  /\ UNCHANGED <<platform, core, images, imageMax, coreFound, sizes, present, mem, registered>>

UninstallFails ==
  /\ apc = "uninstall"
  /\ apc' = "done"
  /\ UNCHANGED <<platform, core, images, imageMax, coreFound, found, sizes, present, mem, registered>>

ForgottenUninstall ==          \* mutant: the probe stays installed
  /\ apc = "uninstall"
  /\ apc' = IF found.protocol THEN "probeSmi" ELSE "undefined"
  /\ UNCHANGED <<platform, core, images, imageMax, coreFound, found, sizes, present, mem, registered>>

(* DumpHandleList and DumpProtocolDatabase follow; the second dereferences  *)
(* the protocol list whether or not it was found.                           *)
Uninstall ==
  /\ apc = "uninstall"
  /\ core' = UninstallProtocolInterface(core)
  /\ apc' = IF found.protocol THEN "probeSmi" ELSE "undefined"
  /\ UNCHANGED <<platform, images, imageMax, coreFound, found, sizes, present, mem, registered>>

(* SmiHandlerRegister, GetSmmCoreSmiEntryList, SmiHandlerUnRegister: no one *)
(* else runs in between, and the SMM core removes an empty SMI_ENTRY.       *)
ProbeSmiEntryList(ok) ==
  /\ apc = "probeSmi"
  /\ found' = [found EXCEPT !.smi = ok]
  /\ apc' = "probeRoot"
  /\ UNCHANGED <<platform, core, images, imageMax, coreFound, sizes, present, mem, registered>>

ProbeRootSmiHandlerList(ok) ==
  /\ apc = "probeRoot"
  /\ found' = [found EXCEPT !.root = ok]
  /\ apc' = "size"
  /\ UNCHANGED <<platform, core, images, imageMax, coreFound, sizes, present, mem, registered>>

-----------------------------------------------------------------------------
(* RegisterSmmCoreDumpHandler. *)

(* The size pass follows all four lists, and the child list of the Nt32     *)
(* library, without looking whether their heads were found.                 *)
ListsFound == found.smi /\ found.root /\ (platform.child.lib = "Nt32" => platform.child.found)

BuildSize ==
  /\ apc = "size"
  /\ IF ListsFound
     THEN /\ sizes' = GetSmmCoreDatabaseSize(images, core, platform.child)
          /\ apc' = "pool"
     ELSE /\ apc' = "undefined"
          /\ UNCHANGED sizes
  /\ UNCHANGED <<platform, core, images, imageMax, coreFound, found, present, mem, registered>>

BuildAllocateFails ==
  /\ apc = "pool"
  /\ apc' = "register"
  /\ UNCHANGED <<platform, core, images, imageMax, coreFound, found, sizes, present, mem, registered>>

BuildData ==
  /\ apc = "pool"
  /\ LET data == GetSmmCoreDatabaseData(images, core, platform.child, sizes)
     IN  /\ present' = data.ok
         /\ mem' = data.mem
  /\ apc' = "register"
  /\ UNCHANGED <<platform, core, images, imageMax, coreFound, found, sizes, registered>>

RegisterFails ==
  /\ apc = "register"
  /\ apc' = IF AssertsEnabled THEN "assert" ELSE "done"
  /\ UNCHANGED <<platform, core, images, imageMax, coreFound, found, sizes, present, mem, registered>>

RegisterSmmCoreDumpHandler ==
  /\ apc = "register"
  /\ registered' = TRUE
  /\ apc' = "done"
  /\ UNCHANGED <<platform, core, images, imageMax, coreFound, found, sizes, present, mem>>

-----------------------------------------------------------------------------
NoSizes == [image |-> 0, handle |-> 0, protocol |-> 0, smi |-> 0, root |-> 0, child |-> 0]

AgentInit ==
  /\ platform \in Platforms
  /\ core = [handles |-> platform.handles, protocols |-> platform.protocols,
             smis |-> platform.smis, roots |-> platform.roots]
  /\ images = <<>> /\ imageMax = 0 /\ coreFound = FALSE
  /\ found = [handle |-> FALSE, protocol |-> FALSE, smi |-> FALSE, root |-> FALSE]
  /\ sizes = NoSizes /\ present = FALSE /\ mem = EmptyMem
  /\ registered = FALSE
  /\ apc = "images"

AgentNext ==
  \/ GetSmmLoadedImageFails \/ GetSmmLoadedImage
  \/ GetLoadedImageFails \/ GetLoadedImage
  \/ InstallFails \/ Install \/ Discover \/ UninstallFails \/ Uninstall
  \/ \E ok \in BOOLEAN : ProbeSmiEntryList(ok)
  \/ \E ok \in BOOLEAN : ProbeRootSmiHandlerList(ok)
  \/ BuildSize \/ BuildAllocateFails \/ BuildData
  \/ RegisterFails \/ RegisterSmmCoreDumpHandler

AgentSpec == AgentInit /\ [][AgentNext]_agentVars
AgentFairSpec == AgentSpec /\ WF_agentVars(AgentNext)

-----------------------------------------------------------------------------
AgentPcs == {"images", "fallback", "install", "discover", "uninstall", "probeSmi", "probeRoot",
             "size", "pool", "register", "done", "assert", "undefined"}

(* The data pass never disagrees with the size pass: a database that could  *)
(* be allocated is served, whatever the lists hold.                         *)
PassesAgree ==
  apc = "pool" => GetSmmCoreDatabaseData(images, core, platform.child, sizes).ok

(* The probes leave the lists of the SMM core as they were, except for the  *)
(* empty PROTOCOL_ENTRY at the very end, where the `break' at Own hides it  *)
(* and nothing else.                                                        *)
ProbesLeaveNoTrace ==
  apc \in {"probeSmi", "probeRoot", "size", "pool", "register"} =>
    /\ core.handles = platform.handles
    /\ core.smis = platform.smis /\ core.roots = platform.roots
    /\ UpToOwn(core.protocols) = platform.protocols
    /\ Len(core.protocols) = Len(platform.protocols) + 1

(* What the ASSERT(FALSE) of AddImageStruct says: an image never finds the  *)
(* table full.                                                              *)
AddImageStructAssert ==
  apc = "fallback" => Len(images) + Len(SmramImages) <= Len(platform.dxeImages)
=============================================================================
