-------------------------- MODULE SmmCoreDumpSystem --------------------------
(***************************************************************************)
(* The SmmCoreDump driver and SmmCoreDumpApp together.  The driver runs at *)
(* SmmReadyToLock, long before the shell; the application then fetches the *)
(* database.  The transfer is the atomic one of DumpSnapshot, which        *)
(* SmmCoreDumpTransfer implements.                                         *)
(***************************************************************************)
EXTENDS SmmCoreAgent, SmmCoreDumpApp

vars == <<agentVars, appWalkVars>>

Init == AgentInit /\ AppWalkInit

Agent == AgentNext /\ UNCHANGED appWalkVars

(* The application is started in the shell, when the driver has finished. *)
Fetch ==
  /\ apc = "done"
  /\ \/ registered /\ present /\ StartWalk(TotalSize(sizes), mem)
     \/ GiveUp
  /\ UNCHANGED agentVars

Walk == AppWalkNext /\ UNCHANGED agentVars

Next == Agent \/ Fetch \/ Walk

Spec == Init /\ [][Next]_vars
FairSpec == Spec /\ WF_vars(Next)

-----------------------------------------------------------------------------
(* Types: the state of both programs; mImageStruct stays within the table   *)
(* that was allocated for it, on both sides.                                *)
TypeOK ==
  /\ apc \in AgentPcs
  /\ walk \in Walks \cup {"wait", "end"}
  /\ cursor \in Nat /\ namesMax \in Nat /\ Len(names) <= namesMax
  /\ imageMax \in Nat /\ Len(images) <= imageMax
  /\ coreFound \in BOOLEAN /\ present \in BOOLEAN /\ registered \in BOOLEAN

(* No walk of the application ever leaves the chain of records, and none    *)
(* runs past the end of the buffer: every Length is right, in every section. *)
NeverDerails ==
  /\ cursor <= db.size
  /\ walk \in Walks /\ cursor < db.size => OnRecord

(* Image tables of one platform that agree.  The UEFI handle database has   *)
(* the SMM images too, and nothing in SMRAM that an SMM image table with    *)
(* the core in it lacks; images do not overlap; and the second table has    *)
(* room behind the slots that the first one leaves blank (the ASSERT of     *)
(* AddImageStruct, see AddImageStructAssert).                               *)
Overlap(i, j) == i.base < j.base + j.size /\ j.base < i.base + i.size
Among(i, list) == \E k \in 1..Len(list) : ImageStruct(list[k]) = ImageStruct(i)

TablesAgree(p) ==
  LET smm   == p.smmImages
      smram == InSmram(p.dxeImages)[Len(p.dxeImages)]
      both  == smm \o smram
  IN  /\ \A i \in 1..Len(smm) : Among(smm[i], smram)
      /\ HasCore(smm) => \A i \in 1..Len(smram) : Among(smram[i], smm)
      /\ ~HasCore(smm) => Len(smm) + Len(smram) <= Len(p.dxeImages)
      /\ \A i, j \in 1..Len(both) : Overlap(both[i], both[j]) => both[i].name = both[j].name

(* The images that the platform's own tables know in SMRAM, those of the   *)
(* SMM handle database first, and the name they give to an address.         *)
AllImages == platform.smmImages \o SmramImages
Holders(addr) == {i \in 1..Len(AllImages) : Holds(AllImages[i], addr)}

PlatformName(addr) ==
  IF Holders(addr) = {} THEN UNKNOWN_NAME
  ELSE AllImages[CHOOSE i \in Holders(addr) : \A j \in Holders(addr) : i <= j].name

InterfaceName(i) ==
  IF Holders(i.addr) # {} \/ i.guid \notin KnownProtocols
  THEN PlatformName(i.addr) ELSE PlatformName(i.func)

Interfaces(list) == [i \in 1..Len(list) |-> [addr |-> list[i].addr, name |-> InterfaceName(list[i])]]
Addresses(list) == [i \in 1..Len(list) |-> [addr |-> list[i], name |-> PlatformName(list[i])]]

(* The sections of the report, written down from the platform's lists. *)
Expected ==
  [i \in 1..Len(platform.handles) |->
     [walk |-> "handle", key |-> platform.handles[i].id,
      items |-> <<Interfaces(platform.handles[i].interfaces)>>]]
  \o
  [i \in 1..Len(platform.protocols) |->
     [walk |-> "protocol", key |-> platform.protocols[i].guid,
      items |-> <<Interfaces(platform.protocols[i].interfaces),
                  Addresses(platform.protocols[i].notifies)>>]]
  \o
  [i \in 1..Len(platform.smis) |->
     [walk |-> "smi", key |-> platform.smis[i].type, items |-> <<Addresses(platform.smis[i].handlers)>>]]
  \o
  <<[walk |-> "root", key |-> "zero", items |-> <<Addresses(platform.roots)>>]>>
  \o
  (IF platform.child.lib = "Null" THEN <<>>
   ELSE <<[walk |-> "child", key |-> SwGuid, items |-> <<Addresses(platform.child.callbacks)>>]>>)

(* The first section: the images of the agent's table. *)
ImageLines == [i \in 1..Len(images) |-> [walk |-> "image", key |-> images[i], items |-> <<>>]]

(* The lines without the names: what is left when mImageStruct of the       *)
(* application could not be allocated.                                      *)
Nameless(lines) ==
  [i \in 1..Len(lines) |->
     [lines[i] EXCEPT !.items = [g \in 1..Len(lines[i].items) |->
        [j \in 1..Len(lines[i].items[g]) |-> lines[i].items[g][j].addr]]]]

(* When the application has printed everything, the report is that of the   *)
(* platform: every image of the table, every handle, protocol, SMI entry    *)
(* and callback once, in list order, the tool's own probes left out, and    *)
(* each address with the name of the image that holds it (or no images and  *)
(* no names at all).                                                        *)
ReportComplete ==
  walk = "end" /\ report # <<>> =>
    \/ report = ImageLines \o Expected
    \/ namesMax = 0 /\ Nameless(report) = Nameless(Expected)

(* The application reads the database as the agent has written it: it      *)
(* stays on the records, and reports the platform.                          *)
ReportRight == TypeOK /\ NeverDerails /\ ReportComplete

(* An application that starts its walks finishes them. *)
WalksFinish == walk = "count" ~> walk = "end"
=============================================================================
