---------------------------- MODULE SmmCoreDumpApp ----------------------------
(***************************************************************************)
(* What SmmCoreDumpApp prints from the database it fetched.  Each section  *)
(* of the report is a walk over the whole buffer, from record to record by *)
(* Header.Length, that prints the records of one signature.  The first two *)
(* walks count the images and rebuild mImageStruct, so that the image      *)
(* references of the later sections can be turned into names.              *)
(***************************************************************************)
EXTENDS SmmCoreDatabase

VARIABLES
  db,         \* [size, mem]: mSmmCoreDatabase of the application
  walk,       \* which walk is running, one of Walks, or "wait" or "end"
  cursor,     \* the record pointer of the walk, relative to the buffer
  names,      \* mImageStruct[0 .. mImageStructCount-1], the names in it
  namesMax,   \* mImageStructCountMax
  report      \* the records printed so far

appWalkVars == <<db, walk, cursor, names, namesMax, report>>

(* The order of SmmCoreDumpAppEntrypoint. *)
After == [count |-> "image", image |-> "handle", handle |-> "protocol", protocol |-> "smi",
          smi |-> "root", root |-> "child", child |-> "end"]
Walks == DOMAIN After

(* The test at the head of each walk: is the record one of this section? *)
Printed(w, r) ==
  CASE w \in {"count", "image"} -> r.sig = "SCID"
    [] w = "handle"   -> r.sig = "SCHD"
    [] w = "protocol" -> r.sig = "SCPD"
    [] w = "smi"      -> r.sig = "SCSD" /\ ~r.root
    [] w = "root"     -> r.sig = "SCSD" /\ r.root
    [] w = "child"    -> r.sig = "CDSD"

(* Where the items of a record start, one entry per group of items. *)
GroupSizes(w) ==
  CASE w \in {"count", "image"} -> <<>>
    [] w = "handle"   -> <<SizeOf.handleProtocol>>
    [] w = "protocol" -> <<SizeOf.interface, SizeOf.notify>>
    [] w \in {"smi", "root"} -> <<SizeOf.smiHandler>>
    [] w = "child"    -> <<SizeOf.childSw>>

HeaderSize(w) ==
  CASE w = "handle" -> SizeOf.handle [] w = "protocol" -> SizeOf.protocol
    [] w \in {"smi", "root"} -> SizeOf.smi [] w = "child" -> SizeOf.child
    [] OTHER -> SizeOf.image

GroupStart(w, r, g) ==
  HeaderSize(w) + (IF g = 2 THEN r.counts[1] * GroupSizes(w)[1] ELSE 0)

(* A reference past the table, (UINTN)-1 included, has no name. *)
GetImageRefName(ref) ==
  IF ref = NoRef \/ ref >= namesMax THEN UNKNOWN_NAME ELSE names[ref + 1]

(* The offsets at which the walk reads the items of the record at cursor. *)
ItemOffsets(w, r) ==
  UNION { {cursor + GroupStart(w, r, g) + (i-1) * GroupSizes(w)[g] : i \in 1..r.counts[g]}
          : g \in 1..Len(GroupSizes(w)) }

(* The line a record becomes: its key and, per group, each item with its name. *)
Line(w, r) ==
  [walk |-> w, key |-> r.key,
   items |-> [g \in 1..Len(GroupSizes(w)) |->
                [i \in 1..r.counts[g] |->
                   LET item == db.mem[cursor + GroupStart(w, r, g) + (i-1) * GroupSizes(w)[g]]
                   IN  [addr |-> item.addr, name |-> GetImageRefName(item.ref)]]]]

-----------------------------------------------------------------------------
(* The record pointer is on a record header, and all its items are inside. *)
OnRecord ==
  /\ cursor \in DOMAIN db.mem
  /\ "sig" \in DOMAIN db.mem[cursor]
  /\ db.mem[cursor].len > 0
  /\ Printed(walk, db.mem[cursor]) => ItemOffsets(walk, db.mem[cursor]) \subseteq DOMAIN db.mem

(* Mutant: records of other sections are not stepped over. *)
VisitOwnOnly ==
  /\ walk \in Walks /\ cursor < db.size
  /\ LET r == db.mem[cursor]
     IN  /\ namesMax' = IF walk = "count" /\ Printed(walk, r) THEN namesMax + 1 ELSE namesMax
         /\ names' = IF walk = "image" /\ Printed(walk, r) /\ Len(names) < namesMax
                     THEN Append(names, r.key.name) ELSE names
         /\ report' = IF walk # "count" /\ Printed(walk, r)
                      THEN Append(report, Line(walk, r)) ELSE report
         /\ cursor' = IF Printed(walk, r) THEN cursor + r.len ELSE cursor
  /\ UNCHANGED <<db, walk>>

(* One turn of the loop of DumpSmmLoadedImage (both loops), DumpHandle-     *)
(* Database, DumpProtocolDatabase, DumpSmiHandler, DumpRootSmiHandler or    *)
(* DumpSmmChildHandler.                                                     *)
Visit ==
  /\ walk \in Walks /\ cursor < db.size
  /\ LET r == db.mem[cursor]
     IN  /\ namesMax' = IF walk = "count" /\ Printed(walk, r) THEN namesMax + 1 ELSE namesMax
         /\ names' = IF walk = "image" /\ Printed(walk, r) /\ Len(names) < namesMax
                     THEN Append(names, r.key.name) ELSE names
         /\ report' = IF walk # "count" /\ Printed(walk, r)
                      THEN Append(report, Line(walk, r)) ELSE report
         /\ cursor' = cursor + r.len
  /\ UNCHANGED <<db, walk>>

WalkEnds ==
  /\ walk \in Walks /\ cursor >= db.size
  /\ walk' = After[walk]
  /\ cursor' = 0
  /\ UNCHANGED <<db, names, namesMax, report>>

(* AllocateZeroPool of mImageStruct fails: DumpSmmLoadedImage returns, and  *)
(* the other sections are printed without names.                            *)
NoNames ==
  /\ walk = "count" /\ cursor >= db.size
  /\ walk' = "handle"
  /\ cursor' = 0 /\ namesMax' = 0
  /\ UNCHANGED <<db, names, report>>

AppWalkInit ==
  /\ walk = "wait" /\ cursor = 0
  /\ names = <<>> /\ namesMax = 0 /\ report = <<>>
  /\ db = [size |-> 0, mem |-> EmptyMem]

(* GetSmmCoreDatabase has returned with a buffer. *)
StartWalk(size, m) ==
  /\ walk = "wait"
  /\ db' = [size |-> size, mem |-> m]
  /\ walk' = "count"
  /\ UNCHANGED <<cursor, names, namesMax, report>>

(* It has returned without one: the application returns at once. *)
GiveUp ==
  /\ walk = "wait"
  /\ walk' = "end"
  /\ UNCHANGED <<db, cursor, names, namesMax, report>>

AppWalkNext == Visit \/ WalkEnds \/ NoNames
=============================================================================
