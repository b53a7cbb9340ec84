---------------------------- MODULE AcpiTableDump -----------------------------
(***************************************************************************)
(* The dump of one ACPI table by its DumpAcpi<TABLE>Lib library: the banner*)
(* and, with -v, the walk over the structures of the table as              *)
(* AcpiTableFormats describes it, with the calls into the walks of nested  *)
(* structures as a stack of frames.                                        *)
(*                                                                         *)
(* Memory is a function from the addresses at which a structure starts to  *)
(* that structure; an address outside its domain is memory the table says  *)
(* nothing about.  Field `owner' is not in memory: it is the address of    *)
(* the structure a structure belongs to, and only the properties use it.   *)
(***************************************************************************)
EXTENDS AcpiTableFormats, Sequences, FiniteSets

CONSTANT Memories           \* the memories a dump may find

NULL == 0

(* A memory has the tables to dump among its structures (owner NULL). *)
Structure == [type : STRING, len : Nat, count : Nat, last : BOOLEAN, ptr : Nat,
              offset : Nat, owner : Nat]

SizeOfType(t) == IF t \in Types THEN SizeOf[t] ELSE 0

(* Where, from its own start, the structures inside structure s begin.     *)
Header(s) ==
  CASE s.type = "CONTROLLER" -> SizeOf["CONTROLLER"] + 4 * s.count
    [] s.type \in {"MSCT", "DBG2"} -> s.offset
    [] OTHER -> SizeOfType(s.type)

PointerTypes == {"FBPTPTR", "S3PTPTR"}

(* The structures a library looks inside of. *)
Containers ==
  {"MADT", "SRAT", "DMAR", "DRHD", "RMRR", "ATSR", "NFIT", "PMTT", "SOCKET", "CONTROLLER", "LPIT",
   "FPDT", "FBPT", "S3PT", "HEST", "MCE", "CMC", "ASFT", "CPEP", "MCFG", "WDAT", "EINJ", "ERST",
   "DBG2", "MSCT", "MPST", "CHARS"}

(* What is inside those ACPI gives one content. *)
Content ==
  [CPEP |-> {"POLL"}, MCFG |-> {"BASE"}, WDAT |-> {"WDACTION"}, EINJ |-> {"INJECT"},
   ERST |-> {"SERIALIZE"}, MCE |-> {"BANK"}, CMC |-> {"BANK"}, CHARS |-> {"CHAR"}]

(* The types of which ACPI says how long they are, up to the error banks.  *)
FixedSize ==
  {"LAPIC", "IOAPIC", "ISO", "NMI", "LAPICNMI", "LAPICADDR", "IOSAPIC", "LSAPIC", "PIS", "X2APIC",
   "X2APICNMI", "CPU", "MEM", "MCE", "CMC", "NMIERR", "AERROOT", "AERDEV", "AERBRG", "GHES", "BANK",
   "POLL", "BASE", "WDACTION", "INJECT", "SERIALIZE", "CHAR"}

ErrorBanks(s) == IF s.type \in {"MCE", "CMC"} THEN s.count * SizeOf["BANK"] ELSE 0

Parts(m, o) == {a \in DOMAIN m : m[a].owner = o}

(* How many parts a container says it has; MPST counts its nodes, and the  *)
(* characteristics follow as one more.                                     *)
Counted == {"HEST", "MCE", "CMC", "WDAT", "EINJ", "ERST", "DBG2", "MSCT", "MPST", "CHARS"}
PartsSaid(s) == IF s.type \in {"MSCT", "MPST"} THEN s.count + 1 ELSE s.count

(* Address `at' is the end of container o, or one of its parts is there.   *)
EndOf(m, o) == o + m[o].len
EndOrPart(m, o, at) == at = EndOf(m, o) \/ at \in Parts(m, o)

(* The parts of a container begin behind its header and lie one behind the *)
(* other up to its end.                                                    *)
Tiled(m, o) ==
  /\ EndOrPart(m, o, o + Header(m[o]))
  /\ \A a \in Parts(m, o) :
       /\ a + m[a].len <= EndOf(m, o) /\ m[a].len > 0
       /\ EndOrPart(m, o, a + m[a].len)
       /\ o + Header(m[o]) <= a
       /\ \A b \in Parts(m, o) : a < b => a + m[a].len <= b

(* What ACPI says of a container besides: what it holds, and how many; the *)
(* record that ends an ASF! table is flagged.                              *)
ContentRight(m, o) ==
  LET t == m[o].type IN
  /\ t \in DOMAIN Content => \A a \in Parts(m, o) : m[a].type \in Content[t]
  /\ t \in Counted => Cardinality(Parts(m, o)) = PartsSaid(m[o])
  /\ t = "MPST" => \A a \in Parts(m, o) : m[a].type = "CHARS" <=> a + m[a].len = EndOf(m, o)
  /\ t = "ASFT" => /\ Parts(m, o) # {}
                   /\ \A a \in Parts(m, o) : m[a].last <=> a + m[a].len = EndOf(m, o)

(* A table as ACPI wants it; a pointer record is NULL or points to a       *)
(* container of its own.                                                   *)
WellFormed(m) ==
  /\ \A o \in DOMAIN m : m[o].type \in Containers => Tiled(m, o) /\ ContentRight(m, o)
  /\ \A a \in DOMAIN m : m[a].type \in FixedSize => m[a].len = SizeOf[m[a].type] + ErrorBanks(m[a])
  /\ \A a \in DOMAIN m :
       m[a].type \in PointerTypes /\ m[a].ptr # NULL =>
         /\ m[a].ptr \in DOMAIN m
         /\ m[m[a].ptr].type = IF m[a].type = "FBPTPTR" THEN "FBPT" ELSE "S3PT"

ASSUME MemoriesAssumption ==
  \A m \in Memories : /\ NULL \notin DOMAIN m
                      /\ DOMAIN m \subseteq Nat /\ IsFiniteSet(DOMAIN m)
                      /\ \A a \in DOMAIN m : m[a] \in Structure
                      /\ WellFormed(m)

VARIABLES
  mem,       \* the memory of this machine; never written
  tpc,       \* "idle", "walking", "done", or "astray": reading outside `mem'
  stack,     \* the walks under way, innermost last
  printed    \* addresses of the structures interpreted so far

vars == <<mem, tpc, stack, printed>>

Top == stack[Len(stack)]
Below == SubSeq(stack, 1, Len(stack) - 1)

-----------------------------------------------------------------------------
ShortBudget(w, a) ==               \* mutant: MSCT loops while Index < Maximum
  CASE WalkOf[w].pays = "count" -> mem[a].count
    [] WalkOf[w].pays = "last" -> 1
    [] OTHER -> mem[a].len - Header(mem[a])

NoDomainsBudget(w, a) ==           \* mutant: the proximity domains are not taken off
  CASE WalkOf[w].pays = "count" -> mem[a].count + IF w = "MSCT" THEN 1 ELSE 0
    [] WalkOf[w].pays = "last" -> 1
    [] OTHER -> mem[a].len - SizeOfType(mem[a].type)

(* What the loop counter of walk w over the structure at a starts from. *)
Budget(w, a) ==
  CASE WalkOf[w].pays = "count" /\ w = "MSCT" -> mem[a].count + 1
    [] WalkOf[w].pays = "count" /\ w # "MSCT" -> mem[a].count
    [] WalkOf[w].pays = "last" -> 1
    [] OTHER -> mem[a].len - Header(mem[a])

Enter(w, a) ==
  [walk |-> w, owner |-> a, at |-> a + Header(mem[a]), left |-> Budget(w, a),
   tableLen |-> 0, seen |-> FALSE]

Init ==
  /\ mem \in Memories
  /\ tpc = "idle"
  /\ stack = <<>>
  /\ printed = <<>>

(* The libraries of tables with fixed fields stop after the header.        *)
BeginDump(a, verb) ==
  /\ tpc = "idle"
  /\ LET walks == verb /\ mem[a].type \in Signatures
     IN  /\ tpc' = IF walks THEN "walking" ELSE "done"
         /\ stack' = IF walks THEN <<Enter(mem[a].type, a)>> ELSE <<>>
         /\ printed' = IF verb THEN <<a>> ELSE <<>>
  /\ UNCHANGED mem

-----------------------------------------------------------------------------
Looking == tpc = "walking" /\ Top.left > 0 /\ ~Top.seen

Known(w, t) == t \in WalkOf[w].known

(* The structure whose inside is walked: the pointer records of FPDT lead  *)
(* to a table elsewhere.                                                   *)
InnerBase(a) == IF mem[a].type \in PointerTypes THEN mem[a].ptr ELSE a

HasInner(w, a) == mem[a].type \in DOMAIN WalkOf[w].inner /\ InnerBase(a) # NULL

(* The body of the switch: dump the structure, and what it contains.       *)
LookAt ==
  /\ Looking
  /\ Top.at \in DOMAIN mem
  /\ LET a == Top.at
         w == Top.walk
         known == Known(w, mem[a].type)
         seen == Append(Below, [Top EXCEPT !.seen = TRUE])
     IN  /\ known \/ WalkOf[w].other # "stop"
         /\ printed' = printed \o (IF known \/ WalkOf[w].other = "print" THEN <<a>> ELSE <<>>)
                               \o (IF HasInner(w, a) /\ InnerBase(a) # a THEN <<InnerBase(a)>> ELSE <<>>)
         /\ stack' = IF HasInner(w, a)
                       THEN Append(seen, Enter(WalkOf[w].inner[mem[a].type], InnerBase(a)))
                       ELSE seen
  /\ UNCHANGED <<mem, tpc>>

(* HEST's default case: `goto Done'. *)
UnknownEndsDump ==
  /\ Looking
  /\ Top.at \in DOMAIN mem
  /\ ~Known(Top.walk, mem[Top.at].type)
  /\ WalkOf[Top.walk].other = "stop"
  /\ tpc' = "done"
  /\ stack' = <<>>
  /\ UNCHANGED <<mem, printed>>

BySizeAdvance(w, a) ==             \* mutant: Struct++ in place of the Length field
  SizeOfType(mem[a].type) + ErrorBanks(mem[a])

(* The distance the cursor moves. *)
Advance(w, a) ==
  IF WalkOf[w].moves = "length" THEN mem[a].len
  ELSE SizeOfType(mem[a].type) + ErrorBanks(mem[a])

(* TableLen as the switch leaves it: an unknown type keeps the old value.  *)
TableLen(f) ==
  LET s == mem[f.at] IN
  CASE ~Known(f.walk, s.type) -> f.tableLen
    [] Known(f.walk, s.type) /\ s.type \in ChargedByLength -> s.len
    [] OTHER -> SizeOfType(s.type)

(* What is taken off the loop counter. *)
Charge(f) ==
  LET s == mem[f.at] IN
  CASE WalkOf[f.walk].pays = "length" -> s.len
    [] WalkOf[f.walk].pays = "sizeof" -> TableLen(f)
    [] WalkOf[f.walk].pays = "next" -> mem[f.at + Advance(f.walk, f.at)].len
    [] WalkOf[f.walk].pays = "count" -> 1
    [] WalkOf[f.walk].pays = "last" -> IF s.last THEN 1 ELSE 0

(* PMTT and LPIT read a Length at the place the cursor has just reached.   *)
ReadsNext(f) == WalkOf[f.walk].pays = "next"

KnownOnlyStep ==                   \* mutant: the default case is a `continue'
  /\ tpc = "walking"
  /\ Top.seen
  /\ LET known == Known(Top.walk, mem[Top.at].type) \/ WalkOf[Top.walk].other = "print"
         move == Advance(Top.walk, Top.at)
     IN  /\ ReadsNext(Top) => Top.at + move \in DOMAIN mem
         /\ stack' = Append(Below, [Top EXCEPT !.at = IF known THEN Top.at + move ELSE Top.at,
                                               !.left = IF known THEN Top.left - Charge(Top) ELSE Top.left,
                                               !.seen = FALSE])
  /\ UNCHANGED <<mem, tpc, printed>>

(* The bottom of the loop: move the cursor, charge the counter. *)
Step ==
  /\ tpc = "walking"
  /\ Top.seen
  /\ ReadsNext(Top) => Top.at + Advance(Top.walk, Top.at) \in DOMAIN mem
  /\ stack' = Append(Below, [Top EXCEPT !.at = Top.at + Advance(Top.walk, Top.at),
                                        !.left = Top.left - Charge(Top),
                                        !.tableLen = TableLen(Top),
                                        !.seen = FALSE])
  /\ UNCHANGED <<mem, tpc, printed>>

OneLevelWalkEnds ==                \* mutant: `goto Done' is written as a return to the caller
  /\ tpc = "walking"
  /\ ~Top.seen
  /\ Top.left <= 0
  /\ stack' = Below
  /\ UNCHANGED <<mem, tpc, printed>>

(* The loop condition fails: return to the caller, or start MPST's second  *)
(* loop from the header the cursor has reached.                            *)
WalkEnds ==
  /\ tpc = "walking"
  /\ ~Top.seen
  /\ Top.left <= 0
  /\ LET next == WalkOf[Top.walk].then IN
     IF next # None /\ Top.at \in DOMAIN mem
       THEN /\ stack' = Append(Below, Enter(next, Top.at))
            /\ printed' = Append(printed, Top.at)
            /\ tpc' = tpc
       ELSE /\ stack' = Below
            /\ tpc' = CASE next # None -> "astray" [] next = None /\ Below = <<>> -> "done" [] OTHER -> tpc
            /\ UNCHANGED printed
  /\ UNCHANGED mem

(* The code has no such check: it interprets whatever bytes follow.        *)
GoesAstray ==
  /\ tpc = "walking"
  /\ \/ Looking /\ Top.at \notin DOMAIN mem
     \/ Top.seen /\ ReadsNext(Top) /\ Top.at + Advance(Top.walk, Top.at) \notin DOMAIN mem
  /\ tpc' = "astray"
  /\ UNCHANGED <<mem, stack, printed>>

Walk == LookAt \/ UnknownEndsDump \/ Step \/ WalkEnds \/ GoesAstray

Tables(m) == {a \in DOMAIN m : m[a].owner = NULL}

Next ==
  \/ \E a \in Tables(mem), verb \in BOOLEAN : BeginDump(a, verb)
  \/ Walk

(* One thread runs the dump and nothing blocks it. *)
Spec == Init /\ [][Next]_vars /\ WF_vars(Walk)

-----------------------------------------------------------------------------
Frame == [walk : Walks, owner : Nat, at : Nat, left : Int, tableLen : Nat, seen : BOOLEAN]

(* Types: the stack holds frames, and only while a walk is under way.      *)
TypeOK ==
  /\ mem \in Memories
  /\ tpc \in {"idle", "walking", "done", "astray"}
  /\ stack \in Seq(Frame)
  /\ printed \in Seq(DOMAIN mem)
  /\ tpc = "walking" => stack # <<>>

(* The walk over the inside of a structure of type t. *)
WalkIn(t) ==
  CASE t \in Walks -> t
    [] t \in {"DRHD", "RMRR", "ATSR"} -> "DeviceScope"
    [] t = "SOCKET" -> "PmttSocket"
    [] t = "CONTROLLER" -> "PmttMemoryController"
    [] t \in {"MCE", "CMC"} -> "HestBanks"
    [] t = "FBPT" -> "FpdtBasicBootTable"
    [] t = "S3PT" -> "FpdtS3BootTable"
    [] t = "CHARS" -> "MpstCharacteristics"
    [] OTHER -> None

(* The walk that comes to the structure at a, which is not a table. *)
WalkOfOwner(a) == WalkIn(mem[mem[a].owner].type)

(* Structures the libraries charge with another one's length: those that   *)
(* MADT and SRAT do not know, and those of LPIT and of PMTT's top level,    *)
(* whose counter is charged with the structure behind.                     *)
Mischarged ==
  \E a \in DOMAIN mem :
    /\ mem[a].owner # NULL /\ WalkOfOwner(a) # None
    /\ LET w == WalkOf[WalkOfOwner(a)] IN
       w.pays = "next" \/ (w.pays = "sizeof" /\ mem[a].type \notin w.known)

(* Every walk under way stands on a structure of the region it walks: its  *)
(* length arithmetic never takes it into the middle of a structure, into   *)
(* the region of another one, or past the end of the table.                *)
OnStructure ==
  ~Mischarged =>
  /\ tpc # "astray"
  /\ \A i \in 1..Len(stack) :
       LET f == stack[i] IN
       (f.left > 0 \/ f.seen) => f.at \in DOMAIN mem /\ mem[f.at].owner = f.owner

IsLength(w) == WalkOf[w].moves = "length" /\ WalkOf[w].pays = "length"

(* A walk whose cursor and counter both follow the Length field never      *)
(* leaves the structures of its region, whatever happens in the walks      *)
(* around it: NFIT, DMAR and its device scopes, FPDT and its tables, and   *)
(* the inside of PMTT's sockets and controllers.                           *)
LengthWalksOnStructure ==
  \A i \in 1..Len(stack) :
    LET f == stack[i] IN
    IsLength(f.walk) /\ (f.left > 0 \/ f.seen) => f.at \in DOMAIN mem /\ mem[f.at].owner = f.owner

(* The structures around a structure, up to its table. *)
Around ==
  LET A[a \in DOMAIN mem] == IF mem[a].owner = NULL THEN {a} ELSE {a} \cup A[mem[a].owner]
  IN  A

(* What a reader may expect of the dump: every structure of the table but  *)
(* those whose type, or the type of one around them, the library does not  *)
(* know, and in HEST those after an unknown error source.                  *)
Expected(t) ==
  LET Listed[a \in DOMAIN mem] ==
        \/ a = t
        \/ /\ mem[a].owner # NULL
           /\ Listed[mem[a].owner]
           /\ \/ mem[mem[a].owner].type \in PointerTypes
              \/ LET w == WalkOfOwner(a) IN
                 /\ w # None
                 /\ Known(w, mem[a].type) \/ WalkOf[w].other = "print"
                 /\ WalkOf[w].other = "stop" =>
                      \A b \in DOMAIN mem :
                        b < a /\ mem[b].owner = mem[a].owner => Known(w, mem[b].type)
  IN  {a \in DOMAIN mem : Listed[a]}

Dumped == {printed[i] : i \in 1..Len(printed)}

(* A finished dump has interpreted exactly the structures a reader may     *)
(* expect: none is skipped because a length was charged twice, none of     *)
(* another table is shown.                                                 *)
DumpedAll == tpc = "done" /\ ~Mischarged /\ printed # <<>> => Dumped = Expected(printed[1])

(* A walk that runs over the end of its table has dumped everything first. *)
OverrunsLast == tpc = "astray" => Dumped = Expected(printed[1])

(* The output reads like the table: each structure once, siblings in       *)
(* address order, and nothing foreign between a structure and a part of it.*)
DumpOrder ==
  \A i, j \in 1..Len(printed) : i < j =>
    /\ printed[i] # printed[j]
    /\ mem[printed[i]].owner = mem[printed[j]].owner => printed[i] < printed[j]
    /\ mem[printed[j]].owner = printed[i] =>
         \A k \in i..j : printed[i] \in Around[printed[k]]

(* A dump that has begun ends, in or behind its table. *)
DumpTerminates == (tpc = "walking") ~> (tpc \in {"done", "astray"})

(* What a dump has printed is the table: all of it and nothing else, each  *)
(* structure in its place, also when the walk then leaves the table.       *)
OutputExact == DumpedAll /\ OverrunsLast /\ DumpOrder
=============================================================================
