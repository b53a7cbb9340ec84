------------------------- MODULE AcpiTableDumpProofs --------------------------
(***************************************************************************)
(* The walks over ACPI tables.  For every well-formed memory: the types of *)
(* the walk, that a walk which follows the Length fields stays on the      *)
(* structures of its region, and that every walk does where each structure *)
(* is charged its own length: what the counter still allows is what the    *)
(* structures ahead measure.  And the log area of the TCPA table, which is *)
(* shown entry by entry.                                                   *)
(***************************************************************************)
EXTENDS AcpiTableDump, TcpaLogArea, FiniteSetTheorems, SequenceTheorems, TLAPS

(* sizeof is a natural number, whatever the type.                          *)
LEMMA SizeNat == \A t : SizeOfType(t) \in Nat
<1>1. \A t \in Types : SizeOf[t] \in Nat
  BY DEF Types, SizeOf
<1> QED BY <1>1 DEF SizeOfType

PlainLength == {"NFIT", "DeviceScope", "PmttMemoryController", "FpdtBasicBootTable", "FpdtS3BootTable"}
PlainOther == {"MADT", "SRAT", "LPIT", "HestBanks", "ASFT", "CPEP", "MCFG", "WDAT", "EINJ", "ERST",
               "DBG2", "MSCT", "MpstCharacteristics"}
Special == {"DMAR", "PMTT", "PmttSocket", "FPDT", "HEST", "MPST"}

(* The seventeen libraries' walks, by what is special about them.         *)
LEMMA AllWalks == Walks = PlainLength \cup PlainOther \cup Special
BY DEF Walks, WalkOf, PlainLength, PlainOther, Special

(* The walks of AcpiTableFormats that have nothing nested, by field.       *)
LEMMA PlainFields ==
  /\ \A w \in PlainLength \cup PlainOther : WalkOf[w].inner = NoInner /\ WalkOf[w].then = None
  /\ \A w \in PlainOther : ~IsLength(w)
<1>1. \A w \in PlainLength : WalkOf[w].inner = NoInner /\ WalkOf[w].then = None
  BY DEF WalkOf, PlainLength, NFIT, DeviceScope, PmttMemoryController, FpdtBasicBootTable,
         FpdtS3BootTable, AWalk, ByLength
<1>2. \A w \in PlainOther : WalkOf[w].inner = NoInner /\ WalkOf[w].then = None
  BY DEF WalkOf, PlainOther, MADT, SRAT, LPIT, HestBanks, ASFT, CPEP, MCFG, WDAT, EINJ, ERST,
         DBG2, MSCT, MpstCharacteristics, AWalk, ByCount
<1>3. \A w \in PlainOther : WalkOf[w].moves # "length" \/ WalkOf[w].pays # "length"
  BY DEF WalkOf, PlainOther, MADT, SRAT, LPIT, HestBanks, ASFT, CPEP, MCFG, WDAT, EINJ, ERST,
         DBG2, MSCT, MpstCharacteristics, AWalk, ByCount
<1> QED BY <1>1, <1>2, <1>3 DEF IsLength

(* The walks that have something nested or a second loop.                  *)
LEMMA SpecialFields ==
  /\ WalkOf["DMAR"] = DMAR /\ WalkOf["PMTT"] = PMTT /\ WalkOf["PmttSocket"] = PmttSocket
  /\ WalkOf["FPDT"] = FPDT /\ WalkOf["HEST"] = HEST /\ WalkOf["MPST"] = MPST
BY DEF WalkOf

(* Every loop counter is charged in one of five ways.                      *)
LEMMA PaysTyped == \A w \in Walks : WalkOf[w].pays \in {"length", "sizeof", "next", "count", "last"}
BY DEF Walks, WalkOf, MADT, SRAT, DMAR, DeviceScope, NFIT, PMTT, PmttSocket, PmttMemoryController,
       LPIT, FPDT, FpdtBasicBootTable, FpdtS3BootTable, HEST, HestBanks, ASFT, CPEP, MCFG, WDAT,
       EINJ, ERST, DBG2, MSCT, MPST, MpstCharacteristics, AWalk, ByLength, ByCount

(* The walks of AcpiTableFormats lead to walks of AcpiTableFormats, and    *)
(* those that follow the Length fields walk containers.                    *)
LEMMA WalksClosed ==
  ASSUME NEW w \in Walks
  PROVE  /\ \A t \in DOMAIN WalkOf[w].inner :
              /\ WalkOf[w].inner[t] \in Walks
              /\ IsLength(WalkOf[w].inner[t]) => t \in Containers \cup PointerTypes
         /\ WalkOf[w].then \in Walks \cup {None}
         /\ WalkOf[w].then # None => ~IsLength(WalkOf[w].then)
         /\ IsLength(w) /\ w \in Signatures => w \in Containers
<1>1. CASE w \in PlainLength \cup PlainOther
  <2>1. WalkOf[w].inner = NoInner /\ WalkOf[w].then = None
    BY <1>1, PlainFields
  <2>2. DOMAIN NoInner = {}
    BY DEF NoInner
  <2>3. IsLength(w) => w \in PlainLength
    BY <1>1, PlainFields
  <2> QED BY <2>1, <2>2, <2>3 DEF PlainLength, Containers, Signatures
<1>2. CASE w = "DMAR"
  BY <1>2, SpecialFields, AllWalks, PlainFields
     DEF DMAR, AWalk, None, Containers, PlainLength
<1>3. CASE w = "PMTT"
  BY <1>3, SpecialFields, AllWalks DEF PMTT, AWalk, None, Containers, Special, PlainLength, IsLength
<1>4. CASE w = "PmttSocket"
  BY <1>4, SpecialFields, AllWalks DEF PmttSocket, AWalk, None, Containers, Special, PlainLength, Signatures
<1>5. CASE w = "FPDT"
  BY <1>5, SpecialFields, AllWalks DEF FPDT, AWalk, None, Containers, PointerTypes, PlainLength
<1>6. CASE w = "HEST"
  BY <1>6, SpecialFields, AllWalks, PlainFields DEF HEST, AWalk, None, PlainOther, IsLength
<1>7. CASE w = "MPST"
  <2>1. ~IsLength("MPST") /\ WalkOf[w].inner = NoInner /\ WalkOf[w].then = "MpstCharacteristics"
    BY <1>7, SpecialFields DEF MPST, AWalk, IsLength
  <2>2. DOMAIN NoInner = {}
    BY DEF NoInner
  <2>3. "MpstCharacteristics" \in PlainOther
    BY DEF PlainOther
  <2> QED BY <1>7, <2>1, <2>2, <2>3, AllWalks, PlainFields
<1> QED BY <1>1, <1>2, <1>3, <1>4, <1>5, <1>6, <1>7, AllWalks DEF Special

-----------------------------------------------------------------------------
(* What holds of every walk under way: its region is a structure, it has   *)
(* looked at a structure before it steps over it, and a walk that follows  *)
(* the Length fields has as much left as there is between its cursor and   *)
(* the end of its region.                                                  *)
OKFrames ==
  {f \in Frame :
     /\ f.owner \in DOMAIN mem
     /\ f.seen => f.at \in DOMAIN mem
     /\ IsLength(f.walk) =>
          /\ mem[f.owner].type \in Containers
          /\ f.at + f.left = f.owner + mem[f.owner].len
          /\ f.left > 0 \/ f.seen => f.at \in DOMAIN mem /\ mem[f.at].owner = f.owner}

Inv == TypeOK /\ stack \in Seq(OKFrames)

(* What MemoriesAssumption says of the memory at hand. *)
LEMMA MemoryFacts ==
  ASSUME mem \in Memories
  PROVE  /\ NULL \notin DOMAIN mem
         /\ DOMAIN mem \subseteq Nat /\ IsFiniteSet(DOMAIN mem)
         /\ \A a \in DOMAIN mem : mem[a] \in Structure
         /\ WellFormed(mem)
BY MemoriesAssumption

(* A structure's fields, and its header, are natural numbers.              *)
LEMMA FieldsNat ==
  ASSUME mem \in Memories, NEW a \in DOMAIN mem
  PROVE  /\ a \in Nat /\ mem[a].len \in Nat /\ mem[a].count \in Nat /\ mem[a].ptr \in Nat
         /\ Header(mem[a]) \in Nat
<1>1. /\ a \in Nat /\ mem[a].len \in Nat /\ mem[a].count \in Nat /\ mem[a].ptr \in Nat
      /\ mem[a].offset \in Nat
  BY MemoryFacts DEF Structure
<1>2. SizeOf["CONTROLLER"] \in Nat
  BY DEF SizeOf
<1> QED BY <1>1, <1>2, SizeNat DEF Header

(* A walk starts in order.                                                 *)
LEMMA EnterOK ==
  ASSUME mem \in Memories, NEW w \in Walks, NEW a \in DOMAIN mem,
         IsLength(w) => mem[a].type \in Containers
  PROVE  Enter(w, a) \in OKFrames
<1>1. Budget(w, a) \in Int /\ (IsLength(w) => Budget(w, a) = mem[a].len - Header(mem[a]))
  BY FieldsNat DEF Budget, IsLength
<1>2. Enter(w, a) \in Frame
  BY <1>1, FieldsNat DEF Enter, Frame
<1>3. ASSUME IsLength(w)
      PROVE  /\ Enter(w, a).at + Enter(w, a).left = a + mem[a].len
             /\ Enter(w, a).left > 0 => Enter(w, a).at \in DOMAIN mem /\ mem[Enter(w, a).at].owner = a
  <2>1. EndOrPart(mem, a, a + Header(mem[a]))
    BY <1>3, MemoryFacts DEF WellFormed, Tiled
  <2> QED BY <1>1, <1>3, <2>1, FieldsNat DEF Enter, EndOrPart, EndOf, Parts
<1> QED BY <1>2, <1>3 DEF Enter, OKFrames

(* Sequences of at most one element.                                       *)
LEMMA ShortSeq == \A S : <<>> \in Seq(S) /\ \A x \in S : <<x>> \in Seq(S)
OBVIOUS

(* The innermost walk and the ones around it.                              *)
LEMMA TopBelow ==
  ASSUME stack \in Seq(OKFrames), stack # <<>>
  PROVE  Top \in OKFrames /\ Below \in Seq(OKFrames)
<1>1. Len(stack) \in Nat /\ Len(stack) > 0 /\ \A i \in 1..Len(stack) : stack[i] \in OKFrames
  OBVIOUS
<1>2. Top \in OKFrames
  BY <1>1 DEF Top
<1>3. \A i \in 1..(Len(stack) - 1) : stack[i] \in OKFrames
  BY <1>1
<1>4. Below \in Seq(OKFrames)
  BY <1>1, <1>3, SubSeqProperties DEF Below
<1> QED BY <1>2, <1>4

(* Frames in order are frames.                                             *)
LEMMA OKFramesTyped == Seq(OKFrames) \subseteq Seq(Frame)
BY DEF OKFrames

(* What is dumped of a structure with something inside, and the walk that  *)
(* is entered for it.                                                      *)
LEMMA InnerOK ==
  ASSUME mem \in Memories, NEW w \in Walks, NEW a \in DOMAIN mem, HasInner(w, a)
  PROVE  /\ InnerBase(a) \in DOMAIN mem
         /\ Enter(WalkOf[w].inner[mem[a].type], InnerBase(a)) \in OKFrames
<1> DEFINE t == mem[a].type
           v == WalkOf[w].inner[t]
<1>1. v \in Walks /\ (IsLength(v) => t \in Containers \cup PointerTypes)
  BY WalksClosed DEF HasInner
<1>2. CASE t \in PointerTypes
  <2>1. mem[a].ptr \in DOMAIN mem /\ mem[mem[a].ptr].type \in {"FBPT", "S3PT"}
    BY <1>2, MemoryFacts DEF WellFormed, HasInner, InnerBase
  <2> QED BY <1>1, <1>2, <2>1, EnterOK DEF InnerBase, Containers
<1>3. CASE t \notin PointerTypes
  BY <1>1, <1>3, EnterOK DEF InnerBase
<1> QED BY <1>2, <1>3

-----------------------------------------------------------------------------
(* No dump has begun: there is nothing on the stack.                       *)
LEMMA InitInv == Init => Inv
<1> SUFFICES ASSUME Init PROVE Inv
  OBVIOUS
<1>1. \A S : <<>> \in Seq(S)
  OBVIOUS
<1> QED BY <1>1 DEF Init, Inv, TypeOK

(* A dump begins: the walk of the table is entered.                        *)
LEMMA BeginDumpInv ==
  ASSUME Inv, NEW a \in Tables(mem), NEW verb \in BOOLEAN, BeginDump(a, verb)
  PROVE  Inv'
<1>1. a \in DOMAIN mem /\ mem \in Memories /\ mem' = mem
  BY DEF Tables, Inv, TypeOK, BeginDump
<1>2. OKFrames' = OKFrames
  BY <1>1 DEF OKFrames
<1>3. stack' \in Seq(OKFrames) /\ (tpc' = "walking" => stack' # <<>>) /\ tpc' \in {"walking", "done"}
  <2>1. CASE verb /\ mem[a].type \in Signatures
    <3>1. mem[a].type \in Walks
      BY <2>1 DEF Signatures, Walks, WalkOf
    <3>2. Enter(mem[a].type, a) \in OKFrames
      BY <1>1, <2>1, <3>1, WalksClosed, EnterOK
    <3> QED BY <2>1, <3>2 DEF BeginDump
  <2>2. CASE ~(verb /\ mem[a].type \in Signatures)
    BY <2>2 DEF BeginDump
  <2> QED BY <2>1, <2>2
<1>4. printed' \in Seq(DOMAIN mem)
  <2>1. <<a>> \in Seq(DOMAIN mem) /\ <<>> \in Seq(DOMAIN mem)
    BY <1>1, ShortSeq
  <2> QED BY <2>1 DEF BeginDump
<1> QED BY <1>1, <1>2, <1>3, <1>4, OKFramesTyped DEF Inv, TypeOK

(* A structure is dumped; the walk over it waits until what is inside it   *)
(* has been dumped.                                                        *)
LEMMA LookAtInv == Inv /\ LookAt => Inv'
<1> SUFFICES ASSUME Inv, LookAt PROVE Inv'
  OBVIOUS
<1> DEFINE a == Top.at
           w == Top.walk
           seen == [Top EXCEPT !.seen = TRUE]
<1>1. /\ mem' = mem /\ tpc' = tpc /\ mem \in Memories /\ stack # <<>> /\ a \in DOMAIN mem
      /\ Top.left > 0
  BY DEF Inv, TypeOK, LookAt, Looking
<1>2. OKFrames' = OKFrames
  BY <1>1 DEF OKFrames
<1>3. Top \in OKFrames /\ Below \in Seq(OKFrames)
  BY <1>1, TopBelow DEF Inv
<1>4. w \in Walks
  BY <1>3 DEF OKFrames, Frame
<1>5. seen \in OKFrames
  <2>1. seen \in Frame /\ seen.owner = Top.owner /\ seen.at = a /\ seen.walk = w /\ seen.left = Top.left
    BY <1>3 DEF OKFrames, Frame
  <2> QED BY <1>1, <1>3, <2>1 DEF OKFrames
<1>6. Append(Below, seen) \in Seq(OKFrames) /\ Append(Below, seen) # <<>>
  BY <1>3, <1>5, AppendProperties
<1>7. stack' \in Seq(OKFrames) /\ stack' # <<>>
  <2>1. CASE HasInner(w, a)
    <3>1. Enter(WalkOf[w].inner[mem[a].type], InnerBase(a)) \in OKFrames
      BY <1>1, <1>4, <2>1, InnerOK
    <3>2. stack' = Append(Append(Below, seen), Enter(WalkOf[w].inner[mem[a].type], InnerBase(a)))
      BY <2>1 DEF LookAt
    <3> QED BY <1>6, <3>1, <3>2, AppendProperties
  <2>2. CASE ~HasInner(w, a)
    BY <1>6, <2>2 DEF LookAt
  <2> QED BY <2>1, <2>2
<1>8. printed' \in Seq(DOMAIN mem)
  <2> DEFINE own == IF Known(w, mem[a].type) \/ WalkOf[w].other = "print" THEN <<a>> ELSE <<>>
             base == IF HasInner(w, a) /\ InnerBase(a) # a THEN <<InnerBase(a)>> ELSE <<>>
  <2>1. own \in Seq(DOMAIN mem)
    <3>1. <<a>> \in Seq(DOMAIN mem) /\ <<>> \in Seq(DOMAIN mem)
      BY <1>1, ShortSeq
    <3> QED BY <3>1
  <2>2. HasInner(w, a) => InnerBase(a) \in DOMAIN mem
    BY <1>1, <1>4, InnerOK
  <2>3. base \in Seq(DOMAIN mem)
    <3>1. CASE HasInner(w, a)
      <4>1. <<InnerBase(a)>> \in Seq(DOMAIN mem) /\ <<>> \in Seq(DOMAIN mem)
        BY <2>2, <3>1, ShortSeq
      <4> QED BY <4>1
    <3>2. CASE ~HasInner(w, a)
      BY <3>2, ShortSeq
    <3> QED BY <3>1, <3>2
  <2>4. printed' = printed \o own \o base
    BY DEF LookAt
  <2>5. printed \in Seq(DOMAIN mem)
    BY DEF Inv, TypeOK
  <2> HIDE DEF own, base
  <2> QED BY <2>1, <2>3, <2>4, <2>5, ConcatProperties
<1> QED BY <1>1, <1>2, <1>7, <1>8, OKFramesTyped DEF Inv, TypeOK

(* The cursor and the counter move together.                               *)
LEMMA StepInv == Inv /\ Step => Inv'
<1> SUFFICES ASSUME Inv, Step PROVE Inv'
  OBVIOUS
<1> DEFINE f == Top
           g == [f EXCEPT !.at = f.at + Advance(f.walk, f.at),
                          !.left = f.left - Charge(f),
                          !.tableLen = TableLen(f),
                          !.seen = FALSE]
<1>1. mem' = mem /\ tpc' = tpc /\ printed' = printed /\ mem \in Memories /\ stack # <<>> /\ f.seen
  BY DEF Inv, TypeOK, Step
<1>2. OKFrames' = OKFrames
  BY <1>1 DEF OKFrames
<1>3. f \in OKFrames /\ Below \in Seq(OKFrames)
  BY <1>1, TopBelow DEF Inv
<1>4. /\ f \in Frame /\ f.walk \in Walks /\ f.at \in DOMAIN mem /\ f.left \in Int
      /\ f.tableLen \in Nat /\ f.owner \in DOMAIN mem
  BY <1>1, <1>3 DEF OKFrames, Frame
<1>5. Advance(f.walk, f.at) \in Nat
  <2>1. SizeOf["BANK"] = 28
    BY DEF SizeOf
  <2>2. mem[f.at].len \in Nat /\ mem[f.at].count \in Nat /\ SizeOfType(mem[f.at].type) \in Nat
    BY <1>1, <1>4, SizeNat, FieldsNat
  <2>3. mem[f.at].count * SizeOf["BANK"] \in Nat
    BY <2>1, <2>2
  <2> QED BY <2>2, <2>3 DEF Advance, ErrorBanks
<1>6. TableLen(f) \in Nat
  BY <1>1, <1>4, SizeNat, FieldsNat DEF TableLen
<1>7. f.left - Charge(f) \in Int
  <2>1. CASE ReadsNext(f)
    <3>1. mem[f.at + Advance(f.walk, f.at)].len \in Nat
      BY <1>1, <2>1, FieldsNat DEF Step
    <3>2. Charge(f) = mem[f.at + Advance(f.walk, f.at)].len
      BY <2>1 DEF Charge, ReadsNext
    <3> HIDE DEF f
    <3> QED BY <1>4, <3>1, <3>2
  <2>2. CASE ~ReadsNext(f)
    <3>1. WalkOf[f.walk].pays \in {"length", "sizeof", "count", "last"}
      BY <1>4, <2>2, PaysTyped DEF ReadsNext
    <3>2. Charge(f) \in Nat
      BY <1>1, <1>4, <1>6, <3>1, FieldsNat DEF Charge
    <3> QED BY <1>4, <3>2
  <2> QED BY <2>1, <2>2
<1>8. /\ g.walk = f.walk /\ g.owner = f.owner /\ g.at = f.at + Advance(f.walk, f.at)
      /\ g.left = f.left - Charge(f) /\ g.tableLen = TableLen(f) /\ g.seen = FALSE /\ g \in Frame
  <2>1. f.at + Advance(f.walk, f.at) \in Nat
    BY <1>1, <1>4, <1>5, FieldsNat
  <2> QED BY <1>4, <1>6, <1>7, <2>1 DEF Frame
<1>9. ASSUME IsLength(f.walk)
      PROVE  /\ mem[g.owner].type \in Containers
             /\ g.at + g.left = g.owner + mem[g.owner].len
             /\ g.left > 0 => g.at \in DOMAIN mem /\ mem[g.at].owner = g.owner
  <2>1. Advance(f.walk, f.at) = mem[f.at].len /\ Charge(f) = mem[f.at].len
    BY <1>9 DEF IsLength, Advance, Charge
  <2>2. /\ mem[f.owner].type \in Containers
        /\ f.at + f.left = f.owner + mem[f.owner].len
        /\ mem[f.at].owner = f.owner
    BY <1>1, <1>3, <1>9 DEF OKFrames
  <2>3. EndOrPart(mem, f.owner, f.at + mem[f.at].len)
    BY <1>1, <1>4, <2>2, MemoryFacts DEF WellFormed, Tiled, Parts
  <2>4. f.at \in Nat /\ mem[f.at].len \in Nat /\ f.owner \in Nat /\ mem[f.owner].len \in Nat
    BY <1>1, <1>4, FieldsNat
  <2> HIDE DEF g, f
  <2> QED BY <1>4, <1>8, <2>1, <2>2, <2>3, <2>4 DEF EndOrPart, EndOf, Parts
<1>10. g \in OKFrames
  <2> HIDE DEF g, f
  <2> QED BY <1>4, <1>8, <1>9 DEF OKFrames
<1>11. stack' \in Seq(OKFrames) /\ stack' # <<>>
  BY <1>3, <1>10, AppendProperties DEF Step
<1> QED BY <1>1, <1>2, <1>11, OKFramesTyped DEF Inv, TypeOK

(* A loop ends.                                                            *)
LEMMA WalkEndsInv == Inv /\ WalkEnds => Inv'
<1> SUFFICES ASSUME Inv, WalkEnds PROVE Inv'
  OBVIOUS
<1> DEFINE next == WalkOf[Top.walk].then
<1>1. mem' = mem /\ tpc = "walking" /\ mem \in Memories /\ stack # <<>> /\ printed \in Seq(DOMAIN mem)
  BY DEF Inv, TypeOK, WalkEnds
<1>2. OKFrames' = OKFrames
  BY <1>1 DEF OKFrames
<1>3. Top \in OKFrames /\ Below \in Seq(OKFrames)
  BY <1>1, TopBelow DEF Inv
<1>4. Top.walk \in Walks
  BY <1>3 DEF OKFrames, Frame
<1>5. CASE next # None /\ Top.at \in DOMAIN mem
  <2>1. next \in Walks /\ ~IsLength(next)
    BY <1>4, <1>5, WalksClosed
  <2>2. Enter(next, Top.at) \in OKFrames
    BY <1>1, <1>5, <2>1, EnterOK
  <2>3. stack' \in Seq(OKFrames) /\ stack' # <<>>
    BY <1>3, <1>5, <2>2, AppendProperties DEF WalkEnds
  <2>4. printed' \in Seq(DOMAIN mem) /\ tpc' = tpc
    BY <1>1, <1>5, AppendProperties DEF WalkEnds
  <2> QED BY <1>1, <1>2, <2>3, <2>4, OKFramesTyped DEF Inv, TypeOK
<1>6. CASE ~(next # None /\ Top.at \in DOMAIN mem)
  <2>1. stack' = Below /\ printed' = printed
    BY <1>6 DEF WalkEnds
  <2>2. tpc' \in {"walking", "done", "astray"} /\ (tpc' = "walking" => Below # <<>>)
    BY <1>1, <1>6 DEF WalkEnds
  <2> QED BY <1>1, <1>2, <1>3, <2>1, <2>2, OKFramesTyped DEF Inv, TypeOK
<1> QED BY <1>5, <1>6

(* The inductive step.                                                     *)
LEMMA NextInv == Inv /\ [Next]_vars => Inv'
<1> SUFFICES ASSUME Inv, [Next]_vars PROVE Inv'
  OBVIOUS
<1>1. ASSUME NEW a \in Tables(mem), NEW verb \in BOOLEAN, BeginDump(a, verb)
      PROVE  Inv'
  BY <1>1, BeginDumpInv
<1>2. CASE LookAt
  BY <1>2, LookAtInv
<1>3. CASE UnknownEndsDump
  <2>1. mem' = mem /\ printed' = printed /\ stack' = <<>> /\ tpc' = "done"
    BY <1>3 DEF UnknownEndsDump
  <2>2. <<>> \in Seq(OKFrames') /\ <<>> \in Seq(Frame)
    BY ShortSeq
  <2> QED BY <2>1, <2>2 DEF Inv, TypeOK
<1>4. CASE Step
  BY <1>4, StepInv
<1>5. CASE WalkEnds
  BY <1>5, WalkEndsInv
<1>6. CASE GoesAstray
  <2>1. mem' = mem /\ printed' = printed /\ stack' = stack /\ tpc' = "astray"
    BY <1>6 DEF GoesAstray
  <2> QED BY <2>1 DEF Inv, TypeOK, OKFrames
<1>7. CASE UNCHANGED vars
  BY <1>7 DEF vars, Inv, TypeOK, OKFrames
<1> QED BY <1>1, <1>2, <1>3, <1>4, <1>5, <1>6, <1>7 DEF Next, Walk

-----------------------------------------------------------------------------
(* The types hold for every well-formed memory.                            *)
THEOREM TypeCorrect == Spec => []TypeOK
<1>1. Inv => TypeOK
  BY DEF Inv
<1> QED BY <1>1, InitInv, NextInv, PTL DEF Spec

(* The walks of NFIT, DMAR, FPDT and inside PMTT never leave the           *)
(* structures of their region, in any well-formed memory, however deep the *)
(* nesting and whatever the walks around them do.                          *)
THEOREM LengthWalks == Spec => []LengthWalksOnStructure
<1>1. Inv => LengthWalksOnStructure
  <2> SUFFICES ASSUME Inv, NEW i \in 1..Len(stack), IsLength(stack[i].walk),
                      stack[i].left > 0 \/ stack[i].seen
               PROVE  stack[i].at \in DOMAIN mem /\ mem[stack[i].at].owner = stack[i].owner
    BY DEF LengthWalksOnStructure
  <2>1. stack[i] \in OKFrames
    BY DEF Inv
  <2> QED BY <2>1 DEF OKFrames
<1> QED BY <1>1, InitInv, NextInv, PTL DEF Spec

-----------------------------------------------------------------------------
(* The containers by how the libraries walk their inside.                  *)
ByLengthIn == {"DMAR", "DRHD", "RMRR", "ATSR", "NFIT", "SOCKET", "CONTROLLER", "FPDT", "FBPT", "S3PT"}
BySizeIn == {"MADT", "SRAT"}
FilledIn == {"CPEP", "MCFG"}
NextIn == {"PMTT", "LPIT"}
SizeCountIn == {"HEST", "MCE", "CMC", "WDAT", "EINJ", "ERST", "CHARS"}
LengthCountIn == {"DBG2", "MSCT", "MPST"}

(* These are all containers.                                               *)
LEMMA AllContainers ==
  Containers = ByLengthIn \cup BySizeIn \cup FilledIn \cup NextIn \cup SizeCountIn \cup LengthCountIn
                 \cup {"ASFT"}
BY DEF Containers, ByLengthIn, BySizeIn, FilledIn, NextIn, SizeCountIn, LengthCountIn

Moves(w, moves, pays) == WalkOf[w].moves = moves /\ WalkOf[w].pays = pays

(* The walk over the inside of a structure that has one of its own.        *)
LEMMA WalkInNamed ==
  /\ \A t \in Walks : WalkIn(t) = t
  /\ \A t \in {"DRHD", "RMRR", "ATSR"} : WalkIn(t) = "DeviceScope"
  /\ WalkIn("SOCKET") = "PmttSocket" /\ WalkIn("CONTROLLER") = "PmttMemoryController"
  /\ \A t \in {"MCE", "CMC"} : WalkIn(t) = "HestBanks"
  /\ WalkIn("FBPT") = "FpdtBasicBootTable" /\ WalkIn("S3PT") = "FpdtS3BootTable"
  /\ WalkIn("CHARS") = "MpstCharacteristics"
<1>1. /\ \A t \in {"DRHD", "RMRR", "ATSR", "SOCKET", "CONTROLLER", "MCE", "CMC", "FBPT", "S3PT", "CHARS"} :
           t \notin Walks
  BY AllWalks DEF PlainLength, PlainOther, Special
<1> QED BY <1>1 DEF WalkIn

(* How each of these walks moves its cursor and charges its counter.       *)
LEMMA HowWalked ==
  /\ \A t \in ByLengthIn : Moves(WalkIn(t), "length", "length")
  /\ \A t \in BySizeIn : Moves(WalkIn(t), "length", "sizeof")
  /\ \A t \in FilledIn : Moves(WalkIn(t), "sizeof", "sizeof")
  /\ \A t \in NextIn : Moves(WalkIn(t), "length", "next")
  /\ \A t \in SizeCountIn : Moves(WalkIn(t), "sizeof", "count")
  /\ \A t \in LengthCountIn : Moves(WalkIn(t), "length", "count")
  /\ Moves(WalkIn("ASFT"), "length", "last")
<1>1. \A t \in {"DMAR", "NFIT", "FPDT", "MADT", "SRAT", "CPEP", "MCFG", "PMTT", "LPIT", "HEST", "WDAT",
               "EINJ", "ERST", "DBG2", "MSCT", "MPST", "ASFT"} : WalkIn(t) = t
  BY WalkInNamed, AllWalks DEF PlainLength, PlainOther, Special
<1>2. \A w \in {"DMAR", "NFIT", "FPDT", "DeviceScope", "PmttSocket", "PmttMemoryController",
               "FpdtBasicBootTable", "FpdtS3BootTable"} : Moves(w, "length", "length")
  BY DEF Moves, WalkOf, DMAR, NFIT, FPDT, DeviceScope, PmttSocket, PmttMemoryController,
         FpdtBasicBootTable, FpdtS3BootTable, AWalk, ByLength
<1>3. /\ \A w \in {"MADT", "SRAT"} : Moves(w, "length", "sizeof")
      /\ \A w \in {"CPEP", "MCFG"} : Moves(w, "sizeof", "sizeof")
      /\ \A w \in {"PMTT", "LPIT"} : Moves(w, "length", "next")
      /\ Moves("ASFT", "length", "last")
  BY DEF Moves, WalkOf, MADT, SRAT, CPEP, MCFG, PMTT, LPIT, ASFT, AWalk
<1>4. /\ \A w \in {"HEST", "HestBanks", "WDAT", "EINJ", "ERST", "MpstCharacteristics"} :
           Moves(w, "sizeof", "count")
      /\ \A w \in {"DBG2", "MSCT", "MPST"} : Moves(w, "length", "count")
  BY DEF Moves, WalkOf, HEST, HestBanks, WDAT, EINJ, ERST, MpstCharacteristics, DBG2, MSCT, MPST,
         AWalk, ByCount
<1>5. \A t \in ByLengthIn : Moves(WalkIn(t), "length", "length")
  BY <1>1, <1>2, WalkInNamed DEF ByLengthIn
<1>6. \A t \in SizeCountIn : Moves(WalkIn(t), "sizeof", "count")
  BY <1>1, <1>4, WalkInNamed DEF SizeCountIn
<1>7. /\ \A t \in BySizeIn : Moves(WalkIn(t), "length", "sizeof")
      /\ \A t \in FilledIn : Moves(WalkIn(t), "sizeof", "sizeof")
      /\ \A t \in NextIn : Moves(WalkIn(t), "length", "next")
      /\ \A t \in LengthCountIn : Moves(WalkIn(t), "length", "count")
      /\ Moves(WalkIn("ASFT"), "length", "last")
  BY <1>1, <1>3, <1>4 DEF BySizeIn, FilledIn, NextIn, LengthCountIn
<1> QED BY <1>5, <1>6, <1>7

(* The walk inside a container is one of AcpiTableFormats.                 *)
LEMMA WalkInWalks == \A t \in Containers : WalkIn(t) \in Walks
<1>1. {"DeviceScope", "PmttSocket", "PmttMemoryController", "HestBanks", "FpdtBasicBootTable",
       "FpdtS3BootTable", "MpstCharacteristics"} \subseteq Walks
  BY AllWalks DEF PlainLength, PlainOther, Special
<1>2. \A t \in {"DMAR", "NFIT", "FPDT", "MADT", "SRAT", "CPEP", "MCFG", "PMTT", "LPIT", "HEST", "WDAT",
               "EINJ", "ERST", "DBG2", "MSCT", "MPST", "ASFT"} : WalkIn(t) \in Walks
  BY WalkInNamed, AllWalks DEF PlainLength, PlainOther, Special
<1> QED BY <1>1, <1>2, WalkInNamed DEF Containers

-----------------------------------------------------------------------------
(* The parts of a container from an address on.                            *)
PartsFrom(o, at) == {b \in Parts(mem, o) : at <= b}

(* What MemoriesAssumption says of a container and of a part of it.        *)
LEMMA RegionFacts ==
  ASSUME mem \in Memories, NEW o \in DOMAIN mem, mem[o].type \in Containers
  PROVE  /\ Tiled(mem, o) /\ ContentRight(mem, o)
         /\ o \in Nat /\ EndOf(mem, o) \in Nat /\ Header(mem[o]) \in Nat
         /\ \A a \in Parts(mem, o) :
              /\ a \in DOMAIN mem /\ a \in Nat /\ mem[a].len \in Nat /\ mem[a].len > 0
              /\ mem[a].owner = o
              /\ a + mem[a].len <= EndOf(mem, o) /\ EndOrPart(mem, o, a + mem[a].len)
<1>1. Tiled(mem, o) /\ ContentRight(mem, o)
  BY MemoryFacts DEF WellFormed
<1>2. o \in Nat /\ mem[o].len \in Nat /\ Header(mem[o]) \in Nat
  BY FieldsNat
<1>3. \A a \in Parts(mem, o) : a \in DOMAIN mem /\ a \in Nat /\ mem[a].len \in Nat /\ mem[a].owner = o
  BY FieldsNat DEF Parts
<1> QED BY <1>1, <1>2, <1>3 DEF Tiled, EndOf

(* No part begins at the end of its container, so the parts from a cursor  *)
(* on are none exactly when the cursor is at the end.                      *)
LEMMA NoneBehind ==
  ASSUME mem \in Memories, NEW o \in DOMAIN mem, mem[o].type \in Containers
  PROVE  PartsFrom(o, EndOf(mem, o)) = {} /\ EndOf(mem, o) \notin Parts(mem, o)
BY RegionFacts DEF PartsFrom

(* The parts are finitely many.                                            *)
LEMMA PartsFinite ==
  ASSUME mem \in Memories
  PROVE  \A o, at : IsFiniteSet(Parts(mem, o)) /\ IsFiniteSet(PartsFrom(o, at))
<1>1. IsFiniteSet(DOMAIN mem)
  BY MemoryFacts
<1>2. \A o, at : Parts(mem, o) \subseteq DOMAIN mem /\ PartsFrom(o, at) \subseteq DOMAIN mem
  BY DEF Parts, PartsFrom
<1> QED BY <1>1, <1>2, FS_Subset

(* Stepping over a part leaves one part less.                              *)
LEMMA OneLess ==
  ASSUME mem \in Memories, NEW o \in DOMAIN mem, mem[o].type \in Containers, NEW a \in Parts(mem, o)
  PROVE  Cardinality(PartsFrom(o, a)) = Cardinality(PartsFrom(o, a + mem[a].len)) + 1
<1> DEFINE next == a + mem[a].len
<1>1. a \in Nat /\ mem[a].len \in Nat /\ mem[a].len > 0 /\ Parts(mem, o) \subseteq Nat
  BY RegionFacts
<1>2. \A b \in Parts(mem, o) : a < b => next <= b
  BY RegionFacts DEF Tiled
<1>3. PartsFrom(o, a) = PartsFrom(o, next) \cup {a} /\ a \notin PartsFrom(o, next)
  BY <1>1, <1>2 DEF PartsFrom
<1>4. IsFiniteSet(PartsFrom(o, next))
  BY PartsFinite
<1>5. Cardinality(PartsFrom(o, next) \cup {a}) = Cardinality(PartsFrom(o, next)) + 1
  BY <1>3, <1>4, FS_AddElement
<1> QED BY <1>3, <1>5

(* An empty set of parts counts nothing, one with a part something.        *)
LEMMA CountPositive ==
  ASSUME mem \in Memories, NEW o \in DOMAIN mem, mem[o].type \in Containers, NEW at,
         EndOrPart(mem, o, at)
  PROVE  /\ Cardinality(PartsFrom(o, at)) \in Nat
         /\ Cardinality(PartsFrom(o, at)) = 0 <=> at = EndOf(mem, o)
<1>1. IsFiniteSet(PartsFrom(o, at)) /\ Cardinality(PartsFrom(o, at)) \in Nat
  BY PartsFinite, FS_CardinalityType
<1>2. CASE at = EndOf(mem, o)
  <2>1. PartsFrom(o, at) = {}
    BY <1>2, NoneBehind
  <2> QED BY <1>2, <2>1, FS_EmptySet
<1>3. CASE at # EndOf(mem, o)
  <2>1. at \in Parts(mem, o) /\ at \in Nat
    BY <1>3, RegionFacts DEF EndOrPart
  <2>2. at \in PartsFrom(o, at)
    BY <2>1 DEF PartsFrom
  <2> QED BY <1>1, <1>3, <2>2, FS_EmptySet
<1> QED BY <1>1, <1>2, <1>3

-----------------------------------------------------------------------------
(* What the loop counter of a walk still has to pay for: the bytes, or the *)
(* parts, from the cursor to the end of the region.  MPST's counts all     *)
(* parts but the characteristics; ASF!'s ends with the last record.        *)
Paid(f) ==
  LET pays == WalkOf[f.walk].pays IN
  /\ pays \in {"length", "sizeof", "next"} => f.at + f.left = EndOf(mem, f.owner)
  /\ pays = "count" =>
       /\ f.left >= 0
       /\ Cardinality(PartsFrom(f.owner, f.at)) = IF f.walk = "MPST" THEN f.left + 1 ELSE f.left
  /\ pays = "last" => f.left = IF f.at = EndOf(mem, f.owner) THEN 0 ELSE 1

(* A walk is over the inside of a container, its cursor is on a part or at *)
(* the end, and it steps only over parts it can step over.                 *)
Placed(f) ==
  /\ mem[f.owner].type \in Containers /\ f.walk = WalkIn(mem[f.owner].type)
  /\ EndOrPart(mem, f.owner, f.at)
  /\ f.seen => /\ f.left > 0 /\ f.at \in Parts(mem, f.owner)
               /\ Known(f.walk, mem[f.at].type) \/ WalkOf[f.walk].other # "stop"
  /\ Paid(f)

PlacedFrames == {f \in OKFrames : Placed(f)}

(* Where every structure is charged its own length, all walks under way    *)
(* are in place and none has left its table.                               *)
AllPlaced == ~Mischarged => tpc # "astray" /\ stack \in Seq(PlacedFrames)

PlacedInv == Inv /\ AllPlaced

(* A walk in place that has something left to do stands on a part.         *)
LEMMA LeftOnPart ==
  ASSUME mem \in Memories, NEW f \in PlacedFrames, f.left > 0
  PROVE  f.at \in Parts(mem, f.owner)
<1>1. /\ f.owner \in DOMAIN mem /\ mem[f.owner].type \in Containers /\ f.walk = WalkIn(mem[f.owner].type)
      /\ EndOrPart(mem, f.owner, f.at) /\ Paid(f) /\ f.walk \in Walks /\ f.left \in Int /\ f.at \in Nat
  BY DEF PlacedFrames, Placed, OKFrames, Frame
<1> SUFFICES ASSUME f.at = EndOf(mem, f.owner) PROVE FALSE
  BY <1>1 DEF EndOrPart
<1>2. CASE WalkOf[f.walk].pays \in {"length", "sizeof", "next"}
  BY <1>1, <1>2 DEF Paid
<1>3. CASE WalkOf[f.walk].pays = "count"
  BY <1>1, <1>3, CountPositive DEF Paid
<1>4. CASE WalkOf[f.walk].pays = "last"
  BY <1>1, <1>4 DEF Paid
<1> QED BY <1>1, <1>2, <1>3, <1>4, PaysTyped

-----------------------------------------------------------------------------
(* A structure of fixed size is as long as its C type and its error banks. *)
LEMMA FixedLength ==
  ASSUME mem \in Memories, NEW a \in DOMAIN mem, mem[a].type \in FixedSize
  PROVE  /\ mem[a].len = SizeOfType(mem[a].type) + ErrorBanks(mem[a])
         /\ mem[a].type \notin {"MCE", "CMC"} => mem[a].len = SizeOfType(mem[a].type)
<1>1. FixedSize \subseteq Types
  BY DEF FixedSize, Types, SizeOf
<1>2. mem[a].len = SizeOfType(mem[a].type) + ErrorBanks(mem[a])
  BY <1>1, MemoryFacts DEF WellFormed, SizeOfType
<1> QED BY <1>2, SizeNat DEF ErrorBanks

(* MADT and SRAT know types that are charged their size, and those of MADT *)
(* that are charged their Length; the types HEST knows have a size.        *)
LEMMA KnownTypes ==
  /\ \A t \in WalkOf["MADT"].known \cup WalkOf["SRAT"].known :
       t \in ChargedByLength \/ (t \in FixedSize /\ t \notin {"MCE", "CMC"})
  /\ \A t \in WalkOf["HEST"].known : t \in FixedSize
  /\ WalkOf["HEST"].other = "stop"
  /\ \A w \in {"CPEP", "MCFG"} : WalkOf[w].known = Types
<1>1. \A t \in MADT.known \cup SRAT.known :
        t \in ChargedByLength \/ (t \in FixedSize /\ t \notin {"MCE", "CMC"})
  BY DEF MADT, SRAT, AWalk, ChargedByLength, FixedSize
<1>2. (\A t \in HEST.known : t \in FixedSize) /\ HEST.other = "stop"
  BY DEF HEST, AWalk, FixedSize
<1>3. CPEP.known = Types /\ MCFG.known = Types
  BY DEF CPEP, MCFG, AWalk
<1>4. /\ WalkOf["MADT"] = MADT /\ WalkOf["SRAT"] = SRAT /\ WalkOf["HEST"] = HEST
      /\ WalkOf["CPEP"] = CPEP /\ WalkOf["MCFG"] = MCFG
  BY DEF WalkOf
<1> QED BY <1>1, <1>2, <1>3, <1>4

(* The contents ACPI fixes are of fixed size.                              *)
LEMMA ContentFixed ==
  /\ \A t \in {"CPEP", "MCFG", "WDAT", "EINJ", "ERST", "MCE", "CMC", "CHARS"} :
       t \in DOMAIN Content /\ Content[t] \subseteq FixedSize \ {"MCE", "CMC"}
BY DEF Content, FixedSize

(* What a walk in place has looked at it steps over as a whole, and is     *)
(* charged for it what it is long.                                         *)
LEMMA StepsOver ==
  ASSUME mem \in Memories, ~Mischarged, NEW f \in PlacedFrames, f.seen
  PROVE  /\ Advance(f.walk, f.at) = mem[f.at].len
         /\ WalkOf[f.walk].pays \in {"length", "sizeof", "count", "last"}
         /\ WalkOf[f.walk].pays \in {"length", "sizeof"} => Charge(f) = mem[f.at].len
<1> DEFINE o == f.owner
           t == mem[f.owner].type
           s == mem[f.at]
<1>1. /\ o \in DOMAIN mem /\ t \in Containers /\ f.walk = WalkIn(t) /\ f.at \in Parts(mem, o)
      /\ Known(f.walk, s.type) \/ WalkOf[f.walk].other # "stop"
  BY DEF PlacedFrames, Placed, OKFrames
<1>2. f.at \in DOMAIN mem /\ s.owner = o /\ s.len \in Nat /\ s.owner # NULL
  BY <1>1, RegionFacts, MemoryFacts
<1>3. f.walk \in Walks /\ WalkOfOwner(f.at) = f.walk
  BY <1>1, <1>2, WalkInWalks DEF WalkOfOwner
<1>4. f.walk # None
  BY <1>3, AllWalks DEF PlainLength, PlainOther, Special, None
<1>5. /\ WalkOf[f.walk].pays # "next"
      /\ WalkOf[f.walk].pays = "sizeof" => s.type \in WalkOf[f.walk].known
  BY <1>2, <1>3, <1>4 DEF Mischarged
<1>6. CASE t \in ByLengthIn
  <2>1. Moves(f.walk, "length", "length")
    BY <1>1, <1>6, HowWalked
  <2> QED BY <2>1 DEF Moves, Advance, Charge
<1>7. CASE t \in BySizeIn
  <2>1. Moves(f.walk, "length", "sizeof") /\ f.walk \in {"MADT", "SRAT"}
    BY <1>1, <1>7, HowWalked, WalkInNamed, AllWalks DEF BySizeIn, PlainOther
  <2>2. s.type \in WalkOf[f.walk].known
    BY <1>5, <2>1 DEF Moves
  <2>3. s.type \in ChargedByLength \/ (s.type \in FixedSize /\ s.type \notin {"MCE", "CMC"})
    BY <2>1, <2>2, KnownTypes
  <2>4. TableLen(f) = s.len
    BY <1>2, <2>2, <2>3, FixedLength DEF TableLen, Known
  <2> QED BY <2>1, <2>4 DEF Moves, Advance, Charge
<1>8. CASE t \in FilledIn
  <2>1. Moves(f.walk, "sizeof", "sizeof") /\ f.walk = t /\ t \in {"CPEP", "MCFG"}
    BY <1>1, <1>8, HowWalked, WalkInNamed, AllWalks DEF FilledIn, PlainOther
  <2>2. s.type \in FixedSize \ {"MCE", "CMC"}
    BY <1>1, <1>2, <2>1, RegionFacts, ContentFixed DEF ContentRight
  <2>3. s.len = SizeOfType(s.type) /\ ErrorBanks(s) = 0
    BY <1>2, <2>2, FixedLength DEF ErrorBanks
  <2>4. s.type \in WalkOf[f.walk].known /\ s.type \notin ChargedByLength
    BY <1>5, <2>1, <2>2 DEF Moves, FixedSize, ChargedByLength
  <2>5. TableLen(f) = s.len
    BY <2>3, <2>4 DEF TableLen, Known
  <2> QED BY <1>2, <2>1, <2>3, <2>5, SizeNat DEF Moves, Advance, Charge
<1>9. CASE t \in NextIn
  BY <1>1, <1>5, <1>9, HowWalked DEF Moves
<1>10. CASE t \in SizeCountIn
  <2>1. Moves(f.walk, "sizeof", "count")
    BY <1>1, <1>10, HowWalked
  <2>2. s.type \in FixedSize
    <3>1. CASE t = "HEST"
      <4>1. f.walk = "HEST"
        BY <1>1, <3>1, WalkInNamed, AllWalks DEF Special
      <4> QED BY <1>1, <4>1, KnownTypes DEF Known
    <3>2. CASE t \in {"MCE", "CMC", "WDAT", "EINJ", "ERST", "CHARS"}
      BY <1>1, <1>2, <3>2, RegionFacts, ContentFixed DEF ContentRight
    <3> QED BY <1>10, <3>1, <3>2 DEF SizeCountIn
  <2>3. s.len = SizeOfType(s.type) + ErrorBanks(s)
    BY <1>2, <2>2, FixedLength
  <2> QED BY <2>1, <2>3 DEF Moves, Advance
<1>11. CASE t \in LengthCountIn
  BY <1>1, <1>11, HowWalked DEF Moves, Advance
<1>12. CASE t = "ASFT"
  BY <1>1, <1>12, HowWalked DEF Moves, Advance
<1> QED BY <1>1, <1>6, <1>7, <1>8, <1>9, <1>10, <1>11, <1>12, AllContainers

(* A walk that begins at a container is in place.                          *)
LEMMA EnterPlaced ==
  ASSUME mem \in Memories, NEW a \in DOMAIN mem, mem[a].type \in Containers
  PROVE  Enter(WalkIn(mem[a].type), a) \in PlacedFrames
<1> DEFINE t == mem[a].type
           w == WalkIn(t)
           e == Enter(w, a)
           pays == WalkOf[w].pays
<1>1. w \in Walks
  BY WalkInWalks
<1>2. /\ Tiled(mem, a) /\ ContentRight(mem, a) /\ a \in Nat /\ Header(mem[a]) \in Nat
      /\ mem[a].len \in Nat /\ mem[a].count \in Nat
  BY RegionFacts, FieldsNat
<1>3. e \in OKFrames
  BY <1>1, EnterOK
<1>4. /\ e.walk = w /\ e.owner = a /\ e.at = a + Header(mem[a]) /\ e.left = Budget(w, a)
      /\ e.seen = FALSE
  BY DEF Enter
<1>5. EndOrPart(mem, a, e.at)
  BY <1>2, <1>4 DEF Tiled
<1>6. pays \in {"length", "sizeof", "next"} => e.at + e.left = EndOf(mem, a)
  BY <1>2, <1>4 DEF Budget, EndOf
<1>7. ASSUME pays = "count"
      PROVE  e.left >= 0 /\ Cardinality(PartsFrom(a, e.at)) = IF w = "MPST" THEN e.left + 1 ELSE e.left
  <2>1. t \in SizeCountIn \cup LengthCountIn
    BY <1>7, HowWalked, AllContainers DEF Moves
  <2>2. t \in Counted
    BY <2>1 DEF SizeCountIn, LengthCountIn, Counted
  <2>3. PartsFrom(a, e.at) = Parts(mem, a)
    BY <1>2, <1>4, RegionFacts DEF Tiled, PartsFrom
  <2>4. (w = "MPST" <=> t = "MPST") /\ (w = "MSCT" <=> t = "MSCT")
    BY <2>1, WalkInNamed, AllWalks DEF SizeCountIn, LengthCountIn, PlainOther, Special
  <2>5. Cardinality(Parts(mem, a)) = PartsSaid(mem[a])
    BY <1>2, <2>2 DEF ContentRight
  <2>6. e.left = mem[a].count + IF w = "MSCT" THEN 1 ELSE 0
    BY <1>2, <1>4, <1>7 DEF Budget
  <2>7. t = "MSCT" => t # "MPST"
    OBVIOUS
  <2> QED BY <1>2, <2>3, <2>4, <2>5, <2>6, <2>7 DEF PartsSaid
<1>8. ASSUME pays = "last"
      PROVE  e.left = IF e.at = EndOf(mem, a) THEN 0 ELSE 1
  <2>1. t = "ASFT"
    BY <1>8, HowWalked, AllContainers DEF Moves
  <2>2. PICK p \in Parts(mem, a) : TRUE
    BY <1>2, <2>1 DEF ContentRight
  <2>3. p \in Nat /\ mem[p].len \in Nat /\ mem[p].len > 0 /\ p + mem[p].len <= EndOf(mem, a) /\ e.at <= p
    BY <1>2, <1>4, RegionFacts DEF Tiled
  <2>4. e.at # EndOf(mem, a)
    BY <1>2, <1>4, <2>3, RegionFacts
  <2>5. e.left = 1
    BY <1>4, <1>8 DEF Budget
  <2> QED BY <2>4, <2>5
<1>9. Paid(e)
  BY <1>4, <1>6, <1>7, <1>8 DEF Paid
<1>10. Placed(e)
  <2> HIDE DEF e
  <2> QED BY <1>4, <1>5, <1>9 DEF Placed
<1> QED BY <1>3, <1>10 DEF PlacedFrames

(* The walk that is entered for a part of a walked container is the one    *)
(* over the inside of that part, or of the table it points to.             *)
LEMMA InnerNamed ==
  ASSUME mem \in Memories, NEW w \in Walks, NEW a \in DOMAIN mem, HasInner(w, a)
  PROVE  /\ InnerBase(a) \in DOMAIN mem /\ mem[InnerBase(a)].type \in Containers
         /\ WalkOf[w].inner[mem[a].type] = WalkIn(mem[InnerBase(a)].type)
<1> DEFINE t == mem[a].type
<1>1. t \in DOMAIN WalkOf[w].inner /\ InnerBase(a) # NULL
  BY DEF HasInner
<1>2. CASE w \in PlainLength \cup PlainOther
  <2>1. DOMAIN WalkOf[w].inner = {}
    BY <1>2, PlainFields DEF NoInner
  <2> QED BY <1>1, <2>1
<1>3. CASE w = "DMAR"
  <2>1. t \in {"DRHD", "RMRR", "ATSR"} /\ WalkOf[w].inner[t] = "DeviceScope"
    BY <1>1, <1>3, SpecialFields DEF DMAR, AWalk
  <2> QED BY <2>1, WalkInNamed DEF InnerBase, PointerTypes, Containers
<1>4. CASE w = "PMTT"
  <2>1. t \in {"SOCKET", "CONTROLLER"}
        /\ WalkOf[w].inner[t] = (IF t = "SOCKET" THEN "PmttSocket" ELSE "PmttMemoryController")
    BY <1>1, <1>4, SpecialFields DEF PMTT, AWalk
  <2> QED BY <2>1, WalkInNamed DEF InnerBase, PointerTypes, Containers
<1>5. CASE w = "PmttSocket"
  <2>1. t = "CONTROLLER" /\ WalkOf[w].inner[t] = "PmttMemoryController"
    BY <1>1, <1>5, SpecialFields DEF PmttSocket, AWalk
  <2> QED BY <2>1, WalkInNamed DEF InnerBase, PointerTypes, Containers
<1>6. CASE w = "FPDT"
  <2>1. t \in {"FBPTPTR", "S3PTPTR"}
        /\ WalkOf[w].inner[t] = (IF t = "FBPTPTR" THEN "FpdtBasicBootTable" ELSE "FpdtS3BootTable")
    BY <1>1, <1>6, SpecialFields DEF FPDT, AWalk
  <2>2. /\ InnerBase(a) = mem[a].ptr /\ mem[a].ptr \in DOMAIN mem
        /\ mem[mem[a].ptr].type = IF t = "FBPTPTR" THEN "FBPT" ELSE "S3PT"
    BY <1>1, <2>1, MemoryFacts DEF WellFormed, InnerBase, PointerTypes
  <2> QED BY <2>1, <2>2, WalkInNamed DEF Containers
<1>7. CASE w = "HEST"
  <2>1. t \in {"MCE", "CMC"} /\ WalkOf[w].inner[t] = "HestBanks"
    BY <1>1, <1>7, SpecialFields DEF HEST, AWalk
  <2> QED BY <2>1, WalkInNamed DEF InnerBase, PointerTypes, Containers
<1>8. CASE w = "MPST"
  <2>1. DOMAIN WalkOf[w].inner = {}
    BY <1>8, SpecialFields DEF MPST, AWalk, NoInner
  <2> QED BY <1>1, <2>1
<1> QED BY <1>2, <1>3, <1>4, <1>5, <1>6, <1>7, <1>8, AllWalks DEF Special

(* The walks around a walk in place are in place.                          *)
LEMMA PlacedTopBelow ==
  ASSUME stack \in Seq(PlacedFrames), stack # <<>>
  PROVE  Top \in PlacedFrames /\ Below \in Seq(PlacedFrames)
<1>1. Len(stack) \in Nat /\ Len(stack) > 0 /\ \A i \in 1..Len(stack) : stack[i] \in PlacedFrames
  OBVIOUS
<1>2. Top \in PlacedFrames
  BY <1>1 DEF Top
<1>3. \A i \in 1..(Len(stack) - 1) : stack[i] \in PlacedFrames
  BY <1>1
<1>4. Below \in Seq(PlacedFrames)
  BY <1>1, <1>3, SubSeqProperties DEF Below
<1> QED BY <1>2, <1>4

-----------------------------------------------------------------------------
(* An unseen or a seen frame of a step has the same place.                 *)
LEMMA LookAtPlaced ==
  ASSUME PlacedInv, LookAt, ~Mischarged
  PROVE  stack' \in Seq(PlacedFrames)
<1> DEFINE a == Top.at
           w == Top.walk
           seen == [Top EXCEPT !.seen = TRUE]
<1>1. /\ mem \in Memories /\ stack # <<>> /\ a \in DOMAIN mem /\ Top.left > 0
      /\ stack \in Seq(PlacedFrames) /\ (Known(w, mem[a].type) \/ WalkOf[w].other # "stop")
  BY DEF PlacedInv, AllPlaced, Inv, TypeOK, LookAt, Looking
<1>2. Top \in PlacedFrames /\ Below \in Seq(PlacedFrames)
  BY <1>1, PlacedTopBelow
<1>3. Top \in Frame /\ w \in Walks /\ Top \in OKFrames /\ Placed(Top)
  BY <1>2 DEF PlacedFrames, OKFrames, Frame
<1>4. a \in Parts(mem, Top.owner)
  BY <1>1, <1>2, LeftOnPart
<1>5. /\ seen \in Frame /\ seen.owner = Top.owner /\ seen.at = a /\ seen.walk = w
      /\ seen.left = Top.left /\ seen.seen = TRUE
  BY <1>3 DEF Frame
<1>6. seen \in OKFrames
  <2> HIDE DEF seen
  <2> QED BY <1>1, <1>3, <1>5 DEF OKFrames
<1>7. Placed(seen)
  <2>1. Paid(seen)
    <3> HIDE DEF seen
    <3> QED BY <1>3, <1>5 DEF Paid, Placed
  <2> HIDE DEF seen
  <2> QED BY <1>1, <1>3, <1>4, <1>5, <2>1 DEF Placed
<1>8. Append(Below, seen) \in Seq(PlacedFrames)
  BY <1>2, <1>6, <1>7, AppendProperties DEF PlacedFrames
<1>9. CASE HasInner(w, a)
  <2>1. Enter(WalkOf[w].inner[mem[a].type], InnerBase(a)) \in PlacedFrames
    BY <1>1, <1>3, <1>9, InnerNamed, EnterPlaced
  <2>2. stack' = Append(Append(Below, seen), Enter(WalkOf[w].inner[mem[a].type], InnerBase(a)))
    BY <1>9 DEF LookAt
  <2> QED BY <1>8, <2>1, <2>2, AppendProperties
<1>10. CASE ~HasInner(w, a)
  BY <1>8, <1>10 DEF LookAt
<1> QED BY <1>9, <1>10

(* Stepping over a structure leaves the walk in place.                     *)
LEMMA StepPlaced ==
  ASSUME PlacedInv, Step, ~Mischarged, stack' \in Seq(OKFrames)
  PROVE  stack' \in Seq(PlacedFrames)
<1> DEFINE f == Top
           o == Top.owner
           t == mem[Top.owner].type
           len == mem[Top.at].len
           pays == WalkOf[Top.walk].pays
           g == [f EXCEPT !.at = f.at + Advance(f.walk, f.at),
                          !.left = f.left - Charge(f),
                          !.tableLen = TableLen(f),
                          !.seen = FALSE]
<1>1. mem \in Memories /\ stack # <<>> /\ f.seen /\ stack \in Seq(PlacedFrames)
  BY DEF PlacedInv, AllPlaced, Inv, TypeOK, Step
<1>2. f \in PlacedFrames /\ Below \in Seq(PlacedFrames)
  BY <1>1, PlacedTopBelow
<1>3. /\ f \in Frame /\ o \in DOMAIN mem /\ Placed(f) /\ t \in Containers /\ f.walk = WalkIn(t)
      /\ f.at \in Parts(mem, o) /\ f.left > 0 /\ f.left \in Int
  BY <1>1, <1>2 DEF PlacedFrames, OKFrames, Placed, Frame
<1>4. /\ f.at \in Nat /\ len \in Nat /\ len > 0 /\ f.at + len <= EndOf(mem, o)
      /\ EndOrPart(mem, o, f.at + len) /\ EndOf(mem, o) \in Nat
  BY <1>1, <1>3, RegionFacts
<1>5. /\ Advance(f.walk, f.at) = len /\ pays \in {"length", "sizeof", "count", "last"}
      /\ pays \in {"length", "sizeof"} => Charge(f) = len
  BY <1>1, <1>2, StepsOver
<1>6. /\ g.owner = o /\ g.walk = f.walk /\ g.at = f.at + len /\ g.left = f.left - Charge(f)
      /\ g.seen = FALSE
  BY <1>3, <1>5 DEF Frame
<1> HIDE DEF g
<1>7. ASSUME pays \in {"length", "sizeof"}
      PROVE  Paid(g)
  <2>1. f.at + f.left = EndOf(mem, o)
    BY <1>3, <1>7 DEF Placed, Paid
  <2>2. g.at + g.left = EndOf(mem, g.owner)
    BY <1>3, <1>4, <1>5, <1>6, <1>7, <2>1
  <2> QED BY <1>6, <1>7, <2>2 DEF Paid
<1>8. ASSUME pays = "count"
      PROVE  Paid(g)
  <2>1. /\ f.left >= 0
        /\ Cardinality(PartsFrom(o, f.at)) = IF f.walk = "MPST" THEN f.left + 1 ELSE f.left
    BY <1>3, <1>8 DEF Placed, Paid
  <2>2. Charge(f) = 1
    BY <1>8 DEF Charge
  <2>3. Cardinality(PartsFrom(o, f.at)) = Cardinality(PartsFrom(o, f.at + len)) + 1
    BY <1>1, <1>3, OneLess
  <2>4. Cardinality(PartsFrom(o, f.at + len)) \in Nat
    BY <1>1, PartsFinite, FS_CardinalityType
  <2>5. g.left >= 0
    BY <1>3, <1>6, <2>2
  <2>6. Cardinality(PartsFrom(g.owner, g.at)) = IF g.walk = "MPST" THEN g.left + 1 ELSE g.left
    BY <1>3, <1>6, <2>1, <2>2, <2>3, <2>4
  <2> QED BY <1>6, <1>8, <2>5, <2>6 DEF Paid
<1>9. ASSUME pays = "last"
      PROVE  Paid(g)
  <2>1. t = "ASFT"
    BY <1>3, <1>9, HowWalked, AllContainers DEF Moves
  <2>2. mem[f.at].last <=> f.at + len = EndOf(mem, o)
    BY <1>1, <1>3, <2>1, RegionFacts DEF ContentRight
  <2>3. f.left = 1
    BY <1>3, <1>4, <1>9 DEF Placed, Paid
  <2>4. Charge(f) = IF mem[f.at].last THEN 1 ELSE 0
    BY <1>9 DEF Charge
  <2>5. g.left = IF g.at = EndOf(mem, g.owner) THEN 0 ELSE 1
    BY <1>6, <2>2, <2>3, <2>4
  <2> QED BY <1>6, <1>9, <2>5 DEF Paid
<1>10. Placed(g)
  BY <1>3, <1>4, <1>5, <1>6, <1>7, <1>8, <1>9 DEF Placed
<1>11. stack' = Append(Below, g)
  BY DEF Step, g
<1>12. g \in OKFrames
  <2>1. Below \in Seq(OKFrames)
    BY <1>2 DEF PlacedFrames
  <2>2. Len(stack') = Len(Below) + 1 /\ stack'[Len(Below) + 1] = g
    BY <1>11, <2>1
  <2>3. Len(Below) + 1 \in 1..Len(stack')
    BY <2>1, <2>2
  <2> QED BY <2>2, <2>3
<1> QED BY <1>2, <1>10, <1>11, <1>12, AppendProperties DEF PlacedFrames

(* MPST's first loop ends at the power characteristics, and the second one *)
(* walks them.                                                             *)
LEMMA CharacteristicsNext ==
  ASSUME mem \in Memories, NEW f \in PlacedFrames, f.left <= 0, WalkOf[f.walk].then # None
  PROVE  /\ f.at \in DOMAIN mem /\ mem[f.at].type = "CHARS"
         /\ WalkOf[f.walk].then = WalkIn("CHARS")
<1> DEFINE o == f.owner
           t == mem[f.owner].type
           n == f.at + mem[f.at].len
<1>1. /\ o \in DOMAIN mem /\ t \in Containers /\ f.walk = WalkIn(t) /\ EndOrPart(mem, o, f.at)
      /\ Paid(f) /\ f.walk \in Walks /\ f.left \in Int
  BY DEF PlacedFrames, Placed, OKFrames, Frame
<1>2. f.walk = "MPST"
  BY <1>1, AllWalks, PlainFields, SpecialFields
     DEF Special, DMAR, PMTT, PmttSocket, FPDT, HEST, AWalk
<1>3. WalkOf["MPST"].then = "MpstCharacteristics" /\ WalkOf["MPST"].pays = "count"
  BY SpecialFields DEF MPST, AWalk
<1>4. t = "MPST"
  <2>1. WalkOf[WalkIn(t)].pays = "count"
    BY <1>1, <1>2, <1>3
  <2>2. \A p \in {"length", "sizeof", "next", "last"} : p # "count"
    OBVIOUS
  <2>3. t \notin ByLengthIn \cup BySizeIn \cup FilledIn \cup NextIn \cup {"ASFT"}
    BY <2>1, <2>2, HowWalked DEF Moves
  <2>4. t \in SizeCountIn \cup LengthCountIn
    BY <1>1, <2>3, AllContainers
  <2>5. \A v \in {"HestBanks", "MpstCharacteristics"} : v # "MPST"
    OBVIOUS
  <2>6. t \notin {"MCE", "CMC", "CHARS"}
    BY <1>1, <1>2, <2>5, WalkInNamed
  <2>7. t \in Walks
    BY <2>4, <2>6, AllWalks DEF SizeCountIn, LengthCountIn, PlainOther, Special
  <2>8. WalkIn(t) = t
    BY <2>7, WalkInNamed
  <2> QED BY <1>1, <1>2, <2>8
<1>5. Cardinality(PartsFrom(o, f.at)) = 1
  BY <1>1, <1>2, <1>3 DEF Paid
<1>6. f.at \in Parts(mem, o)
  <2>1. f.at # EndOf(mem, o)
    BY <1>1, <1>5, CountPositive
  <2> QED BY <1>1, <2>1 DEF EndOrPart
<1>7. f.at + mem[f.at].len = EndOf(mem, o)
  <2>1. EndOrPart(mem, o, n)
    BY <1>1, <1>6, RegionFacts
  <2>2. Cardinality(PartsFrom(o, f.at)) = Cardinality(PartsFrom(o, n)) + 1
    BY <1>1, <1>6, OneLess
  <2>3. Cardinality(PartsFrom(o, n)) \in Nat /\ (Cardinality(PartsFrom(o, n)) = 0 <=> n = EndOf(mem, o))
    BY <1>1, <2>1, CountPositive
  <2> QED BY <1>5, <2>2, <2>3
<1>8. mem[f.at].type = "CHARS"
  BY <1>1, <1>4, <1>6, <1>7, RegionFacts DEF ContentRight
<1> QED BY <1>1, <1>2, <1>3, <1>6, <1>8, RegionFacts, WalkInNamed

(* The end of a loop leaves the walks in place, and no walk leaves the     *)
(* table.                                                                  *)
LEMMA WalkEndsPlaced ==
  ASSUME PlacedInv, WalkEnds, ~Mischarged
  PROVE  stack' \in Seq(PlacedFrames) /\ tpc' # "astray"
<1> DEFINE next == WalkOf[Top.walk].then
<1>1. mem \in Memories /\ tpc = "walking" /\ stack # <<>> /\ stack \in Seq(PlacedFrames) /\ Top.left <= 0
  BY DEF PlacedInv, AllPlaced, Inv, TypeOK, WalkEnds
<1>2. Top \in PlacedFrames /\ Below \in Seq(PlacedFrames)
  BY <1>1, PlacedTopBelow
<1>3. CASE next # None
  <2>1. Top.at \in DOMAIN mem /\ mem[Top.at].type = "CHARS" /\ next = WalkIn("CHARS")
    BY <1>1, <1>2, <1>3, CharacteristicsNext
  <2>2. Enter(next, Top.at) \in PlacedFrames
    <3>1. "CHARS" \in Containers
      BY DEF Containers
    <3> QED BY <1>1, <2>1, <3>1, EnterPlaced
  <2>3. stack' = Append(Below, Enter(next, Top.at)) /\ tpc' = tpc
    BY <1>3, <2>1 DEF WalkEnds
  <2> QED BY <1>1, <1>2, <2>2, <2>3, AppendProperties
<1>4. CASE next = None
  BY <1>1, <1>2, <1>4 DEF WalkEnds
<1> QED BY <1>3, <1>4

(* No walk in place goes astray.                                           *)
LEMMA NotAstray == PlacedInv /\ ~Mischarged => ~GoesAstray
<1> SUFFICES ASSUME PlacedInv, ~Mischarged, GoesAstray PROVE FALSE
  OBVIOUS
<1>1. mem \in Memories /\ stack # <<>> /\ stack \in Seq(PlacedFrames)
  BY DEF PlacedInv, AllPlaced, Inv, TypeOK, GoesAstray
<1>2. Top \in PlacedFrames
  BY <1>1, PlacedTopBelow
<1>3. CASE Looking /\ Top.at \notin DOMAIN mem
  BY <1>1, <1>2, <1>3, LeftOnPart DEF Looking, Parts
<1>4. CASE Top.seen /\ ReadsNext(Top)
  BY <1>1, <1>2, <1>4, StepsOver DEF ReadsNext
<1> QED BY <1>3, <1>4 DEF GoesAstray

(* An empty stack has nothing to place.                                    *)
LEMMA InitPlaced == Init => PlacedInv
<1> SUFFICES ASSUME Init PROVE PlacedInv
  OBVIOUS
<1>1. <<>> \in Seq(PlacedFrames)
  BY ShortSeq
<1> QED BY <1>1, InitInv DEF Init, PlacedInv, AllPlaced

(* Every step of every walk leaves all frames on what their counters pay.  *)
LEMMA NextPlaced == PlacedInv /\ [Next]_vars => PlacedInv'
<1> SUFFICES ASSUME PlacedInv, [Next]_vars PROVE PlacedInv'
  OBVIOUS
<1>1. Inv /\ Inv' /\ mem \in Memories
  BY NextInv DEF PlacedInv, Inv, TypeOK
<1>2. mem' = mem
  BY DEF Next, Walk, BeginDump, LookAt, UnknownEndsDump, Step, WalkEnds, GoesAstray, vars
<1>3. Mischarged' = Mischarged /\ PlacedFrames' = PlacedFrames /\ OKFrames' = OKFrames
  <2>1. OKFrames' = OKFrames
    BY <1>2 DEF OKFrames
  <2>2. PlacedFrames' = PlacedFrames
    BY <1>2, <2>1 DEF PlacedFrames, Placed, Paid, PartsFrom
  <2>3. Mischarged' = Mischarged
    BY <1>2 DEF Mischarged, WalkOfOwner
  <2> QED BY <2>1, <2>2, <2>3
<1> SUFFICES ASSUME ~Mischarged
             PROVE  tpc' # "astray" /\ stack' \in Seq(PlacedFrames)
  BY <1>1, <1>3 DEF PlacedInv, AllPlaced
<1>4. tpc # "astray" /\ stack \in Seq(PlacedFrames)
  BY DEF PlacedInv, AllPlaced
<1>5. \A S : <<>> \in Seq(S)
  BY ShortSeq
<1>6. ASSUME NEW a \in Tables(mem), NEW verb \in BOOLEAN, BeginDump(a, verb)
      PROVE  tpc' # "astray" /\ stack' \in Seq(PlacedFrames)
  <2>1. CASE verb /\ mem[a].type \in Signatures
    <3>1. mem[a].type \in Containers /\ mem[a].type \in Walks
      BY <2>1, AllWalks DEF Signatures, Containers, PlainLength, PlainOther, Special
    <3>2. Enter(mem[a].type, a) \in PlacedFrames
      BY <1>1, <3>1, EnterPlaced, WalkInNamed DEF Tables
    <3>3. <<Enter(mem[a].type, a)>> \in Seq(PlacedFrames)
      BY <3>2, ShortSeq
    <3> QED BY <1>6, <2>1, <3>3 DEF BeginDump
  <2>2. CASE ~(verb /\ mem[a].type \in Signatures)
    BY <1>5, <1>6, <2>2 DEF BeginDump
  <2> QED BY <2>1, <2>2
<1>7. CASE LookAt
  BY <1>4, <1>7, LookAtPlaced DEF LookAt
<1>8. CASE UnknownEndsDump
  BY <1>5, <1>8 DEF UnknownEndsDump
<1>9. CASE Step
  <2>1. stack' \in Seq(OKFrames)
    BY <1>1, <1>3 DEF Inv
  <2>2. tpc' = tpc
    BY <1>9 DEF Step
  <2> QED BY <1>4, <1>9, <2>1, <2>2, StepPlaced
<1>10. CASE WalkEnds
  BY <1>10, WalkEndsPlaced
<1>11. CASE GoesAstray
  BY <1>11, NotAstray
<1>12. CASE UNCHANGED vars
  BY <1>4, <1>12 DEF vars
<1> QED BY <1>6, <1>7, <1>8, <1>9, <1>10, <1>11, <1>12 DEF Next, Walk

(* In a table where every structure is charged its own length, whichever   *)
(* of the seventeen libraries dumps it, every walk stands on a structure   *)
(* of the region it walks and none leaves the table: the length arithmetic *)
(* of all walks, not only of those that follow the Length fields.          *)
THEOREM AllWalksOnStructure == Spec => []OnStructure
<1>1. PlacedInv => OnStructure
  <2> SUFFICES ASSUME PlacedInv, ~Mischarged
               PROVE  /\ tpc # "astray"
                      /\ \A i \in 1..Len(stack) :
                           stack[i].left > 0 \/ stack[i].seen =>
                             stack[i].at \in DOMAIN mem /\ mem[stack[i].at].owner = stack[i].owner
    BY DEF OnStructure
  <2>1. mem \in Memories /\ tpc # "astray" /\ stack \in Seq(PlacedFrames)
    BY DEF PlacedInv, AllPlaced, Inv, TypeOK
  <2>2. ASSUME NEW i \in 1..Len(stack), stack[i].left > 0 \/ stack[i].seen
        PROVE  stack[i].at \in DOMAIN mem /\ mem[stack[i].at].owner = stack[i].owner
    <3>1. stack[i] \in PlacedFrames
      BY <2>1
    <3>2. stack[i].at \in Parts(mem, stack[i].owner)
      <4>1. CASE stack[i].seen
        BY <3>1, <4>1 DEF PlacedFrames, Placed
      <4>2. CASE stack[i].left > 0
        BY <2>1, <3>1, <4>2, LeftOnPart
      <4> QED BY <2>2, <4>1, <4>2
    <3> QED BY <3>2 DEF Parts
  <2> QED BY <2>1, <2>2
<1> QED BY <1>1, InitPlaced, NextPlaced, PTL DEF Spec

-----------------------------------------------------------------------------
(***************************************************************************)
(* TcpaLogArea: the cursor is behind as many entries as have been listed,  *)
(* and there is nothing like an entry behind the last one.                 *)
(***************************************************************************)
(* Which tables firmware made the unused part of recognizable.             *)
Recognizable(t) == AreaVersion(t) = 1 \/ t.unused = FF

AreaInv ==
  /\ tcpa \in TcpaTables /\ areaPc \in {"DumpAcpiTCPA", "area", "done"}
  /\ listed \in Seq([at : Nat, type : Nat, upto : Nat])
  /\ \A i \in 1..Len(listed) : listed[i].upto = Interpreted(tcpa, AreaVersion(tcpa), listed[i].at)
  /\ \A i \in 1..Len(listed) : i <= Entries(tcpa) => listed[i].at = tcpa.entries[i]
  /\ areaPc = "DumpAcpiTCPA" => listed = <<>>
  /\ areaPc = "area" =>
       /\ AreaVersion(tcpa) # 0 /\ version = AreaVersion(tcpa) /\ PcrEvent \in Nat
       /\ Len(listed) <= Entries(tcpa) => PcrEvent = EntryEnd(tcpa, Len(listed))
       /\ Recognizable(tcpa) => Len(listed) <= Entries(tcpa)
  /\ listed # <<>> => AreaVersion(tcpa) # 0
  /\ areaPc = "done" /\ option.verb /\ ~tcpa.null /\ AreaVersion(tcpa) # 0 =>
       /\ Len(listed) >= Entries(tcpa)
       /\ Recognizable(tcpa) => Len(listed) = Entries(tcpa)

(* A cell is a number, and so is what is computed from cells.              *)
LEMMA AreaNumbers ==
  ASSUME NEW t \in TcpaTables, AreaVersion(t) # 0, NEW a \in Nat
  PROVE  /\ AreaVersion(t) \in {1, 2} /\ AreaCell(t, a) \in Nat
         /\ EntrySpan(t, AreaVersion(t), a) \in Nat \ {0}
         /\ EventType(t, AreaVersion(t), a) \in Nat /\ Interpreted(t, AreaVersion(t), a) \in Nat
<1>1. AreaVersion(t) \in {0, 1, 2}
  BY DEF AreaVersion
<1>2. t.area \in Seq(Nat)
  BY AreasAssumption DEF AreaForm
<1>3. \A n \in Nat : AreaCell(t, n) \in Nat
  BY <1>2, LenProperties, ElementOfSeq DEF AreaCell
<1>4. V1Size = 4 /\ V2Size = 4
  BY DEF V1Size, V2Size, DigestSize
<1>5. AreaCell(t, a + V1Size) \in Nat
  BY <1>3, <1>4
<1>6. EventData(t, AreaVersion(t), a) \in Nat /\ EventData(t, AreaVersion(t), a) >= a
  BY <1>4, <1>5 DEF EventData
<1>7. AreaCell(t, EventData(t, AreaVersion(t), a)) \in Nat
  BY <1>3, <1>6
<1>8. EntrySpan(t, AreaVersion(t), a) \in Nat \ {0}
  BY <1>6, <1>7 DEF EntrySpan
<1>9. AreaCell(t, a + 3) \in Nat /\ AreaCell(t, a + 1) \in Nat
  BY <1>3
<1>10. AreaCell(t, EventData(t, AreaVersion(t), a) + 2) \in Nat
  BY <1>3, <1>6
<1> QED
  BY <1>1, <1>3, <1>6, <1>7, <1>8, <1>9, <1>10 DEF EventType, Interpreted

(* The entries of a log area, one behind the other.                        *)
LEMMA AreaChain ==
  ASSUME NEW t \in TcpaTables, AreaVersion(t) # 0
  PROVE  /\ Entries(t) \in Nat /\ Len(t.area) \in Nat
         /\ \A n \in 0..Entries(t) : EntryEnd(t, n) \in Nat \ {0} /\ EntryEnd(t, n) <= Len(t.area) + 1
         /\ \A n \in 0..(Entries(t) - 1) :
              LET a == EntryEnd(t, n) IN
              /\ a = t.entries[n + 1] /\ a <= Len(t.area)
              /\ TcpaPcrEventSize(t, AreaVersion(t), a) # 0
              /\ a + TcpaPcrEventSize(t, AreaVersion(t), a) = EntryEnd(t, n + 1)
<1> DEFINE v == AreaVersion(t)
<1>1. /\ t.area \in Seq(Nat) /\ t.entries \in Seq(1..Len(t.area))
      /\ \A n \in 1..Entries(t) :
           /\ t.entries[n] = EntryEnd(t, n - 1)
           /\ IsEntry(t, v, t.entries[n])
           /\ EntryEnd(t, n) <= Len(t.area) + 1
  BY AreasAssumption DEF AreaForm
<1>2. Entries(t) \in Nat /\ Len(t.area) \in Nat
  BY <1>1, LenProperties DEF Entries
<1>3. \A n \in 1..Entries(t) : t.entries[n] \in Nat /\ t.entries[n] \in 1..Len(t.area)
  <2> TAKE n \in 1..Entries(t)
  <2>1. t.entries[n] \in 1..Len(t.area)
    BY <1>1, ElementOfSeq DEF Entries
  <2> QED
    BY <1>2, <2>1
<1>4. \A n \in 1..Entries(t) : EntrySpan(t, v, t.entries[n]) \in Nat \ {0}
  BY <1>3, AreaNumbers
<1>5. \A n \in 0..Entries(t) : EntryEnd(t, n) \in Nat \ {0} /\ EntryEnd(t, n) <= Len(t.area) + 1
  <2>1. EntryEnd(t, 0) = 1
    BY DEF EntryEnd
  <2>2. \A n \in 1..Entries(t) : EntryEnd(t, n) = t.entries[n] + EntrySpan(t, v, t.entries[n])
    BY <1>2 DEF EntryEnd
  <2>3. \A n \in 1..Entries(t) : EntryEnd(t, n) \in Nat \ {0}
    BY <1>3, <1>4, <2>2
  <2> QED
    BY <1>1, <1>2, <2>1, <2>3
<1>6. ASSUME NEW n \in 0..(Entries(t) - 1)
      PROVE  LET a == EntryEnd(t, n) IN
             /\ a = t.entries[n + 1] /\ a <= Len(t.area)
             /\ TcpaPcrEventSize(t, v, a) # 0
             /\ a + TcpaPcrEventSize(t, v, a) = EntryEnd(t, n + 1)
  <2>1. n + 1 \in 1..Entries(t) /\ (n + 1) - 1 = n /\ n + 1 # 0
    BY <1>2
  <2>2. t.entries[n + 1] = EntryEnd(t, n) /\ IsEntry(t, v, t.entries[n + 1])
    BY <1>1, <2>1
  <2>3. TcpaPcrEventSize(t, v, t.entries[n + 1]) = EntrySpan(t, v, t.entries[n + 1])
    BY <2>2 DEF TcpaPcrEventSize
  <2>4. EntryEnd(t, n + 1) = t.entries[n + 1] + EntrySpan(t, v, t.entries[n + 1])
    BY <2>1 DEF EntryEnd
  <2>5. t.entries[n + 1] <= Len(t.area) /\ EntrySpan(t, v, t.entries[n + 1]) # 0
    BY <1>2, <1>3, <1>4, <2>1
  <2> QED
    BY <2>2, <2>3, <2>4, <2>5
<1> QED
  BY <1>2, <1>5, <1>6

(* Behind the last entry is none, if that can be told.                     *)
LEMMA AreaEnd ==
  ASSUME NEW t \in TcpaTables, AreaVersion(t) # 0, Recognizable(t)
  PROVE  LET a == EntryEnd(t, Entries(t))
         IN a <= Len(t.area) => TcpaPcrEventSize(t, AreaVersion(t), a) = 0
<1> DEFINE a == EntryEnd(t, Entries(t))
<1> SUFFICES ASSUME a <= Len(t.area)
             PROVE  ~IsEntry(t, AreaVersion(t), a)
  BY DEF TcpaPcrEventSize
<1>1. a \in 1..Len(t.area) /\ Entries(t) \in Nat
  BY AreaChain
<1>2. t.area[a] = t.unused /\ t.unused \in {0, FF}
  <2>1. AreaForm(t)
    BY AreasAssumption
  <2>2. t.unused \in {0, FF} /\ \A c \in a..Len(t.area) : t.area[c] = t.unused
    BY <2>1 DEF AreaForm
  <2>3. a \in a..Len(t.area)
    BY <1>1, AreaChain
  <2> QED
    BY <2>2, <2>3
<1>3. AreaCell(t, a) = t.unused
  BY <1>1, <1>2 DEF AreaCell
<1>4. AreaVersion(t) \in {1, 2}
  BY <1>1, AreaNumbers
<1> QED
  BY <1>2, <1>3, <1>4 DEF IsEntry, Recognizable, MajorOne, FF

(* At first nothing is listed.                                             *)
LEMMA TcpaInitInv == TcpaInit => AreaInv
BY DEF TcpaInit, AreaInv

(* The layout is chosen, and the walk begins at the first cell.            *)
LEMMA DumpAcpiTCPAInv == AreaInv /\ DumpAcpiTCPA => AreaInv'
<1> SUFFICES ASSUME AreaInv, DumpAcpiTCPA
             PROVE  AreaInv'
  OBVIOUS
<1> USE DEF AreaInv, DumpAcpiTCPA
<1>1. listed = <<>> /\ UNCHANGED <<tcpa, option, listed>> /\ Len(listed) = 0
  OBVIOUS
<1>2. CASE ~tcpa.null /\ option.verb /\ AreaVersion(tcpa) # 0
  <2>1. version' = AreaVersion(tcpa) /\ PcrEvent' = 1 /\ areaPc' = "area"
    BY <1>2
  <2>2. Entries(tcpa) \in Nat /\ EntryEnd(tcpa, 0) = 1
    BY <1>2, AreaChain DEF EntryEnd
  <2> QED
    BY <1>1, <1>2, <2>1, <2>2
<1>3. CASE ~(~tcpa.null /\ option.verb /\ AreaVersion(tcpa) # 0)
  BY <1>1, <1>3
<1> QED
  BY <1>2, <1>3

(* One entry more is listed, the next of the log as long as there is one.  *)
LEMMA DumpTcpaPcrEventInv == AreaInv /\ DumpTcpaPcrEvent => AreaInv'
<1> SUFFICES ASSUME AreaInv, DumpTcpaPcrEvent
             PROVE  AreaInv'
  OBVIOUS
<1> DEFINE v == AreaVersion(tcpa)
           k == Len(listed)
           new == [at |-> PcrEvent, type |-> EventType(tcpa, v, PcrEvent), upto |-> Interpreted(tcpa, v, PcrEvent)]
           size == TcpaPcrEventSize(tcpa, v, PcrEvent)
<1>1. /\ tcpa \in TcpaTables /\ areaPc = "area" /\ v # 0 /\ version = v /\ PcrEvent \in Nat
      /\ k <= Entries(tcpa) => PcrEvent = EntryEnd(tcpa, k)
      /\ Recognizable(tcpa) => k <= Entries(tcpa)
      /\ listed \in Seq([at : Nat, type : Nat, upto : Nat]) /\ k \in Nat
  BY LenProperties DEF AreaInv, DumpTcpaPcrEvent
<1>2. /\ listed' = Append(listed, new) /\ PcrEvent' = PcrEvent + size /\ size # 0 /\ PcrEvent <= Len(tcpa.area)
      /\ UNCHANGED <<tcpa, option, areaPc, version>>
  BY <1>1 DEF DumpTcpaPcrEvent
<1>3. Entries(tcpa) \in Nat
  BY <1>1, AreaChain
<1>4. size \in Nat
  BY <1>1, AreaNumbers DEF TcpaPcrEventSize
<1>5. new \in [at : Nat, type : Nat, upto : Nat]
  BY <1>1, AreaNumbers
<1>6. /\ listed' \in Seq([at : Nat, type : Nat, upto : Nat]) /\ Len(listed') = k + 1
      /\ \A i \in 1..k : listed'[i] = listed[i]
      /\ listed'[k + 1] = new
  BY <1>1, <1>2, <1>5, AppendProperties
<1>7. k < Entries(tcpa) => PcrEvent = tcpa.entries[k + 1] /\ PcrEvent + size = EntryEnd(tcpa, k + 1)
  <2> SUFFICES ASSUME k < Entries(tcpa)
               PROVE  PcrEvent = tcpa.entries[k + 1] /\ PcrEvent + size = EntryEnd(tcpa, k + 1)
    OBVIOUS
  <2>1. k \in 0..(Entries(tcpa) - 1) /\ PcrEvent = EntryEnd(tcpa, k)
    BY <1>1, <1>3
  <2> QED
    BY <1>1, <2>1, AreaChain
<1>8. Recognizable(tcpa) => k < Entries(tcpa)
  <2> SUFFICES ASSUME Recognizable(tcpa), ~(k < Entries(tcpa))
               PROVE  FALSE
    OBVIOUS
  <2>1. k = Entries(tcpa) /\ PcrEvent = EntryEnd(tcpa, Entries(tcpa))
    BY <1>1, <1>3
  <2> QED
    BY <1>1, <1>2, <2>1, AreaEnd
<1>9. \A i \in 1..Len(listed') : listed'[i].upto = Interpreted(tcpa, v, listed'[i].at)
  <2>1. \A i \in 1..k : listed[i].upto = Interpreted(tcpa, v, listed[i].at)
    BY DEF AreaInv
  <2>2. new.upto = Interpreted(tcpa, v, new.at)
    OBVIOUS
  <2> HIDE DEF new, v, k
  <2> TAKE i \in 1..Len(listed')
  <2>3. i \in 1..k \/ i = k + 1
    BY <1>1, <1>6
  <2>4. CASE i \in 1..k
    BY <1>6, <2>1, <2>4
  <2>5. CASE i = k + 1
    BY <1>6, <2>2, <2>5
  <2> QED
    BY <2>3, <2>4, <2>5
<1>10. \A i \in 1..Len(listed') : i <= Entries(tcpa) => listed'[i].at = tcpa.entries[i]
  <2>1. \A i \in 1..k : i <= Entries(tcpa) => listed[i].at = tcpa.entries[i]
    BY DEF AreaInv
  <2>2. k + 1 <= Entries(tcpa) => new.at = tcpa.entries[k + 1]
    BY <1>1, <1>3, <1>7
  <2> HIDE DEF new, v, k
  <2> TAKE i \in 1..Len(listed')
  <2>3. i \in 1..k \/ i = k + 1
    BY <1>1, <1>6
  <2>4. CASE i \in 1..k
    BY <1>6, <2>1, <2>4
  <2>5. CASE i = k + 1
    BY <1>6, <2>2, <2>5
  <2> QED
    BY <2>3, <2>4, <2>5
<1>11. /\ PcrEvent' \in Nat
       /\ Len(listed') <= Entries(tcpa) => PcrEvent' = EntryEnd(tcpa, Len(listed'))
       /\ Recognizable(tcpa) => Len(listed') <= Entries(tcpa)
  BY <1>1, <1>2, <1>3, <1>4, <1>6, <1>7, <1>8
<1> HIDE DEF v, k, new, size
<1> QED
  BY <1>1, <1>2, <1>6, <1>9, <1>10, <1>11 DEF AreaInv, v

(* The walk ends behind the last entry, never before it.                   *)
LEMMA LogAreaEndInv == AreaInv /\ LogAreaEnd => AreaInv'
<1> SUFFICES ASSUME AreaInv, LogAreaEnd
             PROVE  AreaInv'
  OBVIOUS
<1>1. /\ tcpa \in TcpaTables /\ areaPc = "area" /\ AreaVersion(tcpa) # 0 /\ version = AreaVersion(tcpa)
      /\ Len(listed) <= Entries(tcpa) => PcrEvent = EntryEnd(tcpa, Len(listed))
      /\ Recognizable(tcpa) => Len(listed) <= Entries(tcpa)
      /\ Len(listed) \in Nat
  BY LenProperties DEF AreaInv, LogAreaEnd
<1>2. /\ PcrEvent > Len(tcpa.area) \/ TcpaPcrEventSize(tcpa, AreaVersion(tcpa), PcrEvent) = 0
      /\ areaPc' = "done" /\ UNCHANGED <<tcpa, option, version, PcrEvent, listed>>
  BY <1>1 DEF LogAreaEnd
<1>3. Len(listed) >= Entries(tcpa)
  <2> SUFFICES ASSUME ~(Len(listed) >= Entries(tcpa))
               PROVE  FALSE
    OBVIOUS
  <2>1. Entries(tcpa) \in Nat /\ Len(tcpa.area) \in Nat
    BY <1>1, AreaChain
  <2>2. Len(listed) \in 0..(Entries(tcpa) - 1) /\ PcrEvent = EntryEnd(tcpa, Len(listed))
    BY <1>1, <2>1
  <2>3. /\ PcrEvent \in Nat /\ PcrEvent <= Len(tcpa.area)
        /\ TcpaPcrEventSize(tcpa, AreaVersion(tcpa), PcrEvent) # 0
    BY <1>1, <2>1, <2>2, AreaChain
  <2> QED
    BY <1>2, <2>1, <2>3
<1>4. Entries(tcpa) \in Nat
  BY <1>1, AreaChain
<1>5. Recognizable(tcpa) => Len(listed) = Entries(tcpa)
  BY <1>1, <1>3, <1>4
<1> QED
  BY <1>1, <1>2, <1>3, <1>5 DEF AreaInv

(* What was listed is the log, and each entry stays within its bounds.     *)
LEMMA AreaInvRight == AreaInv => AreaRight
<1> SUFFICES ASSUME AreaInv
             PROVE  LogExact /\ WithinEntry
  BY DEF AreaRight
<1>1. LogExact
  <2> SUFFICES ASSUME areaPc = "done", option.verb, ~tcpa.null, AreaVersion(tcpa) # 0,
                      AreaVersion(tcpa) = 1 \/ tcpa.unused = FF
               PROVE  [i \in 1..Len(listed) |-> listed[i].at] = tcpa.entries
    BY DEF LogExact
  <2>1. tcpa \in TcpaTables /\ Len(listed) = Entries(tcpa)
    BY DEF AreaInv, Recognizable
  <2>2. \A i \in 1..Len(listed) : listed[i].at = tcpa.entries[i]
    BY <2>1, AreaChain DEF AreaInv
  <2>3. tcpa.entries \in Seq(1..Len(tcpa.area))
    BY <2>1, AreasAssumption DEF AreaForm
  <2>4. tcpa.entries = [i \in 1..Len(tcpa.entries) |-> tcpa.entries[i]]
    BY <2>3, LenProperties
  <2>5. Len(tcpa.entries) = Len(listed)
    BY <2>1 DEF Entries
  <2> QED
    BY <2>2, <2>4, <2>5, Zenon
<1>2. WithinEntry
  <2> SUFFICES ASSUME NEW i \in 1..Len(listed), NEW j \in 1..Len(tcpa.entries), listed[i].at = tcpa.entries[j]
               PROVE  listed[i].upto <= IF j < Len(tcpa.entries) THEN tcpa.entries[j + 1] ELSE Len(tcpa.area) + 1
    BY DEF WithinEntry
  <2>1. tcpa \in TcpaTables /\ AreaVersion(tcpa) # 0
    BY DEF AreaInv
  <2>2. listed[i].upto = Interpreted(tcpa, AreaVersion(tcpa), tcpa.entries[j])
    BY DEF AreaInv
  <2>3. /\ Interpreted(tcpa, AreaVersion(tcpa), tcpa.entries[j]) <= EntryEnd(tcpa, j)
        /\ \A n \in 1..Entries(tcpa) : tcpa.entries[n] = EntryEnd(tcpa, n - 1)
    BY <2>1, AreasAssumption DEF AreaForm, Entries
  <2>4. Entries(tcpa) \in Nat /\ Len(tcpa.area) \in Nat /\ Entries(tcpa) = Len(tcpa.entries)
    BY <2>1, AreaChain DEF Entries
  <2>5. CASE j < Len(tcpa.entries)
    <3>1. j + 1 \in 1..Entries(tcpa) /\ (j + 1) - 1 = j
      BY <2>4, <2>5
    <3>2. tcpa.entries[j + 1] = EntryEnd(tcpa, j)
      BY <2>3, <3>1
    <3> QED
      BY <2>2, <2>3, <2>5, <3>2
  <2>6. CASE ~(j < Len(tcpa.entries))
    <3>1. j = Entries(tcpa) /\ j \in 0..Entries(tcpa)
      BY <2>4, <2>6
    <3>2. EntryEnd(tcpa, j) <= Len(tcpa.area) + 1 /\ EntryEnd(tcpa, j) \in Nat
      BY <2>1, <3>1, AreaChain
    <3>3. tcpa.entries[j] \in Nat
      <4>1. tcpa.entries \in Seq(1..Len(tcpa.area))
        BY <2>1, AreasAssumption DEF AreaForm
      <4>2. tcpa.entries[j] \in 1..Len(tcpa.area)
        BY <4>1, ElementOfSeq
      <4> QED
        BY <2>4, <4>2
    <3>4. Interpreted(tcpa, AreaVersion(tcpa), tcpa.entries[j]) \in Nat
      BY <2>1, <3>3, AreaNumbers
    <3> QED
      BY <2>2, <2>3, <2>4, <2>6, <3>2, <3>4
  <2> QED
    BY <2>5, <2>6
<1> QED
  BY <1>1, <1>2

(* On every log area as firmware fills it the TCPA library shows every     *)
(* entry once, in order and nothing of the unused part where that can be   *)
(* told, and interprets nothing behind an entry as part of it.             *)
THEOREM LogAreaRight == TcpaSpec => []AreaRight
<1>1. AreaInv /\ [TcpaNext]_tcpaVars => AreaInv'
  <2> SUFFICES ASSUME AreaInv, [TcpaNext]_tcpaVars
               PROVE  AreaInv'
    OBVIOUS
  <2>1. CASE DumpAcpiTCPA
    BY <2>1, DumpAcpiTCPAInv
  <2>2. CASE DumpTcpaPcrEvent
    BY <2>2, DumpTcpaPcrEventInv
  <2>3. CASE LogAreaEnd
    BY <2>3, LogAreaEndInv
  <2>4. CASE UNCHANGED tcpaVars
    BY <2>4 DEF tcpaVars, AreaInv
  <2> QED
    BY <2>1, <2>2, <2>3, <2>4 DEF TcpaNext
<1> QED
  BY <1>1, TcpaInitInv, AreaInvRight, PTL DEF TcpaSpec
=============================================================================
