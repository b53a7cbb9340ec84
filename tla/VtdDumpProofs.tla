---------------------------- MODULE VtdDumpProofs ----------------------------
(***************************************************************************)
(* Proofs about VtdDump, in two parts.  The check of the translation       *)
(* tables, for all tables, mappings, exceptions and reserved regions, and  *)
(* any number of mappings that drivers make and undo meanwhile, also while *)
(* a lookup follows their links: every page is checked, none is reported   *)
(* that a record or a lasting mapping explains, and each page of a device  *)
(* that nothing is known of is.  The registration, for all DMAR tables, buses and policies of the form that  *)
(* DmarAssumption states: the arrays, the reserved regions and the         *)
(* exceptions are the ones that the table, the buses and the policy imply. *)
(***************************************************************************)
EXTENDS VtdTranslation, VtdUnits, FiniteSetTheorems, SequenceTheorems, WellFoundedInduction, TLAPS

(***************************************************************************)
(* The leaves below an entry of a table at each level, and those that a    *)
(* walk with these frames has behind it.                                   *)
(***************************************************************************)
Leaf(e, size) == [entry |-> e, size |-> size]
Leaf1(e) == IF e = Zero THEN {} ELSE {Leaf(e, 1)}
Below1(t, p) == UNION {Leaf1(t[p][j]) : j \in 1..TableSize}
Leaf2(t, e) == IF e = Zero THEN {} ELSE IF e.large THEN {Leaf(e, LargePages)} ELSE Below1(t, e.addr)
Below2(t, p) == UNION {Leaf2(t, t[p][j]) : j \in 1..TableSize}
Leaf3(t, e) == IF e = Zero THEN {} ELSE Below2(t, e.addr)
Below3(t, p) == UNION {Leaf3(t, t[p][j]) : j \in 1..TableSize}
Leaf4(t, e) == IF e = Zero THEN {} ELSE Below3(t, e.addr)

\* The same, for the entry at the top of n frames.
LeafAt(t, n, e) == CASE n = 1 -> Leaf4(t, e) [] n = 2 -> Leaf3(t, e) [] n = 3 -> Leaf2(t, e) [] OTHER -> Leaf1(e)
LeavesBehind(t, n, f) == UNION {LeafAt(t, n, t[f.page][j]) : j \in 1..(f.idx - 1)}
LeavesDone(t, s) == UNION {LeavesBehind(t, n, s[n]) : n \in 1..Len(s)}

\* A call of CheckPtEntry, with the whole entry.
Mark(loc, l) == [loc |-> loc, entry |-> l.entry, size |-> l.size]
CallOf(d) == [loc |-> d.loc, addr |-> d.entry.addr, size |-> d.size]
Sought(m, x) == {Mark(LocationAt(m, x), l) : l \in LeavesAt(m, x)}

\* The contexts before <<u, b, c>>.
Passed(m, u, b, c) ==
  {x \in Walked(m) : x[1] < u \/ (x[1] = u /\ (x[2] < b \/ (x[2] = b /\ x[3] < c)))}

\* All that was sought so far.
Marks(m, u, b, c, s) ==
  (UNION {Sought(m, x) : x \in Passed(m, u, b, c)})
  \cup {Mark(LocationAt(m, <<u, b, c>>), l) : l \in LeavesDone(m.tables, s)}

(***************************************************************************)
(* The inductive invariant.                                                *)
(***************************************************************************)
MapsInv ==
  /\ IsList(maps) /\ Distinct(maps) /\ Range(maps) \subseteq Range(machine.maps) \cup {Probe}
  /\ phase # "probe" => Probe \notin Range(maps)
  /\ kept \subseteq Range(maps)

PagesAt(m, n) == CASE n = 1 -> Pages4(m) [] n = 2 -> Pages3(m) [] n = 3 -> Pages2(m) [] OTHER -> Pages1(m)

AllPages(m) == Pages4(m) \cup Pages3(m) \cup Pages2(m) \cup Pages1(m)
Frames(m) == [page : AllPages(m), idx : Nat]

\* The frames of a walk: each is at an entry that leads to the next one.
FrameInv(m, n, f) == f.page \in PagesAt(m, n) /\ f.idx \in 1..(TableSize + 1)
LinkInv(m, n, f, g) ==
  LET e == m.tables[f.page][f.idx]
  IN f.idx <= TableSize /\ e # Zero /\ g.page = e.addr /\ (n = 3 => ~e.large)
FramesInv(m, s) ==
  /\ s \in Seq(Frames(m)) /\ Len(s) \in 1..4
  /\ \A n \in 1..Len(s) : FrameInv(m, n, s[n])
  /\ \A n \in 1..(Len(s) - 1) : LinkInv(m, n, s[n], s[n + 1])

PlaceInv ==
  /\ unit \in 1..(Len(machine.units) + 1) /\ bus \in Nat /\ ctx \in Nat
  /\ ctx # 0 => unit <= Len(machine.units) /\ bus < Len(Unit.buses)
  /\ phase \in {"paging", "lookup"} =>
       /\ <<unit, bus, ctx>> \in Walked(machine)
       /\ FramesInv(machine, levels) /\ levels[1].page = ContextAt(machine, <<unit, bus, ctx>>).page
  /\ phase \notin {"paging", "lookup"} => levels = <<>>

Now == Marks(machine, unit, bus, ctx, levels)

\* Page k of an entry is among the errors.
Shown(es, loc, e, size, k) == \E x \in es : x.loc = loc /\ x.addr = e.addr + k /\ x.size = size
AllShown(m, es, loc, e, size, n) == Unknown(m, loc, e) => \A k \in 0..(n - 1) : Shown(es, loc, e, size, k)

ErrorsInv ==
  /\ mHasError = \E e \in errors : e.size = 1
  /\ NoFalseAlarm

ChecksInv ==
  /\ IsList(checked) /\ Range(checked) = {CallOf(d) : d \in Now}
  /\ \A d \in Now : AllShown(machine, errors, d.loc, d.entry, d.size, d.size)

\* A lookup has passed the mappings behind the cursor that are still there,
\* and at the head all of them.
Looked(ms, ks, c, loc, addr, access) ==
  /\ c = NoMap => \A m \in ks : ~MapCovers(m, loc, addr, access)
  /\ \A i, j \in 1..Len(ms) : ms[j] = c /\ j < i /\ ms[i] \in ks => ~MapCovers(ms[i], loc, addr, access)

\* The lookup is for a page of a leaf that no record explains, and the pages
\* before it are done.
AtLeaf == Top.idx <= TableSize /\ Entry # Zero /\ IsLeaf
NoRecord(m, loc, e) ==
  Access(e) # <<FALSE, FALSE>> /\ loc \notin Range(m.exceptions) /\ \A r \in Range(m.rmrr) : r.loc # loc
Asking ==
  /\ AtLeaf /\ index \in 0..(Size - 1) /\ NoRecord(machine, Location, Entry)
  /\ Looked(maps, kept, cursor, Location, Page, Access(Entry))
  /\ AllShown(machine, errors, Location, Entry, Size, index)
LookInv == phase = "lookup" => Asking

EndInv ==
  phase \in {"PASS", "FAIL"} => unit = Len(machine.units) + 1 /\ mHasError = (phase = "FAIL")

VtdInv ==
  phase # "undefined" =>
    /\ machine \in Machines /\ mHasError \in BOOLEAN
    /\ MapsInv /\ PlaceInv /\ ErrorsInv /\ ChecksInv /\ LookInv /\ EndInv

-----------------------------------------------------------------------------
(***************************************************************************)
(* Leaves.                                                                 *)
(***************************************************************************)
(* The entries of some pages, entry by entry.                              *)
LEMMA EntriesAre ==
  ASSUME NEW t, NEW S, \A p \in S : t[p] \in [1..TableSize -> Entries]
  PROVE  \A e : e \in EntriesOf(t, S) <=> e # Zero /\ \E p \in S : \E j \in 1..TableSize : e = t[p][j]
<1>1. \A p \in S : Range(t[p]) = {t[p][j] : j \in 1..TableSize}
  BY DEF Range
<1> QED
  BY <1>1 DEF EntriesOf

(* The entries of the pages that some entries lead to.                     *)
LEMMA EntriesFrom ==
  ASSUME NEW t, NEW S, \A q \in Pages(S) : t[q] \in [1..TableSize -> Entries]
  PROVE  \A e : e \in EntriesOf(t, Pages(S)) <=> e # Zero /\ \E f \in S : \E j \in 1..TableSize : e = t[f.addr][j]
<1>1. \A e : e \in EntriesOf(t, Pages(S)) <=> e # Zero /\ \E q \in Pages(S) : \E j \in 1..TableSize : e = t[q][j]
  BY EntriesAre
<1>2. \A f \in S : f.addr \in Pages(S)
  BY DEF Pages
<1>3. \A q \in Pages(S) : \E f \in S : q = f.addr
  BY DEF Pages
<1>4. ASSUME NEW e
      PROVE  (\E q \in Pages(S) : \E j \in 1..TableSize : e = t[q][j]) <=> \E f \in S : \E j \in 1..TableSize : e = t[f.addr][j]
  <2>1. ASSUME NEW q \in Pages(S), NEW j \in 1..TableSize, e = t[q][j] PROVE \E f \in S : \E i \in 1..TableSize : e = t[f.addr][i]
    <3>1. PICK f \in S : q = f.addr
      BY <1>3
    <3> QED
      BY <2>1, <3>1
  <2>2. ASSUME NEW f \in S, NEW j \in 1..TableSize, e = t[f.addr][j] PROVE \E q \in Pages(S) : \E i \in 1..TableSize : e = t[q][i]
    BY <1>2, <2>2
  <2> QED
    BY <2>1, <2>2
<1> QED
  BY <1>1, <1>4

(* A machine has the form that is assumed of it, and its pages are tables. *)
LEMMA MachineFacts ==
  ASSUME NEW m \in Machines
  PROVE  /\ \A p \in AllPages(m) : m.tables[p] \in [1..TableSize -> Entries]
         /\ IsList(m.units) /\ (\A u \in 1..Len(m.units) : m.units[u].ext \in BOOLEAN /\ IsList(m.units[u].buses))
         /\ \A x \in Places(m) : RootForm(RootAt(m, x))
         /\ \A x \in Translating(m) : ContextAt(m, x).page \in Pages4(m)
         /\ IsList(m.maps) /\ Distinct(m.maps) /\ Probe \notin Range(m.maps) /\ NoMap \notin Range(m.maps)
         /\ \A i \in Range(m.maps) : {i.addr, i.pages} \subseteq Nat
         /\ \A r \in Range(m.rmrr) : {r.base, r.pages} \subseteq Nat
<1>1. MachineForm(m)
  BY MachinesAssumption
<1>2. \A p \in AllPages(m) : m.tables[p] \in [1..TableSize -> Entries]
  BY <1>1 DEF MachineForm, TablesForm, AllPages
<1>3. IsList(m.units) /\ \A u \in 1..Len(m.units) : m.units[u] \in Units(m)
  BY <1>1 DEF MachineForm, IsList, Units, Range
<1>4. \A u \in 1..Len(m.units) : m.units[u].ext \in BOOLEAN /\ IsList(m.units[u].buses)
  BY <1>1, <1>3 DEF MachineForm
<1>5. ASSUME NEW x \in Places(m)
      PROVE  /\ x[1] \in 1..Len(m.units) /\ x[2] + 1 \in 1..Len(m.units[x[1]].buses) /\ x[3] + 1 \in 1..ContextSize
             /\ RootAt(m, x) \in Buses(m)
  <2>1. PICK u \in 1..Len(m.units) : x \in {u} \X (0..(Len(m.units[u].buses) - 1)) \X (0..(ContextSize - 1))
    BY <1>5 DEF Places
  <2>2. Len(m.units[u].buses) \in Nat /\ DOMAIN m.units[u].buses = 1..Len(m.units[u].buses)
    BY <1>4 DEF IsList
  <2>3. x[1] = u /\ x[2] + 1 \in 1..Len(m.units[u].buses) /\ x[3] + 1 \in 1..ContextSize
    <3>1. PICK b \in 0..(Len(m.units[u].buses) - 1), c \in 0..(ContextSize - 1) : x = <<u, b, c>>
      BY <2>1
    <3>2. b + 1 \in 1..Len(m.units[u].buses)
      BY <2>2
    <3>3. c + 1 \in 1..ContextSize
      BY SizesAssumption
    <3> QED
      BY <3>1, <3>2, <3>3
  <2>4. m.units[u].buses[x[2] + 1] \in Range(m.units[u].buses)
    BY <2>2, <2>3 DEF Range
  <2> QED
    BY <1>3, <2>3, <2>4 DEF RootAt, Buses
<1>6. \A x \in Places(m) : RootForm(RootAt(m, x))
  BY <1>1, <1>5 DEF MachineForm
<1>7. ASSUME NEW x \in Translating(m) PROVE ContextAt(m, x).page \in Pages4(m)
  <2>1. x \in Places(m) /\ ContextAt(m, x).present
    BY DEF Translating
  <2>2. ContextAt(m, x) \in Range(RootAt(m, x).contexts)
    BY <2>1, <1>5, <1>6 DEF ContextAt, RootForm, Range
  <2>3. ContextAt(m, x) \in Contexts4(m)
    BY <1>5, <2>1, <2>2 DEF Contexts4
  <2> QED
    BY <2>3 DEF Pages4
<1> QED
  BY <1>1, <1>2, <1>3, <1>4, <1>6, <1>7 DEF MachineForm

(* The form of a context, and of what is known of one that is walked.      *)
LEMMA WalkedIs ==
  ASSUME NEW m \in Machines, NEW x
  PROVE  x \in Walked(m) <=>
           /\ x = <<x[1], x[2], x[3]>>
           /\ x[1] \in 1..Len(m.units) /\ x[2] \in 0..(Len(m.units[x[1]].buses) - 1) /\ x[3] \in 0..(ContextSize - 1)
           /\ ~IsUpper(m, x) /\ RootAt(m, x).lower /\ ContextAt(m, x).present
<1>1. x \in Places(m) <=>
        /\ x = <<x[1], x[2], x[3]>>
        /\ x[1] \in 1..Len(m.units) /\ x[2] \in 0..(Len(m.units[x[1]].buses) - 1) /\ x[3] \in 0..(ContextSize - 1)
  BY DEF Places
<1>2. x \in Walked(m) <=> x \in Places(m) /\ ~IsUpper(m, x) /\ RootAt(m, x).lower /\ ContextAt(m, x).present
  BY DEF Walked, Translating
<1> QED
  BY <1>1, <1>2, Zenon

(* The leaves below the page of a context, entry by entry.                 *)
LEMMA LeavesAre ==
  ASSUME NEW m \in Machines, NEW p \in Pages4(m)
  PROVE  Leaves(m.tables, p) = UNION {Leaf4(m.tables, m.tables[p][j]) : j \in 1..TableSize}
<1> DEFINE t == m.tables
           l4 == EntriesOf(t, {p})
           l3 == EntriesOf(t, Pages(l4))
           l2 == EntriesOf(t, Pages(l3))
           l1 == EntriesOf(t, Pages({e \in l2 : ~e.large}))
<1>1. l4 \subseteq EntriesOf(t, Pages4(m)) /\ Pages(l4) \subseteq Pages3(m)
  BY DEF EntriesOf, Pages, Pages3
<1>2. l3 \subseteq EntriesOf(t, Pages3(m)) /\ Pages(l3) \subseteq Pages2(m)
  BY <1>1 DEF EntriesOf, Pages, Pages2
<1>3. l2 \subseteq EntriesOf(t, Pages2(m)) /\ Pages({e \in l2 : ~e.large}) \subseteq Pages1(m)
  BY <1>2 DEF EntriesOf, Pages, Pages1
<1> DEFINE Held(S) == \A q \in S : t[q] \in [1..TableSize -> Entries]
<1>4. Held({p}) /\ Held(Pages(l4)) /\ Held(Pages(l3)) /\ Held(Pages({e \in l2 : ~e.large}))
  BY <1>1, <1>2, <1>3, MachineFacts DEF AllPages
<1>5. \A e : e \in l4 <=> e # Zero /\ \E j \in 1..TableSize : e = t[p][j]
  BY <1>4, EntriesAre
<1>6. \A e : e \in l3 <=> e # Zero /\ \E f \in l4 : \E j \in 1..TableSize : e = t[f.addr][j]
  <2> HIDE DEF l4
  <2> QED BY <1>4, EntriesFrom
<1>7. \A e : e \in l2 <=> e # Zero /\ \E f \in l3 : \E j \in 1..TableSize : e = t[f.addr][j]
  <2> HIDE DEF l3
  <2> QED BY <1>4, EntriesFrom
<1>8. \A e : e \in l1 <=> e # Zero /\ \E f \in l2 : ~f.large /\ \E j \in 1..TableSize : e = t[f.addr][j]
  <2> DEFINE small == {e \in l2 : ~e.large}
  <2>1. \A e : e \in EntriesOf(t, Pages(small)) <=> e # Zero /\ \E f \in small : \E j \in 1..TableSize : e = t[f.addr][j]
    <3> HIDE DEF l2, small
    <3> QED BY <1>4, EntriesFrom DEF small
  <2> HIDE DEF l2
  <2> QED BY <2>1, Zenon
<1>9. Leaves(t, p) = {Leaf(e, 1) : e \in l1} \cup {Leaf(e, LargePages) : e \in {e \in l2 : e.large}}
  BY DEF Leaves, Leaf
<1> HIDE DEF t, l4, l3, l2, l1
<1>10. \A l, q : l \in Below1(t, q) <=> \E j \in 1..TableSize : t[q][j] # Zero /\ l = Leaf(t[q][j], 1)
  BY DEF Below1, Leaf1
<1>11. \A l, e : l \in Leaf2(t, e) <=> e # Zero /\ (IF e.large THEN l = Leaf(e, LargePages) ELSE l \in Below1(t, e.addr))
  BY DEF Leaf2
<1>12. \A l, e : l \in Leaf3(t, e) <=> e # Zero /\ \E j \in 1..TableSize : l \in Leaf2(t, t[e.addr][j])
  BY DEF Leaf3, Below2
<1>13. \A l, e : l \in Leaf4(t, e) <=> e # Zero /\ \E j \in 1..TableSize : l \in Leaf3(t, t[e.addr][j])
  BY DEF Leaf4, Below3
<1>14. \A l : l \in Leaves(t, p) <=> \E e \in l2 : l \in Leaf2(t, e)
  <2>1. \A l : l \in {Leaf(e, 1) : e \in l1} <=> \E f \in l2 : ~f.large /\ l \in Below1(t, f.addr)
    BY <1>8, <1>10
  <2>2. \A e \in l2 : e # Zero
    BY <1>7
  <2> QED
    BY <1>9, <1>11, <2>1, <2>2
<1>15. \A l : (\E e \in l2 : l \in Leaf2(t, e)) <=> \E e \in l3 : l \in Leaf3(t, e)
  BY <1>6, <1>7, <1>11, <1>12
<1>16. \A l : (\E e \in l3 : l \in Leaf3(t, e)) <=> \E e \in l4 : l \in Leaf4(t, e)
  BY <1>5, <1>6, <1>12, <1>13
<1>17. \A l : (\E e \in l4 : l \in Leaf4(t, e)) <=> \E j \in 1..TableSize : l \in Leaf4(t, t[p][j])
  BY <1>5, <1>13
<1>18. Leaves(t, p) = UNION {Leaf4(t, t[p][j]) : j \in 1..TableSize}
  BY <1>14, <1>15, <1>16, <1>17
<1> QED
  BY <1>18 DEF t

(* An entry that leads to a page has the leaves of that page, one level on. *)
LEMMA LeafBelow ==
  ASSUME NEW t, NEW n \in 1..3, NEW e, e # Zero, n = 3 => ~e.large
  PROVE  LeafAt(t, n, e) = UNION {LeafAt(t, n + 1, t[e.addr][j]) : j \in 1..TableSize}
<1>1. CASE n = 1
  BY <1>1 DEF LeafAt, Leaf4, Below3
<1>2. CASE n = 2
  BY <1>2 DEF LeafAt, Leaf3, Below2
<1>3. CASE n = 3
  BY <1>3 DEF LeafAt, Leaf2, Below1
<1> QED
  BY <1>1, <1>2, <1>3

-----------------------------------------------------------------------------
(***************************************************************************)
(* The leaves behind the frames of a walk.                                 *)
(***************************************************************************)
(* One step of the innermost loop.                                         *)
LEMMA AdvanceIs ==
  ASSUME NEW P, NEW s \in Seq([page : P, idx : Nat]), Len(s) # 0
  PROVE  /\ Advance(s) \in Seq([page : P, idx : Nat]) /\ Len(Advance(s)) = Len(s)
         /\ \A n \in 1..(Len(s) - 1) : Advance(s)[n] = s[n]
         /\ Advance(s)[Len(s)].page = s[Len(s)].page /\ Advance(s)[Len(s)].idx = s[Len(s)].idx + 1
<1> DEFINE F == [page : P, idx : Nat]  n == Len(s)
<1>0. n \in Nat /\ n \in 1..Len(s)
  BY LenProperties
<1>1. n \in 1..Len(s) /\ s[n] \in F
  BY <1>0, ElementOfSeq
<1> DEFINE f == [s[n] EXCEPT !.idx = @ + 1]
<1>2. f \in F /\ f.page = s[n].page /\ f.idx = s[n].idx + 1
  BY <1>1
<1>3. Advance(s) = [s EXCEPT ![n] = f]
  BY <1>1 DEF Advance
<1> HIDE DEF f, F
<1>4. [s EXCEPT ![n] = f] \in Seq(F) /\ Len([s EXCEPT ![n] = f]) = Len(s) /\ [s EXCEPT ![n] = f][n] = f
      /\ \A i \in 1..(Len(s) - 1) : [s EXCEPT ![n] = f][i] = s[i]
  BY <1>1, <1>2, ExceptSeq DEF F
<1> QED
  BY <1>2, <1>3, <1>4 DEF F

(* It puts the leaves of the entry behind.                                 *)
LEMMA DoneAdvance ==
  ASSUME NEW t, NEW P, NEW s \in Seq([page : P, idx : Nat]), Len(s) # 0, s[Len(s)].idx # 0
  PROVE  LeavesDone(t, Advance(s)) = LeavesDone(t, s) \cup LeafAt(t, Len(s), t[s[Len(s)].page][s[Len(s)].idx])
<1> DEFINE n == Len(s)  a == Advance(s)
<1>1. /\ Len(a) = n /\ \A i \in 1..(n - 1) : a[i] = s[i]
      /\ a[n].page = s[n].page /\ a[n].idx = s[n].idx + 1
  BY AdvanceIs
<1>2. n \in Nat /\ n # 0 /\ s[n].idx \in Nat /\ s[n].idx # 0
  <2> DEFINE F == [page : P, idx : Nat]
  <2> HIDE DEF F
  <2>1. n \in Nat /\ n \in 1..Len(s) /\ s \in Seq(F)
    BY LenProperties DEF F
  <2>2. s[n] \in F
    BY <2>1, ElementOfSeq
  <2> QED
    BY <2>1, <2>2 DEF F
<1> HIDE DEF a, n
<1>3. LeavesBehind(t, n, a[n]) = LeavesBehind(t, n, s[n]) \cup LeafAt(t, n, t[s[n].page][s[n].idx])
  <2>1. 1..(a[n].idx - 1) = 1..(s[n].idx - 1) \cup {s[n].idx}
    BY <1>1, <1>2
  <2> QED
    BY <1>1, <2>1 DEF LeavesBehind
<1>4. LeavesDone(t, a) = UNION {LeavesBehind(t, i, a[i]) : i \in 1..n}
  BY <1>1 DEF LeavesDone
<1>5. LeavesDone(t, s) = UNION {LeavesBehind(t, i, s[i]) : i \in 1..n}
  BY DEF LeavesDone, n
<1>6. 1..n = 1..(n - 1) \cup {n}
  BY <1>2
<1> DEFINE rest == UNION {LeavesBehind(t, i, s[i]) : i \in 1..(n - 1)}
<1>7. UNION {LeavesBehind(t, i, a[i]) : i \in 1..n} = rest \cup LeavesBehind(t, n, a[n])
  BY <1>1, <1>6
<1>8. UNION {LeavesBehind(t, i, s[i]) : i \in 1..n} = rest \cup LeavesBehind(t, n, s[n])
  BY <1>6
<1> HIDE DEF rest
<1>9. LeavesDone(t, a) = LeavesDone(t, s) \cup LeafAt(t, n, t[s[n].page][s[n].idx])
  BY <1>3, <1>4, <1>5, <1>7, <1>8
<1> QED
  BY <1>9 DEF a, n

(* A frame for the next level has nothing behind it.                       *)
LEMMA DonePush ==
  ASSUME NEW t, NEW P, NEW s \in Seq([page : P, idx : Nat]), NEW p \in P
  PROVE  LeavesDone(t, Append(s, [page |-> p, idx |-> 1])) = LeavesDone(t, s)
<1> DEFINE f == [page |-> p, idx |-> 1]  a == Append(s, f)
<1>1. Len(a) = Len(s) + 1 /\ a[Len(s) + 1] = f /\ \A i \in 1..Len(s) : a[i] = s[i]
  BY AppendProperties
<1>2. LeavesBehind(t, Len(s) + 1, f) = {}
  BY DEF LeavesBehind
<1> HIDE DEF a, f
<1>3. 1..Len(a) = 1..Len(s) \cup {Len(s) + 1}
  BY <1>1, LenProperties
<1>4. LeavesDone(t, a) = LeavesDone(t, s) \cup LeavesBehind(t, Len(s) + 1, f)
  BY <1>1, <1>3 DEF LeavesDone
<1> QED
  BY <1>2, <1>4 DEF a, f

(* The end of a table puts the entry that led to it behind.                *)
LEMMA DonePop ==
  ASSUME NEW m, NEW P, NEW s \in Seq([page : P, idx : Nat]), Len(s) \in 2..4, s[Len(s)].idx = TableSize + 1,
         s[Len(s) - 1].idx # 0, LinkInv(m, Len(s) - 1, s[Len(s) - 1], s[Len(s)])
  PROVE  LeavesDone(m.tables, Advance(SubSeq(s, 1, Len(s) - 1))) = LeavesDone(m.tables, s)
<1> DEFINE n == Len(s)  t == m.tables  r == SubSeq(s, 1, n - 1)  e == t[s[n - 1].page][s[n - 1].idx]
<1>2. n \in 2..4 /\ n - 1 \in 1..3 /\ n - 1 # 0 /\ n \in Nat
  <2> HIDE DEF n
  <2>1. n \in 2..4
    BY DEF n
  <2> QED
    BY <2>1
<1>1. r \in Seq([page : P, idx : Nat]) /\ Len(r) = n - 1 /\ \A i \in 1..(n - 1) : r[i] = s[i]
  <2> DEFINE F == [page : P, idx : Nat]
  <2> HIDE DEF F
  <2>2. s \in Seq(F)
    BY DEF F
  <2>1. \A i \in 1..(n - 1) : s[i] \in F
    <3> SUFFICES ASSUME NEW i \in 1..(n - 1) PROVE s[i] \in F
      OBVIOUS
    <3>1. i \in 1..Len(s)
      <4> HIDE DEF n
      <4>1. i \in 1..n
        BY <1>2
      <4> QED
        BY <4>1 DEF n
    <3> QED
      BY <2>2, <3>1, ElementOfSeq
  <2>3. r \in Seq(F) /\ Len(r) = n - 1 /\ \A i \in 1..(n - 1) : r[i] = s[i]
    <3>1. 1 <= (n - 1) + 1 /\ n - 1 <= Len(s) /\ n - 1 \in Int /\ n - 1 - 1 + 1 = n - 1
      <4> HIDE DEF n
      <4>1. n - 1 <= n /\ 1 <= (n - 1) + 1 /\ n - 1 \in Int /\ n - 1 - 1 + 1 = n - 1
        BY <1>2
      <4> QED
        BY <4>1 DEF n
    <3> QED
      BY <1>2, <2>1, <2>2, <3>1, SubSeqProperties
  <2> QED
    BY <2>3 DEF F
<1>3. LeavesDone(t, Advance(r)) = LeavesDone(t, r) \cup LeafAt(t, n - 1, e)
  <2> HIDE DEF r, t, n
  <2>1. r[n - 1] = s[n - 1] /\ Len(r) # 0 /\ r[Len(r)].idx # 0
    BY <1>1, <1>2 DEF n
  <2>2. LeavesDone(t, Advance(r)) = LeavesDone(t, r) \cup LeafAt(t, Len(r), t[r[Len(r)].page][r[Len(r)].idx])
    BY <1>1, <2>1, DoneAdvance
  <2> QED
    BY <1>1, <2>1, <2>2
<1>4. e # Zero /\ s[n].page = e.addr /\ (n - 1 = 3 => ~e.large)
  BY DEF LinkInv
<1>5. LeafAt(t, n - 1, e) = UNION {LeafAt(t, n, t[e.addr][j]) : j \in 1..TableSize}
  <2> HIDE DEF e, n, t
  <2>1. LeafAt(t, n - 1, e) = UNION {LeafAt(t, (n - 1) + 1, t[e.addr][j]) : j \in 1..TableSize}
    BY <1>2, <1>4, LeafBelow
  <2>2. (n - 1) + 1 = n
    BY <1>2
  <2> QED
    BY <2>1, <2>2
<1>6. LeavesBehind(t, n, s[n]) = UNION {LeafAt(t, n, t[e.addr][j]) : j \in 1..TableSize}
  <2>1. s[n].idx - 1 = TableSize
    BY SizesAssumption
  <2> QED
    BY <1>4, <2>1 DEF LeavesBehind
<1>7. LeavesDone(t, s) = LeavesDone(t, r) \cup LeavesBehind(t, n, s[n])
  <2>1. 1..n = 1..(n - 1) \cup {n}
    <3> HIDE DEF n
    <3> QED BY <1>2
  <2>2. LeavesDone(t, s) = UNION {LeavesBehind(t, i, s[i]) : i \in 1..n}
    BY DEF LeavesDone
  <2>3. LeavesDone(t, r) = UNION {LeavesBehind(t, i, s[i]) : i \in 1..(n - 1)}
    BY <1>1 DEF LeavesDone
  <2> HIDE DEF n, r, t
  <2> QED BY <2>1, <2>2, <2>3
<1> HIDE DEF n, t, r, e
<1>8. LeavesDone(t, Advance(r)) = LeavesDone(t, s)
  BY <1>3, <1>5, <1>6, <1>7
<1> QED
  BY <1>8 DEF n, t, r

-----------------------------------------------------------------------------
(***************************************************************************)
(* Lists.                                                                  *)
(***************************************************************************)
(* Where an element stands after another one was removed.                  *)
LEMMA RemovedIs ==
  ASSUME NEW S, NEW s \in Seq(S), NEW k \in 1..Len(s)
  PROVE /\ RemoveAt(s, k) \in Seq(S)
        /\ Len(RemoveAt(s, k)) = Len(s) - 1
        /\ \A i \in 1..Len(s) - 1 : RemoveAt(s, k)[i] = IF i < k THEN s[i] ELSE s[i + 1]
<1> DEFINE a == SubSeq(s, 1, k - 1)  b == SubSeq(s, k + 1, Len(s))
<1>1. a \in Seq(S) /\ Len(a) = k - 1 /\ \A i \in 1..k - 1 : a[i] = s[i]
  BY SubSeqProperties
<1>2. b \in Seq(S) /\ Len(b) = Len(s) - k /\ \A i \in 1..Len(s) - k : b[i] = s[k + i]
  BY SubSeqProperties
<1>3. RemoveAt(s, k) = a \o b
  BY DEF RemoveAt
<1> HIDE DEF a, b
<1>4. /\ a \o b \in Seq(S) /\ Len(a \o b) = Len(a) + Len(b)
      /\ \A i \in 1..Len(a) + Len(b) : (a \o b)[i] = IF i <= Len(a) THEN a[i] ELSE b[i - Len(a)]
  BY <1>1, <1>2, ConcatProperties, Zenon
<1>5. Len(a) + Len(b) = Len(s) - 1
  BY <1>1, <1>2
<1>6. ASSUME NEW i \in 1..Len(s) - 1
      PROVE  (a \o b)[i] = IF i < k THEN s[i] ELSE s[i + 1]
  BY <1>1, <1>2, <1>4, <1>5
<1> QED
  BY <1>3, <1>4, <1>5, <1>6

(* What a list without one of its elements holds.                          *)
LEMMA ListRemoved ==
  ASSUME NEW s, NEW e, IsList(s), Distinct(s)
  PROVE  /\ IsList(RemoveFirst(s, e)) /\ Distinct(RemoveFirst(s, e))
         /\ Range(RemoveFirst(s, e)) = Range(s) \ {e}
<1> DEFINE S == Range(s)
<1>0. s \in Seq(S) /\ Len(s) \in Nat /\ DOMAIN s = 1..Len(s) /\ S = {s[i] : i \in 1..Len(s)}
  BY LenProperties DEF IsList, Range
<1>1. CASE e \in S
  <2>1. PICK k \in 1..Len(s) : s[k] = e
    BY <1>0, <1>1
  <2>2. {i \in 1..Len(s) : s[i] = e} = {k}
    BY <2>1 DEF Distinct
  <2>3. SelectInSeq(s, LAMBDA v : v = e) = k
    BY <1>0, <2>2 DEF SelectInSeq, Min
  <2>4. RemoveFirst(s, e) = RemoveAt(s, k)
    BY <2>1, <2>3 DEF RemoveFirst
  <2> DEFINE r == RemoveAt(s, k)
  <2>a. \A i \in 1..Len(s) : s[i] \in S
    BY <1>0
  <2> HIDE DEF S
  <2>7. r \in Seq(S) /\ Len(r) = Len(s) - 1 /\ \A i \in 1..Len(s) - 1 : r[i] = IF i < k THEN s[i] ELSE s[i + 1]
    BY <1>0, <2>1, RemovedIs
  <2>8. Len(r) = Len(s) - 1 /\ DOMAIN r = 1..(Len(s) - 1)
    BY <2>7, LenProperties
  <2>9. \A i \in 1..Len(s) - 1 : r[i] = IF i < k THEN s[i] ELSE s[i + 1]
    BY <2>7
  <2>10. RemoveAt(s, k) = r
    OBVIOUS
  <2> HIDE DEF r
  <2>11. \A i, j \in 1..Len(r) : r[i] = r[j] => i = j
    <3> SUFFICES ASSUME NEW i \in 1..Len(r), NEW j \in 1..Len(r), r[i] = r[j] PROVE i = j
      OBVIOUS
    <3> DEFINE up(x) == IF x < k THEN x ELSE x + 1
    <3>0. Len(s) \in Nat /\ i \in 1..Len(s) - 1 /\ j \in 1..Len(s) - 1
      BY <1>0, <2>8, LenProperties
    <3>1. up(i) \in 1..Len(s) /\ up(j) \in 1..Len(s) /\ r[i] = s[up(i)] /\ r[j] = s[up(j)]
      <4>1. up(i) \in 1..Len(s) /\ up(j) \in 1..Len(s)
        BY <3>0, <2>1
      <4>2. r[i] = s[up(i)] /\ r[j] = s[up(j)]
        BY <3>0, <2>9
      <4> QED
        BY <4>1, <4>2
    <3>2. up(i) = up(j)
      <4> HIDE DEF up
      <4> QED BY <3>1 DEF Distinct
    <3> QED
      <4>1. i \in Int /\ j \in Int /\ k \in Int
        BY <2>1, <3>0
      <4> QED
        BY <3>2, <4>1
  <2>12. Range(r) = {r[i] : i \in 1..Len(r)}
    BY <2>8 DEF Range
  <2>13. \A x \in Range(r) : x \in S /\ x # e
    <3> SUFFICES ASSUME NEW i \in 1..Len(r) PROVE r[i] \in S /\ r[i] # e
      BY <2>12
    <3>1. CASE i < k
      BY <1>0, <2>1, <2>8, <2>9, <2>a, <3>1 DEF Distinct
    <3>2. CASE ~(i < k)
      <4>1. i + 1 \in 1..Len(s) /\ r[i] = s[i + 1] /\ i + 1 # k
        BY <1>0, <2>1, <2>8, <2>9, <3>2
      <4> QED
        BY <2>1, <2>a, <4>1 DEF Distinct
    <3> QED
      BY <3>1, <3>2
  <2>14. \A x \in S : x # e => x \in Range(r)
    <3> SUFFICES ASSUME NEW i \in 1..Len(s), s[i] # e PROVE s[i] \in Range(r)
      BY <1>0
    <3>1. CASE i < k
      BY <1>0, <2>1, <2>8, <2>9, <2>12, <3>1
    <3>2. CASE i > k
      <4>1. i - 1 \in 1..Len(r) /\ ~(i - 1 < k) /\ (i - 1) + 1 = i
        BY <1>0, <2>1, <2>8, <3>2
      <4>2. r[i - 1] = s[i]
        BY <2>8, <2>9, <4>1
      <4> QED
        BY <2>12, <4>1, <4>2
    <3> QED
      BY <2>1, <3>1, <3>2
  <2>15. Range(r) = S \ {e}
    BY <2>13, <2>14
  <2>16. r \in Seq(Range(r))
    BY <2>7, <2>8, <2>12, SeqDef
  <2> QED
    BY <2>4, <2>10, <2>11, <2>15, <2>16 DEF S, IsList, Distinct
<1>2. CASE e \notin S
  <2>1. RemoveFirst(s, e) = s
    BY <1>0, <1>2 DEF RemoveFirst
  <2> QED
    BY <1>2, <2>1
<1> QED
  BY <1>1, <1>2

(* A list without one of its elements keeps the order.                     *)
LEMMA RemovedOrder ==
  ASSUME NEW s, NEW e, IsList(s), Distinct(s),
         NEW i \in 1..Len(RemoveFirst(s, e)), NEW j \in 1..Len(RemoveFirst(s, e)), j < i
  PROVE  \E k, l \in 1..Len(s) : l < k /\ s[k] = RemoveFirst(s, e)[i] /\ s[l] = RemoveFirst(s, e)[j]
<1> DEFINE S == Range(s)
<1>0. s \in Seq(S) /\ Len(s) \in Nat /\ DOMAIN s = 1..Len(s) /\ S = {s[x] : x \in 1..Len(s)}
  BY LenProperties DEF IsList, Range
<1>1. CASE e \in S
  <2>1. PICK k \in 1..Len(s) : s[k] = e
    BY <1>0, <1>1
  <2>2. {x \in 1..Len(s) : s[x] = e} = {k}
    BY <2>1 DEF Distinct
  <2>3. SelectInSeq(s, LAMBDA v : v = e) = k
    BY <1>0, <2>2 DEF SelectInSeq, Min
  <2>4. RemoveFirst(s, e) = RemoveAt(s, k)
    BY <2>1, <2>3 DEF RemoveFirst
  <2> HIDE DEF S
  <2>5. Len(RemoveAt(s, k)) = Len(s) - 1 /\ \A x \in 1..Len(s) - 1 : RemoveAt(s, k)[x] = IF x < k THEN s[x] ELSE s[x + 1]
    BY <1>0, <2>1, RemovedIs
  <2> DEFINE up(x) == IF x < k THEN x ELSE x + 1
  <2>6. i \in 1..(Len(s) - 1) /\ j \in 1..(Len(s) - 1)
    BY <2>4, <2>5
  <2>7. up(i) \in 1..Len(s) /\ up(j) \in 1..Len(s) /\ up(j) < up(i)
    BY <1>0, <2>1, <2>6
  <2>8. RemoveAt(s, k)[i] = s[up(i)] /\ RemoveAt(s, k)[j] = s[up(j)]
    BY <2>5, <2>6
  <2> HIDE DEF up
  <2> QED
    BY <2>4, <2>7, <2>8
<1>2. CASE e \notin S
  <2>1. RemoveFirst(s, e) = s
    BY <1>0, <1>2 DEF RemoveFirst
  <2> QED
    BY <2>1
<1> QED
  BY <1>1, <1>2

(* What a list holds after an element was added.                           *)
LEMMA ListAdded ==
  ASSUME NEW s, NEW e, IsList(s)
  PROVE  /\ IsList(Append(s, e)) /\ Range(Append(s, e)) = Range(s) \cup {e}
         /\ e \notin Range(s) /\ Distinct(s) => Distinct(Append(s, e))
<1> DEFINE a == Append(s, e)  T == Range(s) \cup {e}
<1>1. s \in Seq(Range(s)) /\ Len(s) \in Nat /\ DOMAIN s = 1..Len(s) /\ Range(s) = {s[i] : i \in 1..Len(s)}
  BY LenProperties DEF IsList, Range
<1>2. s \in Seq(T)
  <2> HIDE DEF T
  <2>1. \A i \in 1..Len(s) : s[i] \in T
    BY <1>1 DEF T
  <2> QED
    BY <1>1, <2>1, SeqDef
<1>3. a \in Seq(T) /\ Len(a) = Len(s) + 1 /\ a[Len(s) + 1] = e /\ \A i \in 1..Len(s) : a[i] = s[i]
  BY <1>2, AppendProperties
<1> HIDE DEF a
<1>4. DOMAIN a = 1..(Len(s) + 1) /\ 1..(Len(s) + 1) = 1..Len(s) \cup {Len(s) + 1}
  BY <1>1, <1>3, LenProperties
<1>5. Range(a) = T
  BY <1>1, <1>3, <1>4 DEF Range
<1>6. e \notin Range(s) /\ Distinct(s) => Distinct(a)
  BY <1>1, <1>3, <1>4 DEF Distinct
<1> QED
  BY <1>3, <1>5, <1>6 DEF a, IsList

-----------------------------------------------------------------------------
(***************************************************************************)
(* Contexts passed.                                                        *)
(***************************************************************************)
(* The places of contexts that are walked are numbers.                     *)
LEMMA WalkedNumbers ==
  ASSUME NEW m \in Machines, NEW x \in Walked(m)
  PROVE  /\ x = <<x[1], x[2], x[3]>> /\ x[1] \in Nat /\ x[2] \in Nat /\ x[3] \in Nat
         /\ x[1] \in 1..Len(m.units) /\ x[2] < Len(m.units[x[1]].buses) /\ x[3] < ContextSize
<1>1. /\ x = <<x[1], x[2], x[3]>>
      /\ x[1] \in 1..Len(m.units) /\ x[2] \in 0..(Len(m.units[x[1]].buses) - 1) /\ x[3] \in 0..(ContextSize - 1)
  BY WalkedIs
<1>2. Len(m.units) \in Nat /\ Len(m.units[x[1]].buses) \in Nat
  BY <1>1, MachineFacts, LenProperties DEF IsList
<1>3. x[1] \in Nat
  BY <1>1, <1>2
<1>4. x[2] \in Nat /\ x[2] < Len(m.units[x[1]].buses)
  BY <1>1, <1>2
<1>5. x[3] \in Nat /\ x[3] < ContextSize
  <2>1. ContextSize \in Nat
    BY SizesAssumption
  <2> QED
    BY <1>1, <2>1
<1> QED
  BY <1>1, <1>3, <1>4, <1>5

(* Behind the last bus of a unit is its end.                               *)
LEMMA PassedUnit ==
  ASSUME NEW m \in Machines, NEW u \in 1..Len(m.units), NEW b \in Nat, ~(b < Len(m.units[u].buses))
  PROVE  Passed(m, u + 1, 0, 0) = Passed(m, u, b, 0)
<1> SUFFICES ASSUME NEW x \in Walked(m)
             PROVE  (x[1] < u + 1 \/ (x[1] = u + 1 /\ (x[2] < 0 \/ (x[2] = 0 /\ x[3] < 0))))
                      <=> (x[1] < u \/ (x[1] = u /\ (x[2] < b \/ (x[2] = b /\ x[3] < 0))))
  BY DEF Passed
<1>1. x[1] \in Nat /\ x[2] \in Nat /\ x[3] \in Nat /\ x[1] \in 1..Len(m.units) /\ x[2] < Len(m.units[x[1]].buses)
  BY WalkedNumbers
<1>2. Len(m.units) \in Nat /\ Len(m.units[u].buses) \in Nat /\ u \in Nat
  BY MachineFacts, LenProperties DEF IsList
<1>3. x[1] = u => x[2] < b
  BY <1>1, <1>2
<1> QED
  BY <1>1, <1>2, <1>3

(* Behind the last context that is walked of a bus is its end.             *)
LEMMA PassedBus ==
  ASSUME NEW m \in Machines, NEW u \in Nat, NEW b \in Nat, NEW c \in Nat,
         \A x \in Walked(m) : x[1] = u /\ x[2] = b => x[3] < c
  PROVE  Passed(m, u, b + 1, 0) = Passed(m, u, b, c)
<1> SUFFICES ASSUME NEW x \in Walked(m)
             PROVE  (x[1] < u \/ (x[1] = u /\ (x[2] < b + 1 \/ (x[2] = b + 1 /\ x[3] < 0))))
                      <=> (x[1] < u \/ (x[1] = u /\ (x[2] < b \/ (x[2] = b /\ x[3] < c))))
  BY DEF Passed
<1>1. x[1] \in Nat /\ x[2] \in Nat /\ x[3] \in Nat
  BY WalkedNumbers
<1> QED
  BY <1>1

(* One context on.                                                         *)
LEMMA PassedContext ==
  ASSUME NEW m \in Machines, NEW u \in Nat, NEW b \in Nat, NEW c \in Nat
  PROVE  Passed(m, u, b, c + 1) = Passed(m, u, b, c) \cup (IF <<u, b, c>> \in Walked(m) THEN {<<u, b, c>>} ELSE {})
<1>1. ASSUME NEW x \in Walked(m)
      PROVE  (x[1] < u \/ (x[1] = u /\ (x[2] < b \/ (x[2] = b /\ x[3] < c + 1))))
               <=> (x[1] < u \/ (x[1] = u /\ (x[2] < b \/ (x[2] = b /\ x[3] < c)))) \/ x = <<u, b, c>>
  <2>1. x[1] \in Nat /\ x[2] \in Nat /\ x[3] \in Nat /\ x = <<x[1], x[2], x[3]>>
    BY WalkedNumbers
  <2>2. x = <<u, b, c>> <=> x[1] = u /\ x[2] = b /\ x[3] = c
    BY <2>1
  <2> HIDE <2>1
  <2>3. x[3] < c + 1 <=> x[3] < c \/ x[3] = c
    BY <2>1
  <2> QED
    BY <2>2, <2>3, Zenon
<1> QED
  BY <1>1 DEF Passed

-----------------------------------------------------------------------------
(***************************************************************************)
(* The frames of a walk.                                                   *)
(***************************************************************************)
(* An entry that is no leaf leads to a page of the next level.             *)
LEMMA NextPage ==
  ASSUME NEW m \in Machines, NEW n \in 1..3, NEW p \in PagesAt(m, n), NEW j \in 1..TableSize,
         m.tables[p][j] # Zero, n = 3 => ~m.tables[p][j].large
  PROVE  m.tables[p][j].addr \in PagesAt(m, n + 1)
<1> DEFINE t == m.tables  e == t[p][j]
<1>1. p \in AllPages(m)
  BY DEF PagesAt, AllPages
<1>2. t[p] \in [1..TableSize -> Entries]
  BY <1>1, MachineFacts
<1>3. e \in Range(t[p])
  BY <1>2 DEF Range
<1>4. \A S : p \in S => e \in EntriesOf(t, S)
  BY <1>3 DEF EntriesOf
<1>5. CASE n = 1
  BY <1>4, <1>5 DEF PagesAt, Pages3, Pages
<1>6. CASE n = 2
  BY <1>4, <1>6 DEF PagesAt, Pages2, Pages
<1>7. CASE n = 3
  BY <1>4, <1>7 DEF PagesAt, Pages1, Pages
<1> QED
  BY <1>5, <1>6, <1>7

(* The entry at the top of the frames is an entry of a page of its level.  *)
LEMMA TopIs ==
  ASSUME NEW m \in Machines, NEW s, FramesInv(m, s)
  PROVE  /\ s \in Seq(Frames(m)) /\ Len(s) \in 1..4 /\ Len(s) \in Nat /\ \A n \in 1..Len(s) : s[n] \in Frames(m)
         /\ s[Len(s)].page \in PagesAt(m, Len(s)) /\ s[Len(s)].idx \in 1..(TableSize + 1)
         /\ s[Len(s)].idx <= TableSize => m.tables[s[Len(s)].page][s[Len(s)].idx] \in Entries
<1>1. s \in Seq(Frames(m)) /\ Len(s) \in 1..4 /\ Len(s) \in Nat /\ \A n \in 1..Len(s) : FrameInv(m, n, s[n])
  BY DEF FramesInv
<1>2. Len(s) \in 1..Len(s) /\ \A n \in 1..Len(s) : s[n] \in Frames(m)
  BY <1>1, ElementOfSeq
<1>3. s[Len(s)].page \in PagesAt(m, Len(s)) /\ s[Len(s)].idx \in 1..(TableSize + 1)
  BY <1>1, <1>2 DEF FrameInv
<1>4. s[Len(s)].page \in AllPages(m)
  BY <1>3 DEF PagesAt, AllPages
<1>5. m.tables[s[Len(s)].page] \in [1..TableSize -> Entries]
  BY <1>4, MachineFacts
<1>6. s[Len(s)].idx <= TableSize => s[Len(s)].idx \in 1..TableSize
  BY <1>3, SizesAssumption
<1> QED
  BY <1>1, <1>2, <1>3, <1>5, <1>6

(* The frames after a step of the innermost loop.                          *)
LEMMA FramesAdvance ==
  ASSUME NEW m \in Machines, NEW s, FramesInv(m, s), s[Len(s)].idx <= TableSize
  PROVE  FramesInv(m, Advance(s)) /\ Advance(s)[1].page = s[1].page
<1> DEFINE a == Advance(s)  n == Len(s)
<1>1. s \in Seq(Frames(m)) /\ n \in 1..4 /\ n # 0 /\ n \in Nat /\ s[n].idx \in 1..(TableSize + 1)
  <2>1. s \in Seq(Frames(m)) /\ n \in 1..4 /\ n \in Nat /\ s[n].idx \in 1..(TableSize + 1)
    BY TopIs
  <2> HIDE DEF n
  <2> QED BY <2>1
<1>2. /\ a \in Seq(Frames(m)) /\ Len(a) = n /\ \A i \in 1..(n - 1) : a[i] = s[i]
      /\ a[n].page = s[n].page /\ a[n].idx = s[n].idx + 1
  BY <1>1, AdvanceIs DEF Frames
<1>3. /\ \A i \in 1..n : FrameInv(m, i, s[i])
      /\ \A i \in 1..(n - 1) : LinkInv(m, i, s[i], s[i + 1])
  BY DEF FramesInv
<1>4. s[n].idx + 1 \in 1..(TableSize + 1)
  BY <1>1, SizesAssumption
<1> HIDE DEF a, n
<1>5. FrameInv(m, n, a[n])
  BY <1>1, <1>2, <1>3, <1>4 DEF FrameInv
<1>6. \A i \in 1..n : i \in 1..(n - 1) \/ i = n
  BY <1>1
<1>7. \A i \in 1..n : FrameInv(m, i, a[i])
  BY <1>2, <1>3, <1>5, <1>6, <1>1
<1>8. ASSUME NEW i \in 1..(n - 1) PROVE LinkInv(m, i, a[i], a[i + 1])
  <2>1. LinkInv(m, i, s[i], s[i + 1])
    BY <1>3
  <2>2. a[i] = s[i] /\ i + 1 \in 1..n
    BY <1>1, <1>2
  <2>3. a[i + 1].page = s[i + 1].page
    BY <1>2, <1>6, <2>2
  <2> QED
    BY <2>1, <2>2, <2>3 DEF LinkInv
<1>9. a[1].page = s[1].page
  BY <1>1, <1>2, <1>6
<1> QED
  BY <1>1, <1>2, <1>7, <1>8, <1>9 DEF FramesInv, a, n

(* The frames after the entry at the top was followed.                     *)
LEMMA FramesPush ==
  ASSUME NEW m \in Machines, NEW s, FramesInv(m, s), Len(s) # 4, s[Len(s)].idx <= TableSize,
         NEW e, e = m.tables[s[Len(s)].page][s[Len(s)].idx], e # Zero, Len(s) = 3 => ~e.large
  PROVE  FramesInv(m, Append(s, [page |-> e.addr, idx |-> 1])) /\ Append(s, [page |-> e.addr, idx |-> 1])[1] = s[1]
<1> DEFINE f == [page |-> e.addr, idx |-> 1]  a == Append(s, f)  n == Len(s)
<1>1. s \in Seq(Frames(m)) /\ n \in 1..4 /\ n \in Nat /\ s[n].idx \in 1..(TableSize + 1) /\ s[n].page \in PagesAt(m, n)
  BY TopIs
<1>2. n \in 1..3 /\ s[n].idx \in 1..TableSize
  BY <1>1, SizesAssumption
<1>3. e.addr \in PagesAt(m, n + 1)
  <2> HIDE DEF n
  <2> QED BY <1>1, <1>2, NextPage DEF n
<1>4. f.page = e.addr /\ f.idx = 1 /\ f \in Frames(m)
  BY <1>3 DEF Frames, PagesAt, AllPages
<1>5. /\ \A i \in 1..n : FrameInv(m, i, s[i])
      /\ \A i \in 1..(n - 1) : LinkInv(m, i, s[i], s[i + 1])
  BY DEF FramesInv
<1> HIDE DEF f
<1>6. a \in Seq(Frames(m)) /\ Len(a) = n + 1 /\ a[n + 1] = f /\ \A i \in 1..n : a[i] = s[i]
  BY <1>1, <1>4, AppendProperties
<1>7. FrameInv(m, n + 1, f)
  BY <1>3, <1>4, SizesAssumption DEF FrameInv
<1>8. LinkInv(m, n, s[n], f)
  BY <1>2, <1>4 DEF LinkInv
<1> HIDE DEF a, n
<1>9. \A i \in 1..(n + 1) : i \in 1..n \/ i = n + 1
  BY <1>1
<1>10. \A i \in 1..(n + 1) : FrameInv(m, i, a[i])
  BY <1>5, <1>6, <1>7, <1>9
<1>11. ASSUME NEW i \in 1..n PROVE LinkInv(m, i, a[i], a[i + 1])
  <2>1. CASE i = n
    BY <1>6, <1>8, <2>1
  <2>2. CASE i # n
    <3>1. i \in 1..(n - 1) /\ i + 1 \in 1..n
      BY <1>1, <2>2
    <3> QED
      BY <1>5, <1>6, <3>1
  <2> QED
    BY <2>1, <2>2
<1>12. Len(a) \in 1..4 /\ Len(a) - 1 = n /\ 1 \in 1..n
  BY <1>2, <1>6
<1>13. FramesInv(m, a)
  BY <1>6, <1>10, <1>11, <1>12 DEF FramesInv
<1> QED
  BY <1>6, <1>12, <1>13 DEF a, f

(* The frames after the end of a table.                                    *)
LEMMA FramesPop ==
  ASSUME NEW m \in Machines, NEW s, FramesInv(m, s), Len(s) # 1
  PROVE  LET r == SubSeq(s, 1, Len(s) - 1) IN FramesInv(m, Advance(r)) /\ Advance(r)[1].page = s[1].page
<1> DEFINE r == SubSeq(s, 1, Len(s) - 1)  n == Len(s)
<1>1. s \in Seq(Frames(m)) /\ n \in 1..4 /\ n \in Nat /\ \A i \in 1..n : s[i] \in Frames(m)
  BY TopIs
<1>2. n \in 2..4
  BY <1>1
<1>3. /\ \A i \in 1..n : FrameInv(m, i, s[i])
      /\ \A i \in 1..(n - 1) : LinkInv(m, i, s[i], s[i + 1])
  BY DEF FramesInv
<1>4. r \in Seq(Frames(m)) /\ Len(r) = n - 1 /\ \A i \in 1..(n - 1) : r[i] = s[i]
  <2> HIDE DEF n
  <2>1. \A i \in 1..(n - 1) : s[i] \in Frames(m)
    BY <1>1
  <2>2. n - 1 \in Int /\ 1 \in Int /\ 1 <= n - 1 /\ n - 1 - 1 + 1 = n - 1 /\ \A i \in 1..(n - 1) : 1 + i - 1 = i
    BY <1>2
  <2>3. SubSeq(s, 1, n - 1) \in Seq(Frames(m)) /\ Len(SubSeq(s, 1, n - 1)) = n - 1 /\ \A i \in 1..(n - 1) : SubSeq(s, 1, n - 1)[i] = s[i]
    BY <2>1, <2>2, SubSeqProperties
  <2> QED
    BY <2>3 DEF n
<1> HIDE DEF r, n
<1>5. FramesInv(m, r) /\ r[1] = s[1]
  <2>1. \A i \in 1..(n - 1) : i \in 1..n
    BY <1>1
  <2>2. \A i \in 1..(n - 1 - 1) : i \in 1..(n - 1) /\ i + 1 \in 1..(n - 1)
    BY <1>1
  <2>3. n - 1 \in 1..4 /\ 1 \in 1..(n - 1)
    BY <1>2
  <2> QED
    BY <1>3, <1>4, <2>1, <2>2, <2>3 DEF FramesInv
<1>6. r[Len(r)].idx <= TableSize
  <2>1. n - 1 \in 1..(n - 1)
    BY <1>2
  <2> QED
    BY <1>3, <1>4, <2>1 DEF LinkInv
<1>7. FramesInv(m, Advance(r)) /\ Advance(r)[1].page = r[1].page
  BY <1>5, <1>6, FramesAdvance
<1> QED
  BY <1>5, <1>7 DEF r, n

-----------------------------------------------------------------------------
(***************************************************************************)
(* CheckPtEntry.                                                           *)
(***************************************************************************)
(* The range tests skip nothing.                                           *)
LEMMA NoneSkipped ==
  ASSUME NEW a \in Nat, NEW x \in Nat, NEW y \in Nat
  PROVE  ~Skipped(a, x, y)
BY DEF Skipped

(* An entry that CheckPtEntry passes over is of no unknown device, and for *)
(* another one there is no record.                                         *)
LEMMA PassedIs ==
  ASSUME machine \in Machines, NEW loc, NEW e \in Entries, NEW a \in Nat
  PROVE  /\ ExistInRmrr(loc, a) <=> \E r \in Range(machine.rmrr) : r.loc = loc
         /\ Unknown(machine, loc, e) => NoRecord(machine, loc, e)
         /\ \A m \in Range(machine.maps) : Unknown(machine, loc, e) => ~MapCovers(m, loc, a, Access(e))
<1>1. \A r \in Range(machine.rmrr) : ~Skipped(a, r.base, r.pages)
  BY MachineFacts, NoneSkipped
<1>2. Unknown(machine, loc, e) => NoRecord(machine, loc, e)
  BY DEF Unknown, NoRecord
<1>3. ASSUME NEW m \in Range(machine.maps), Unknown(machine, loc, e) PROVE ~MapCovers(m, loc, a, Access(e))
  BY <1>3 DEF Unknown, MapCovers
<1> QED
  BY <1>1, <1>2, <1>3 DEF ExistInRmrr

(* A mapping that does not cover a page does not explain it.               *)
LEMMA NotExplained ==
  ASSUME machine \in Machines, NEW m \in Range(machine.maps), NEW loc, NEW a \in Nat, NEW access,
         ~MapCovers(m, loc, a, access)
  PROVE  ~InMapping(m, loc, a, access)
<1>1. m.addr \in Nat /\ m.pages \in Nat
  BY MachineFacts
<1>2. ~Skipped(a, m.addr, m.pages)
  BY <1>1, NoneSkipped
<1>3. \A h : h.access = access /\ (h.pci => h.loc = loc) => h.access = access /\ (~h.pci \/ h.loc = loc)
  OBVIOUS
<1> QED
  BY <1>2, <1>3 DEF MapCovers, InMapping

(* What a list of mappings is made of.                                     *)
LEMMA ListIs ==
  ASSUME NEW s, IsList(s)
  PROVE  /\ Len(s) \in Nat /\ DOMAIN s = 1..Len(s) /\ Range(s) = {s[i] : i \in 1..Len(s)}
         /\ (s = <<>> <=> Len(s) = 0)
BY LenProperties, EmptySeq DEF IsList, Range

(* A lookup starts with nothing behind its cursor.                         *)
LEMMA LookedFirst ==
  ASSUME NEW s, IsList(s), Distinct(s), NoMap \notin Range(s), NEW loc, NEW a, NEW access
  PROVE  Looked(s, Range(s), LastMap(s), loc, a, access)
<1>1. Len(s) \in Nat /\ Range(s) = {s[i] : i \in 1..Len(s)} /\ (s = <<>> <=> Len(s) = 0)
  BY ListIs
<1>2. CASE s = <<>>
  BY <1>1, <1>2 DEF Looked
<1>3. CASE s # <<>>
  <2>1. LastMap(s) = s[Len(s)] /\ Len(s) \in 1..Len(s)
    BY <1>1, <1>3 DEF LastMap
  <2>2. LastMap(s) # NoMap
    BY <1>1, <2>1
  <2>3. ASSUME NEW i \in 1..Len(s), NEW j \in 1..Len(s), s[j] = LastMap(s) PROVE ~(j < i)
    <3>1. j = Len(s)
      BY <2>1, <2>3 DEF Distinct
    <3> QED
      BY <1>1, <3>1
  <2> QED
    BY <2>2, <2>3 DEF Looked
<1> QED
  BY <1>2, <1>3

(* It goes on past a mapping that does not cover the page.                 *)
LEMMA LookedNext ==
  ASSUME IsList(maps), Distinct(maps), NoMap \notin Range(maps), kept \subseteq Range(maps), cursor \in kept,
         NEW loc, NEW a, NEW access, Looked(maps, kept, cursor, loc, a, access), ~MapCovers(cursor, loc, a, access)
  PROVE  Looked(maps, kept, MapBefore(cursor), loc, a, access)
<1>1. Len(maps) \in Nat /\ Range(maps) = {maps[i] : i \in 1..Len(maps)}
  BY ListIs
<1>2. PICK k \in 1..Len(maps) : maps[k] = cursor
  BY <1>1
<1>3. \A j \in 1..Len(maps) : maps[j] = cursor <=> j = k
  BY <1>2 DEF Distinct
<1>4. MapBefore(cursor) = IF k = 1 THEN NoMap ELSE maps[k - 1]
  <2> DEFINE here == CHOOSE n \in 1..Len(maps) : maps[n] = cursor
  <2>1. here \in 1..Len(maps) /\ maps[here] = cursor
    BY <1>2
  <2>2. here = k
    BY <1>3, <2>1
  <2>3. MapBefore(cursor) = IF here = 1 THEN NoMap ELSE maps[here - 1]
    BY DEF MapBefore
  <2> QED
    BY <2>2, <2>3
<1>5. \A i \in 1..Len(maps) : k <= i /\ maps[i] \in kept => ~MapCovers(maps[i], loc, a, access)
  <2> SUFFICES ASSUME NEW i \in 1..Len(maps), k <= i, maps[i] \in kept PROVE ~MapCovers(maps[i], loc, a, access)
    OBVIOUS
  <2>1. CASE i = k
    BY <1>2, <2>1
  <2>2. CASE k < i
    BY <1>2, <2>2 DEF Looked
  <2> QED
    BY <1>1, <2>1, <2>2
<1>6. CASE k = 1
  <2>1. MapBefore(cursor) = NoMap /\ \A j \in 1..Len(maps) : maps[j] # NoMap
    BY <1>1, <1>4, <1>6
  <2>2. ASSUME NEW m \in kept PROVE ~MapCovers(m, loc, a, access)
    <3>1. PICK i \in 1..Len(maps) : maps[i] = m
      BY <1>1
    <3> QED
      BY <1>1, <1>5, <1>6, <3>1
  <2> QED
    BY <2>1, <2>2 DEF Looked
<1>7. CASE k # 1
  <2>1. k - 1 \in 1..Len(maps) /\ MapBefore(cursor) = maps[k - 1]
    BY <1>1, <1>4, <1>7
  <2>2. MapBefore(cursor) # NoMap
    BY <1>1, <2>1
  <2>3. ASSUME NEW i \in 1..Len(maps), NEW j \in 1..Len(maps), maps[j] = MapBefore(cursor), j < i, maps[i] \in kept
        PROVE  ~MapCovers(maps[i], loc, a, access)
    <3>1. j = k - 1
      BY <2>1, <2>3 DEF Distinct
    <3>2. k <= i
      BY <1>1, <2>3, <3>1
    <3> QED
      BY <1>5, <2>3, <3>2
  <2> QED
    BY <2>2, <2>3 DEF Looked
<1> QED
  BY <1>6, <1>7

(* A new mapping, at the tail, is none of those that must be asked.        *)
LEMMA LookedAdded ==
  ASSUME IsList(maps), kept \subseteq Range(maps), NEW x, x \notin Range(maps),
         NEW loc, NEW a, NEW access, Looked(maps, kept, cursor, loc, a, access)
  PROVE  Looked(Append(maps, x), kept, cursor, loc, a, access)
<1> DEFINE r == Append(maps, x)
<1>1. Len(maps) \in Nat
  BY ListIs
<1>2. Len(r) = Len(maps) + 1 /\ r[Len(maps) + 1] = x /\ \A i \in 1..Len(maps) : r[i] = maps[i]
  <2>1. maps \in Seq(Range(maps) \cup {x})
    <3> DEFINE T == Range(maps) \cup {x}
    <3>1. Range(maps) \subseteq T /\ maps \in Seq(Range(maps))
      BY DEF IsList
    <3> HIDE DEF T
    <3>2. maps \in Seq(T)
      <4>1. \A i \in 1..Len(maps) : maps[i] \in T
        BY <3>1, ElementOfSeq
      <4> QED
        BY <3>1, <4>1, ListIs, LenProperties, SeqDef
    <3> QED
      BY <3>2 DEF T
  <2> QED
    BY <2>1, AppendProperties
<1> HIDE DEF r
<1>3. ASSUME NEW i \in 1..Len(r), NEW j \in 1..Len(r), r[j] = cursor, j < i, r[i] \in kept
      PROVE  ~MapCovers(r[i], loc, a, access)
  <2>1. i # Len(maps) + 1
    BY <1>2, <1>3
  <2>2. i \in 1..Len(maps) /\ j \in 1..Len(maps)
    BY <1>1, <1>2, <1>3, <2>1
  <2> QED
    BY <1>2, <1>3, <2>2 DEF Looked
<1> QED
  BY <1>3 DEF Looked, r

(* One that is undone takes nothing away from what was passed.             *)
LEMMA LookedRemoved ==
  ASSUME IsList(maps), Distinct(maps), NEW x,
         NEW loc, NEW a, NEW access, Looked(maps, kept, cursor, loc, a, access)
  PROVE  Looked(RemoveFirst(maps, x), kept \ {x}, cursor, loc, a, access)
<1> DEFINE r == RemoveFirst(maps, x)
<1>1. ASSUME NEW i \in 1..Len(r), NEW j \in 1..Len(r), r[j] = cursor, j < i, r[i] \in kept \ {x}
      PROVE  ~MapCovers(r[i], loc, a, access)
  <2>1. PICK k \in 1..Len(maps), l \in 1..Len(maps) : l < k /\ maps[k] = r[i] /\ maps[l] = r[j]
    BY <1>1, RemovedOrder
  <2> HIDE DEF r
  <2> QED
    BY <1>1, <2>1 DEF Looked
<1> QED
  BY <1>1 DEF Looked

-----------------------------------------------------------------------------
(***************************************************************************)
(* The invariant holds at first, and every step keeps it.                  *)
(***************************************************************************)
(* Nothing is behind the start.                                            *)
LEMMA NothingYet == ASSUME NEW m \in Machines PROVE Marks(m, 1, 0, 0, <<>>) = {}
<1>1. Passed(m, 1, 0, 0) = {}
  <2> SUFFICES ASSUME NEW x \in Walked(m) PROVE ~(x[1] < 1 \/ (x[1] = 1 /\ (x[2] < 0 \/ (x[2] = 0 /\ x[3] < 0))))
    BY DEF Passed
  <2>1. x[1] \in Nat /\ x[2] \in Nat /\ x[3] \in Nat /\ x[1] \in 1..Len(m.units)
    BY WalkedNumbers
  <2>2. Len(m.units) \in Nat
    BY MachineFacts, LenProperties DEF IsList
  <2> QED
    BY <2>1, <2>2
<1>2. LeavesDone(m.tables, <<>>) = {}
  BY DEF LeavesDone
<1> QED
  BY <1>1, <1>2 DEF Marks

(* The invariant holds when the application starts.                        *)
LEMMA InitVtd == TranslationInit => VtdInv
<1> SUFFICES ASSUME TranslationInit PROVE VtdInv
  OBVIOUS
<1> USE DEF TranslationInit
<1>1. machine \in Machines /\ mHasError \in BOOLEAN
  OBVIOUS
<1>2. Len(machine.units) \in Nat /\ IsList(machine.maps) /\ Distinct(machine.maps) /\ Probe \notin Range(machine.maps)
  BY <1>1, MachineFacts, LenProperties DEF IsList
<1>3. MapsInv
  BY <1>2 DEF MapsInv
<1>4. PlaceInv
  BY <1>2 DEF PlaceInv
<1>5. ChecksInv
  <2>1. Now = {}
    BY <1>1, NothingYet DEF Now
  <2>2. IsList(checked) /\ Range(checked) = {}
    BY DEF IsList, Range
  <2> QED
    BY <2>1, <2>2 DEF ChecksInv
<1>6. EndInv /\ LookInv
  BY DEF EndInv, LookInv
<1>7. ErrorsInv
  BY DEF ErrorsInv, NoFalseAlarm
<1> QED
  BY <1>1, <1>3, <1>4, <1>5, <1>6, <1>7 DEF VtdInv

(* A step that neither checks nor moves keeps what is known of checks.     *)
LEMMA ChecksKept ==
  ASSUME ChecksInv, ErrorsInv, UNCHANGED <<machine, checked, errors, mHasError>>, Now' = Now
  PROVE  ChecksInv' /\ ErrorsInv'
<1> DEFINE N == Now
<1>1. Now' = N
  OBVIOUS
<1> HIDE DEF N
<1>2. ChecksInv'
  BY <1>1 DEF ChecksInv, N
<1> QED
  BY <1>2 DEF ErrorsInv, NoFalseAlarm

(* The same, for steps before the walk and after it.                       *)
LEMMA OutsideWalk ==
  ASSUME VtdInv, phase \notin {"undefined", "paging", "lookup"}, phase' \notin {"undefined", "paging", "lookup"},
         UNCHANGED <<machine, walkVars>>, MapsInv', EndInv'
  PROVE  VtdInv'
<1>1. machine \in Machines /\ mHasError \in BOOLEAN /\ PlaceInv /\ ErrorsInv /\ ChecksInv
  BY DEF VtdInv
<1>2. UNCHANGED <<unit, bus, ctx, levels, checked, errors, mHasError>>
  BY DEF walkVars
<1>3. PlaceInv'
  BY <1>1, <1>2 DEF PlaceInv, Unit
<1>4. ChecksInv' /\ ErrorsInv'
  <2>1. Now' = Now
    BY <1>2 DEF Now
  <2> QED
    BY <1>1, <1>2, <2>1, ChecksKept
<1> QED
  BY <1>1, <1>2, <1>3, <1>4 DEF VtdInv, LookInv

(* The probe mapping.                                                      *)
LEMMA MapProbeStep == VtdInv /\ MapProbe => VtdInv'
<1> SUFFICES ASSUME VtdInv, MapProbe PROVE VtdInv'
  OBVIOUS
<1>1. phase = "start" /\ UNCHANGED <<machine, kept, walkVars>> /\ phase' \in {"probe", "translate"}
  BY DEF MapProbe
<1>2. MapsInv
  BY <1>1 DEF VtdInv
<1>3. MapsInv'
  <2>1. CASE maps' = Append(maps, Probe) /\ phase' = "probe"
    <3>1. IsList(maps') /\ Distinct(maps') /\ Range(maps') = Range(maps) \cup {Probe}
      BY <1>1, <1>2, <2>1, ListAdded DEF MapsInv
    <3> QED
      BY <1>1, <1>2, <2>1, <3>1 DEF MapsInv
  <2>2. CASE phase' = "translate" /\ UNCHANGED maps
    BY <1>1, <1>2, <2>2 DEF MapsInv
  <2> QED
    BY <2>1, <2>2 DEF MapProbe
<1>4. EndInv'
  BY <1>1 DEF EndInv
<1> QED
  BY <1>1, <1>2, <1>3, <1>4, OutsideWalk

(* The end of the search for the list.                                     *)
LEMMA GetListStep == VtdInv /\ GetIoMmuMapList => VtdInv'
<1> SUFFICES ASSUME VtdInv, GetIoMmuMapList PROVE VtdInv'
  OBVIOUS
<1>1. phase = "probe" /\ UNCHANGED <<machine, walkVars>> /\ phase' = "maps" /\ maps' = RemoveFirst(maps, Probe)
      /\ kept' = Range(maps')
  BY DEF GetIoMmuMapList, UnmapProbe
<1>2. MapsInv
  BY <1>1 DEF VtdInv
<1>3. MapsInv'
  <2>1. IsList(maps') /\ Distinct(maps') /\ Range(maps') = Range(maps) \ {Probe}
    BY <1>1, <1>2, ListRemoved DEF MapsInv
  <2> QED
    BY <1>1, <1>2, <2>1 DEF MapsInv
<1>4. EndInv'
  BY <1>1 DEF EndInv
<1> QED
  BY <1>1, <1>2, <1>3, <1>4, OutsideWalk

(* The list is printed.                                                    *)
LEMMA DumpListStep == VtdInv /\ DumpIoMmuMapList => VtdInv'
<1> SUFFICES ASSUME VtdInv, DumpIoMmuMapList PROVE VtdInv'
  OBVIOUS
<1>1. phase = "maps" /\ UNCHANGED <<machine, maps, walkVars>> /\ phase' \in {"maps", "translate", "undefined"}
      /\ kept' \in {kept, {}}
  BY DEF DumpIoMmuMapList
<1>2. MapsInv
  BY <1>1 DEF VtdInv
<1>3. phase' # "undefined" => MapsInv'
  BY <1>1, <1>2 DEF MapsInv
<1>4. phase' # "undefined" => EndInv'
  BY <1>1 DEF EndInv
<1>5. CASE phase' = "undefined"
  BY <1>5 DEF VtdInv
<1>6. CASE phase' # "undefined"
  BY <1>1, <1>2, <1>3, <1>4, <1>6, OutsideWalk
<1> QED
  BY <1>5, <1>6

(* The verdict.                                                            *)
LEMMA VerdictStep == VtdInv /\ Verdict => VtdInv'
<1> SUFFICES ASSUME VtdInv, Verdict PROVE VtdInv'
  OBVIOUS
<1>1. /\ phase = "translate" /\ UNCHANGED <<machine, maps, kept, walkVars>> /\ ~(unit <= Len(machine.units))
      /\ phase' = IF mHasError THEN "FAIL" ELSE "PASS"
  <2>1. machine \in Machines /\ phase = "translate" /\ unit \in 1..(Len(machine.units) + 1)
    BY DEF Verdict, VtdInv, PlaceInv
  <2>2. Len(machine.units) \in Nat
    BY <2>1, MachineFacts, LenProperties DEF IsList
  <2> QED
    BY <2>1, <2>2 DEF Verdict
<1>2. MapsInv /\ PlaceInv /\ mHasError \in BOOLEAN /\ machine \in Machines
  BY <1>1 DEF VtdInv
<1>3. Len(machine.units) \in Nat
  BY <1>2, MachineFacts, LenProperties DEF IsList
<1>4. MapsInv'
  BY <1>1, <1>2 DEF MapsInv
<1>5. EndInv'
  <2>1. unit = Len(machine.units) + 1
    BY <1>1, <1>2, <1>3 DEF PlaceInv
  <2>2. UNCHANGED <<unit, mHasError>>
    BY <1>1 DEF walkVars
  <2> QED
    BY <1>1, <1>2, <2>1, <2>2 DEF EndInv
<1> QED
  BY <1>1, <1>2, <1>4, <1>5, OutsideWalk

(* A driver maps or unmaps, also while a lookup follows the links.         *)
LEMMA DriverStep == VtdInv /\ (DriverMap \/ DriverUnmap) => VtdInv'
<1> SUFFICES ASSUME VtdInv, DriverMap \/ DriverUnmap PROVE VtdInv'
  OBVIOUS
<1>1. /\ phase \notin {"PASS", "FAIL", "undefined"}
      /\ UNCHANGED <<phase, machine, cursor, unit, bus, ctx, levels, index, checked, errors, mHasError>>
  BY DEF DriverMap, DriverUnmap, Running, walkVars
<1>2. MapsInv /\ PlaceInv /\ ErrorsInv /\ ChecksInv /\ LookInv /\ mHasError \in BOOLEAN /\ machine \in Machines
  BY <1>1 DEF VtdInv
<1>3. IsList(maps) /\ Distinct(maps) /\ kept \subseteq Range(maps)
  BY <1>2 DEF MapsInv
<1> DEFINE Keeps ==
             \A loc, a, access : Looked(maps, kept, cursor, loc, a, access) => Looked(maps', kept', cursor', loc, a, access)
<1>4. ASSUME DriverUnmap PROVE MapsInv' /\ Keeps
  <2>1. PICK x \in Range(maps) \ {Probe} : maps' = RemoveFirst(maps, x) /\ kept' = kept \ {x}
    BY <1>4 DEF DriverUnmap
  <2>2. IsList(maps') /\ Distinct(maps') /\ Range(maps') = Range(maps) \ {x}
    BY <1>3, <2>1, ListRemoved
  <2>3. MapsInv'
    BY <1>1, <1>2, <2>1, <2>2 DEF MapsInv
  <2>4. Keeps
    BY <1>1, <1>3, <2>1, LookedRemoved
  <2> QED
    BY <2>3, <2>4
<1>5. ASSUME DriverMap PROVE MapsInv' /\ Keeps
  <2>1. PICK x \in Range(machine.maps) \ Range(maps) : maps' = Append(maps, x) /\ kept' = kept
    BY <1>5 DEF DriverMap
  <2>2. x # Probe
    BY <1>2, MachineFacts
  <2>3. IsList(maps') /\ Distinct(maps') /\ Range(maps') = Range(maps) \cup {x}
    BY <1>3, <2>1, ListAdded
  <2>4. MapsInv'
    BY <1>1, <1>2, <2>1, <2>2, <2>3 DEF MapsInv
  <2>5. ASSUME NEW loc, NEW a, NEW access, Looked(maps, kept, cursor, loc, a, access)
        PROVE  Looked(maps', kept', cursor', loc, a, access)
    <3>1. x \notin Range(maps)
      OBVIOUS
    <3>2. Looked(Append(maps, x), kept, cursor, loc, a, access)
      BY <1>3, <2>5, <3>1, LookedAdded
    <3> QED
      BY <1>1, <2>1, <3>2
  <2> QED
    BY <2>4, <2>5
<1>6. MapsInv' /\ Keeps
  BY <1>4, <1>5
<1>7. PlaceInv'
  BY <1>1, <1>2 DEF PlaceInv, Unit
<1>8. ChecksInv' /\ ErrorsInv'
  <2>1. Now' = Now
    BY <1>1 DEF Now
  <2> QED
    BY <1>1, <1>2, <2>1, ChecksKept
<1>9. LookInv'
  <2> SUFFICES ASSUME Asking PROVE Asking'
    BY <1>1, <1>2 DEF LookInv
  <2>1. UNCHANGED <<Top, Entry, Location, Size, Page, AtLeaf>>
    BY <1>1 DEF Top, Entry, Location, Unit, Size, Page, Level, AtLeaf, IsLeaf
  <2> QED
    BY <1>1, <1>6, <2>1 DEF Asking
<1>10. EndInv'
  BY <1>1 DEF EndInv
<1> QED
  BY <1>1, <1>2, <1>6, <1>7, <1>8, <1>9, <1>10 DEF VtdInv

(* Outside the tables of a context, all that was sought is below contexts   *)
(* passed.                                                                 *)
LEMMA MarksOutside ==
  ASSUME NEW m, NEW u, NEW b, NEW c
  PROVE  Marks(m, u, b, c, <<>>) = UNION {Sought(m, x) : x \in Passed(m, u, b, c)}
<1>1. LeavesDone(m.tables, <<>>) = {}
  BY DEF LeavesDone
<1> QED
  BY <1>1 DEF Marks

(* The next unit.                                                          *)
LEMMA NextUnitStep == VtdInv /\ NextUnit => VtdInv'
<1> SUFFICES ASSUME VtdInv, NextUnit PROVE VtdInv'
  OBVIOUS
<1>1. /\ phase = "translate" /\ unit <= Len(machine.units) /\ ~(bus < Len(Unit.buses)) /\ unit' = unit + 1 /\ bus' = 0
      /\ UNCHANGED <<phase, machine, maps, kept, ctx, levels, checked, errors, mHasError>>
  <2>1. machine \in Machines /\ unit \in Nat /\ bus \in Nat /\ unit <= Len(machine.units) /\ unit \in 1..(Len(machine.units) + 1)
    BY DEF NextUnit, VtdInv, PlaceInv
  <2>2. Len(machine.units) \in Nat /\ unit \in 1..Len(machine.units)
    BY <2>1, MachineFacts, LenProperties DEF IsList
  <2>3. Len(Unit.buses) \in Nat
    BY <2>1, <2>2, MachineFacts, LenProperties DEF IsList, Unit
  <2> QED
    BY <2>1, <2>3 DEF NextUnit
<1>2. MapsInv /\ PlaceInv /\ ErrorsInv /\ ChecksInv /\ mHasError \in BOOLEAN /\ machine \in Machines
  BY <1>1 DEF VtdInv
<1>3. Len(machine.units) \in Nat /\ unit \in 1..Len(machine.units)
  BY <1>1, <1>2, MachineFacts, LenProperties DEF IsList, PlaceInv
<1>4. ctx = 0 /\ levels = <<>> /\ bus \in Nat
  BY <1>1, <1>2 DEF PlaceInv
<1>5. MapsInv'
  BY <1>1, <1>2 DEF MapsInv
<1>6. PlaceInv'
  BY <1>1, <1>3, <1>4 DEF PlaceInv, Unit
<1>7. ChecksInv' /\ ErrorsInv'
  <2>1. Passed(machine, unit + 1, 0, 0) = Passed(machine, unit, bus, 0)
    BY <1>1, <1>2, <1>3, <1>4, PassedUnit DEF Unit
  <2>2. Now' = Now
    BY <1>1, <1>4, <2>1, MarksOutside DEF Now
  <2> QED
    BY <1>1, <1>2, <2>2, ChecksKept
<1>8. EndInv'
  BY <1>1 DEF EndInv
<1> QED
  BY <1>1, <1>2, <1>5, <1>6, <1>7, <1>8 DEF VtdInv, LookInv

(* The next bus, the next context, or the tables of this one.              *)
LEMMA ContextStep == VtdInv /\ DumpDmarContextEntryTable => VtdInv'
<1> SUFFICES ASSUME VtdInv, DumpDmarContextEntryTable PROVE VtdInv'
  OBVIOUS
<1> DEFINE place == <<unit, bus, ctx>>
<1>1. /\ phase = "translate" /\ unit <= Len(machine.units) /\ bus < Len(Unit.buses)
      /\ UNCHANGED <<machine, maps, kept, unit, checked, errors, mHasError>>
  BY DEF DumpDmarContextEntryTable
<1>2. MapsInv /\ PlaceInv /\ ErrorsInv /\ ChecksInv /\ mHasError \in BOOLEAN /\ machine \in Machines
  BY <1>1 DEF VtdInv
<1>3. /\ Len(machine.units) \in Nat /\ unit \in 1..Len(machine.units) /\ bus \in Nat /\ ctx \in Nat /\ levels = <<>>
      /\ unit \in Nat
  BY <1>1, <1>2, MachineFacts, LenProperties DEF IsList, PlaceInv
<1>4. Len(Unit.buses) \in Nat /\ bus \in 0..(Len(Unit.buses) - 1)
  <2>1. Len(Unit.buses) \in Nat
    BY <1>2, <1>3, MachineFacts, LenProperties DEF IsList, Unit
  <2> QED
    BY <1>1, <1>3, <2>1
<1>5. Unit = machine.units[place[1]] /\ Root = RootAt(machine, place) /\ Root.contexts[ctx + 1] = ContextAt(machine, place)
  BY DEF Unit, Root, RootAt, ContextAt
<1>6. Unit.ext \in BOOLEAN /\ (ctx < ContextSize => Root.lower \in BOOLEAN)
  <2>1. ctx < ContextSize => place \in Places(machine)
    <3>1. ctx < ContextSize => ctx \in 0..(ContextSize - 1)
      BY <1>3, SizesAssumption
    <3>2. bus \in 0..(Len(machine.units[unit].buses) - 1)
      BY <1>4 DEF Unit
    <3> QED
      BY <1>3, <3>1, <3>2 DEF Places
  <2>2. ctx < ContextSize => RootForm(Root)
    BY <1>2, <1>5, <2>1, MachineFacts
  <2> QED
    BY <1>2, <1>3, <2>2, MachineFacts DEF Unit, RootForm
<1>7. ctx < Contexts => (place \in Walked(machine) <=> Root.contexts[ctx + 1].present)
  <2> SUFFICES ASSUME ctx < Contexts PROVE place \in Walked(machine) <=> Root.contexts[ctx + 1].present
    OBVIOUS
  <2>0. ContextSize \in Nat /\ ContextSize \div 2 \in Nat /\ ContextSize \div 2 <= ContextSize
    BY SizesAssumption
  <2>a. Contexts \in {0, ContextSize \div 2, ContextSize}
    BY DEF Contexts
  <2>b. ctx < ContextSize /\ ctx \in 0..(ContextSize - 1)
    BY <1>3, <2>0, <2>a
  <2>c. Root.lower /\ Contexts # 0
    BY <1>3, <1>6, <2>b DEF Contexts
  <2>d. Unit.ext => ctx < ContextSize \div 2
    BY <1>6, <2>c DEF Contexts
  <2>e. ~IsUpper(machine, place)
    <3>1. IsUpper(machine, place) <=> Unit.ext /\ ctx >= ContextSize \div 2
      BY <1>5 DEF IsUpper
    <3> QED
      BY <1>3, <2>0, <2>d, <3>1
  <2>f. /\ place = <<place[1], place[2], place[3]>> /\ place[1] \in 1..Len(machine.units)
        /\ place[2] \in 0..(Len(machine.units[place[1]].buses) - 1) /\ place[3] \in 0..(ContextSize - 1)
    BY <1>3, <1>4, <2>b DEF Unit
  <2>g. RootAt(machine, place).lower /\ ContextAt(machine, place) = Root.contexts[ctx + 1]
    BY <1>5, <2>c
  <2> HIDE DEF place
  <2>h. place \in Walked(machine) <=> ContextAt(machine, place).present
    BY <1>2, <2>e, <2>f, <2>g, WalkedIs
  <2> QED
    BY <2>g, <2>h
<1>8. CASE ~(ctx < Contexts)
  <2>1. bus' = bus + 1 /\ ctx' = 0 /\ UNCHANGED <<phase, levels>>
    <3>1. Contexts \in Nat
      BY SizesAssumption DEF Contexts
    <3> QED
      BY <1>3, <1>8, <3>1 DEF DumpDmarContextEntryTable, NextBus
  <2>2. ASSUME NEW x \in Walked(machine), x[1] = unit, x[2] = bus PROVE x[3] < ctx
    <3>1. x[3] \in Nat /\ x[3] < ContextSize
      BY <1>2, WalkedNumbers
    <3>2. ~IsUpper(machine, x) /\ RootAt(machine, x).lower
      BY <1>2, WalkedIs
    <3>3. RootAt(machine, x) = Root /\ machine.units[x[1]] = Unit
      BY <1>5, <2>2 DEF RootAt
    <3>4. Root.lower
      BY <3>2, <3>3
    <3>5. Unit.ext => x[3] < ContextSize \div 2
      BY <3>1, <3>2, <3>3, SizesAssumption DEF IsUpper
    <3>6. x[3] < Contexts
      BY <1>6, <3>1, <3>4, <3>5 DEF Contexts
    <3>7. Contexts \in Nat
      BY SizesAssumption DEF Contexts
    <3> QED
      BY <1>3, <1>8, <3>1, <3>6, <3>7
  <2>3. Passed(machine, unit, bus + 1, 0) = Passed(machine, unit, bus, ctx)
    BY <1>2, <1>3, <2>2, PassedBus
  <2>4. Now' = Now
    BY <1>1, <1>3, <2>1, <2>3, MarksOutside DEF Now
  <2>5. ChecksInv' /\ ErrorsInv'
    BY <1>1, <1>2, <2>4, ChecksKept
  <2>6. PlaceInv'
    BY <1>1, <1>3, <2>1 DEF PlaceInv, Unit
  <2>7. MapsInv' /\ EndInv'
    BY <1>1, <1>2, <2>1 DEF MapsInv, EndInv
  <2> QED
    BY <1>1, <1>2, <2>1, <2>5, <2>6, <2>7 DEF VtdInv, LookInv
<1>9. CASE ctx < Contexts /\ ~Root.contexts[ctx + 1].present
  <2>1. ctx' = ctx + 1 /\ UNCHANGED <<phase, bus, levels>>
    <3>1. ~(ctx >= Contexts)
      BY <1>3, <1>9, SizesAssumption DEF Contexts
    <3> QED
      BY <1>9, <3>1 DEF DumpDmarContextEntryTable
  <2>2. Passed(machine, unit, bus, ctx + 1) = Passed(machine, unit, bus, ctx)
    <3>1. place \notin Walked(machine)
      BY <1>7, <1>9
    <3>2. Passed(machine, unit, bus, ctx + 1) = Passed(machine, unit, bus, ctx) \cup (IF place \in Walked(machine) THEN {place} ELSE {})
      BY <1>2, <1>3, PassedContext
    <3> HIDE DEF place
    <3> QED BY <3>1, <3>2
  <2>3. Now' = Now
    BY <1>1, <1>3, <2>1, <2>2, MarksOutside DEF Now
  <2>4. ChecksInv' /\ ErrorsInv'
    BY <1>1, <1>2, <2>3, ChecksKept
  <2>5. PlaceInv'
    BY <1>1, <1>3, <2>1 DEF PlaceInv, Unit
  <2>6. MapsInv' /\ EndInv'
    BY <1>1, <1>2, <2>1 DEF MapsInv, EndInv
  <2> QED
    BY <1>1, <1>2, <2>1, <2>4, <2>5, <2>6 DEF VtdInv, LookInv
<1>10. CASE ctx < Contexts /\ Root.contexts[ctx + 1].present
  <2> DEFINE p == ContextAt(machine, place).page
  <2>1. phase' = "paging" /\ levels' = <<[page |-> p, idx |-> 1]>> /\ UNCHANGED <<bus, ctx>>
    <3>1. ~(ctx >= Contexts)
      BY <1>3, <1>10, SizesAssumption DEF Contexts
    <3> QED
      BY <1>5, <1>10, <3>1 DEF DumpDmarContextEntryTable
  <2>2. place \in Walked(machine) /\ p \in Pages4(machine)
    BY <1>2, <1>7, <1>10, MachineFacts DEF Walked
  <2> DEFINE f == [page |-> p, idx |-> 1]
  <2>3. f \in Frames(machine) /\ f.page = p /\ f.idx = 1 /\ FrameInv(machine, 1, f)
    BY <2>2, SizesAssumption DEF Frames, AllPages, FrameInv, PagesAt
  <2> HIDE DEF f, p
  <2>4. <<f>> \in Seq(Frames(machine)) /\ Len(<<f>>) = 1 /\ <<f>>[1] = f
    BY <2>3
  <2>5. FramesInv(machine, <<f>>)
    BY <2>3, <2>4 DEF FramesInv
  <2>6. PlaceInv'
    BY <1>1, <1>3, <2>1, <2>2, <2>3, <2>4, <2>5 DEF PlaceInv, Unit, f, p
  <2>7. Now' = Now
    <3>1. LeavesDone(machine.tables, <<f>>) = {}
      BY <2>3, <2>4 DEF LeavesDone, LeavesBehind
    <3>2. LeavesDone(machine.tables, <<>>) = {}
      BY DEF LeavesDone
    <3>3. levels' = <<f>>
      BY <2>1 DEF f
    <3> QED
      BY <1>1, <1>3, <2>1, <3>1, <3>2, <3>3 DEF Now, Marks
  <2>8. ChecksInv' /\ ErrorsInv'
    BY <1>1, <1>2, <2>7, ChecksKept
  <2>9. MapsInv' /\ EndInv'
    BY <1>1, <1>2, <2>1 DEF MapsInv, EndInv
  <2> QED
    BY <1>1, <1>2, <2>1, <2>6, <2>8, <2>9 DEF VtdInv, LookInv
<1> QED
  BY <1>8, <1>9, <1>10

(* What is known of the entry at the top of the frames.                    *)
LEMMA InTables ==
  ASSUME VtdInv, phase \in {"paging", "lookup"}
  PROVE  /\ MapsInv /\ PlaceInv /\ ErrorsInv /\ ChecksInv /\ mHasError \in BOOLEAN /\ machine \in Machines
         /\ FramesInv(machine, levels) /\ levels[1].page = ContextAt(machine, <<unit, bus, ctx>>).page
         /\ <<unit, bus, ctx>> \in Walked(machine) /\ unit \in Nat /\ bus \in Nat /\ ctx \in Nat
         /\ levels \in Seq([page : AllPages(machine), idx : Nat]) /\ Len(levels) \in 1..4
         /\ Top.idx \in 1..(TableSize + 1) /\ Top.idx \in Nat /\ (Top.idx <= TableSize => Entry \in Entries)
         /\ Len(machine.units) \in Nat /\ Len(Unit.buses) \in Nat
<1>1. /\ MapsInv /\ PlaceInv /\ ErrorsInv /\ ChecksInv /\ mHasError \in BOOLEAN /\ machine \in Machines
      /\ FramesInv(machine, levels) /\ levels[1].page = ContextAt(machine, <<unit, bus, ctx>>).page
      /\ <<unit, bus, ctx>> \in Walked(machine) /\ bus \in Nat /\ ctx \in Nat
  BY DEF VtdInv, PlaceInv
<1>2. /\ levels \in Seq([page : AllPages(machine), idx : Nat]) /\ Len(levels) \in 1..4
      /\ Top.idx \in 1..(TableSize + 1) /\ (Top.idx <= TableSize => Entry \in Entries)
  BY <1>1, TopIs DEF Frames, Top, Entry
<1>3. Len(machine.units) \in Nat
  BY <1>1, MachineFacts, LenProperties DEF IsList
<1>4. unit \in 1..Len(machine.units)
  BY <1>1, WalkedNumbers
<1>5. Len(Unit.buses) \in Nat
  BY <1>1, <1>4, MachineFacts, LenProperties DEF IsList, Unit
<1> QED
  BY <1>1, <1>2, <1>3, <1>4, <1>5, SizesAssumption

(* The end of a table.                                                     *)
LEMMA TableEndStep == VtdInv /\ TableEnd => VtdInv'
<1> SUFFICES ASSUME VtdInv, TableEnd PROVE VtdInv'
  OBVIOUS
<1> DEFINE place == <<unit, bus, ctx>>  t == machine.tables
<1>1. /\ phase = "paging" /\ Top.idx > TableSize
      /\ UNCHANGED <<machine, maps, kept, unit, bus, checked, errors, mHasError>>
  BY DEF TableEnd
<1>2. /\ MapsInv /\ PlaceInv /\ ErrorsInv /\ ChecksInv /\ mHasError \in BOOLEAN /\ machine \in Machines
      /\ FramesInv(machine, levels) /\ levels[1].page = ContextAt(machine, place).page
      /\ place \in Walked(machine) /\ unit \in Nat /\ bus \in Nat /\ ctx \in Nat
      /\ levels \in Seq([page : AllPages(machine), idx : Nat]) /\ Len(levels) \in 1..4
      /\ Top.idx \in 1..(TableSize + 1) /\ Top.idx \in Nat
  BY <1>1, InTables
<1>3. Top.idx = TableSize + 1
  <2>1. \A i \in 1..(TableSize + 1) : i > TableSize => i = TableSize + 1
    BY SizesAssumption
  <2> QED
    BY <1>1, <1>2, <2>1
<1>4. CASE Len(levels) = 1
  <2>1. levels' = <<>> /\ ctx' = ctx + 1 /\ phase' = "translate"
    BY <1>4 DEF TableEnd
  <2> DEFINE p == ContextAt(machine, place).page
  <2>2. LeavesDone(t, levels) = LeavesAt(machine, place)
    <3>1. p \in Pages4(machine)
      BY <1>2, MachineFacts DEF Walked
    <3>2. LeavesAt(machine, place) = UNION {Leaf4(t, t[p][j]) : j \in 1..TableSize}
      BY <1>2, <3>1, LeavesAre DEF LeavesAt
    <3>3. levels[1].idx - 1 = TableSize /\ levels[1].page = p
      <4>1. \A i : i = TableSize + 1 => i - 1 = TableSize
        BY SizesAssumption
      <4>2. levels[1].idx = TableSize + 1
        BY <1>3, <1>4 DEF Top
      <4>3. levels[1].idx - 1 = TableSize
        BY <4>1, <4>2
      <4> QED
        BY <1>2, <4>3
    <3> HIDE DEF p, t
    <3>4. LeavesBehind(t, 1, levels[1]) = UNION {Leaf4(t, t[p][j]) : j \in 1..TableSize}
      BY <3>3 DEF LeavesBehind, LeafAt
    <3>5. LeavesDone(t, levels) = LeavesBehind(t, 1, levels[1])
      BY <1>4 DEF LeavesDone
    <3> QED
      BY <3>2, <3>4, <3>5
  <2>3. Passed(machine, unit, bus, ctx + 1) = Passed(machine, unit, bus, ctx) \cup {place}
    BY <1>2, PassedContext
  <2>4. Now' = Now
    <3>1. Now' = UNION {Sought(machine, x) : x \in Passed(machine, unit, bus, ctx + 1)}
      BY <1>1, <2>1, MarksOutside DEF Now
    <3>2. Now = (UNION {Sought(machine, x) : x \in Passed(machine, unit, bus, ctx)}) \cup Sought(machine, place)
      BY <2>2 DEF Now, Marks, Sought
    <3> DEFINE P == Passed(machine, unit, bus, ctx)
    <3> HIDE DEF place, P
    <3>3. UNION {Sought(machine, x) : x \in P \cup {place}} = (UNION {Sought(machine, x) : x \in P}) \cup Sought(machine, place)
      OBVIOUS
    <3> QED BY <2>3, <3>1, <3>2, <3>3 DEF P
  <2>5. ChecksInv' /\ ErrorsInv'
    BY <1>1, <1>2, <2>4, ChecksKept
  <2>6. PlaceInv'
    <3>1. unit <= Len(machine.units) /\ bus < Len(Unit.buses)
      <4>1. place[1] \in 1..Len(machine.units) /\ place[2] < Len(machine.units[place[1]].buses) /\ Len(machine.units) \in Nat
        BY <1>1, <1>2, WalkedNumbers, InTables
      <4> QED
        BY <4>1 DEF Unit
    <3> QED
      BY <1>1, <1>2, <2>1, <3>1 DEF PlaceInv, Unit
  <2>7. MapsInv' /\ EndInv'
    BY <1>1, <1>2, <2>1 DEF MapsInv, EndInv
  <2> QED
    BY <1>1, <1>2, <2>1, <2>5, <2>6, <2>7 DEF VtdInv, LookInv
<1>5. CASE Len(levels) # 1
  <2> DEFINE r == SubSeq(levels, 1, Len(levels) - 1)
  <2>1. levels' = Advance(r) /\ UNCHANGED <<phase, ctx>>
    BY <1>5 DEF TableEnd
  <2>2. FramesInv(machine, Advance(r)) /\ Advance(r)[1].page = levels[1].page
    BY <1>2, <1>5, FramesPop
  <2>3. LeavesDone(t, Advance(r)) = LeavesDone(t, levels)
    <3>1. Len(levels) \in 2..4 /\ Len(levels) - 1 \in 1..(Len(levels) - 1) /\ Len(levels) - 1 \in 1..Len(levels) /\ Len(levels) - 1 + 1 = Len(levels)
      <4>1. \A n \in 1..4 : n # 1 => n \in 2..4 /\ n - 1 \in 1..(n - 1) /\ n - 1 \in 1..n /\ n - 1 + 1 = n
        OBVIOUS
      <4> QED
        BY <1>2, <1>5, <4>1
    <3>2. LinkInv(machine, Len(levels) - 1, levels[Len(levels) - 1], levels[Len(levels) - 1 + 1])
      BY <1>2, <3>1 DEF FramesInv
    <3>3. levels[Len(levels) - 1].idx # 0
      <4>1. levels[Len(levels) - 1].idx \in 1..(TableSize + 1)
        BY <1>2, <3>1 DEF FramesInv, FrameInv
      <4> QED
        BY <4>1, SizesAssumption
    <3> QED
      BY <1>2, <1>3, <3>1, <3>2, <3>3, DonePop DEF Top
  <2> HIDE DEF r
  <2>4. Now' = Now
    BY <1>1, <2>1, <2>3 DEF Now, Marks
  <2>5. ChecksInv' /\ ErrorsInv'
    BY <1>1, <1>2, <2>4, ChecksKept
  <2>6. PlaceInv'
    BY <1>1, <1>2, <2>1, <2>2 DEF PlaceInv, Unit
  <2>7. MapsInv' /\ EndInv'
    BY <1>1, <1>2, <2>1 DEF MapsInv, EndInv
  <2> QED
    BY <1>1, <1>2, <2>1, <2>5, <2>6, <2>7 DEF VtdInv, LookInv
<1> QED
  BY <1>4, <1>5

(* More errors show no less.                                               *)
LEMMA ShownStays ==
  ASSUME NEW es, NEW fs, es \subseteq fs, NEW m, NEW loc, NEW e, NEW size, NEW n, AllShown(m, es, loc, e, size, n)
  PROVE  AllShown(m, fs, loc, e, size, n)
BY DEF AllShown, Shown

(* CheckPtEntry returns from a leaf, whose pages are all shown if nothing  *)
(* is known of the device.                                                 *)
LEMMA ReturnStep ==
  ASSUME VtdInv, phase \in {"paging", "lookup"}, AtLeaf, Return, UNCHANGED <<machine, maps, unit, bus, ctx>>,
         errors \subseteq errors', mHasError' \in BOOLEAN, ErrorsInv',
         AllShown(machine, errors', Location, Entry, Size, Size)
  PROVE  VtdInv'
<1> DEFINE t == machine.tables  place == <<unit, bus, ctx>>  n == Len(levels)  size == Size
           new == Mark(Location, Leaf(Entry, size))
           call == [loc |-> Location, addr |-> Entry.addr, size |-> size]
<1>0. /\ levels' = Advance(levels) /\ phase' = "paging" /\ kept' = {} /\ checked' = Append(checked, call)
      /\ Entry # Zero /\ IsLeaf /\ Top.idx <= TableSize
  BY DEF Return, AtLeaf
<1>1. /\ MapsInv /\ PlaceInv /\ ChecksInv /\ machine \in Machines
      /\ FramesInv(machine, levels) /\ levels[1].page = ContextAt(machine, place).page
      /\ levels \in Seq([page : AllPages(machine), idx : Nat]) /\ n \in 1..4
      /\ Top.idx \in 1..(TableSize + 1) /\ Entry \in Entries
  BY <1>0, InTables
<1>2. n = 4 \/ (n = 3 /\ Entry.large)
  <2>1. \A k \in 1..4 : (5 - k = 1 <=> k = 4) /\ (5 - k = 2 <=> k = 3)
    OBVIOUS
  <2>2. (Level = 1 <=> n = 4) /\ (Level = 2 <=> n = 3)
    BY <1>1, <2>1 DEF Level
  <2> QED
    BY <1>0, <2>2 DEF IsLeaf
<1>3. LeafAt(t, n, Entry) = {Leaf(Entry, size)}
  <2>1. CASE n = 4
    <3>1. Level = 1
      BY <2>1 DEF Level
    <3> QED
      BY <1>0, <2>1, <3>1 DEF LeafAt, Leaf1, Size
  <2>2. CASE n = 3 /\ Entry.large
    <3>1. Level = 2
      BY <2>2 DEF Level
    <3> QED
      BY <1>0, <2>2, <3>1 DEF LeafAt, Leaf2, Size
  <2> QED
    BY <1>2, <2>1, <2>2
<1>4. LeavesDone(t, levels') = LeavesDone(t, levels) \cup {Leaf(Entry, size)}
  <2>1. n # 0 /\ levels[n].idx # 0
    <3>1. (\A k \in 1..4 : k # 0) /\ \A k \in 1..(TableSize + 1) : k # 0
      OBVIOUS
    <3> QED
      BY <1>1, <3>1 DEF Top
  <2>2. LeavesDone(t, Advance(levels)) = LeavesDone(t, levels) \cup LeafAt(t, n, t[levels[n].page][levels[n].idx])
    BY <1>1, <2>1, DoneAdvance
  <2>3. t[levels[n].page][levels[n].idx] = Entry
    BY DEF Entry, Top
  <2> QED
    BY <1>0, <1>3, <2>2, <2>3
<1>5. Location = LocationAt(machine, place)
  BY DEF Location, LocationAt, Unit
<1> HIDE DEF size
<1>6. Now' = Now \cup {new}
  <2> DEFINE L == LeavesDone(t, levels)  Q == UNION {Sought(machine, x) : x \in Passed(machine, unit, bus, ctx)}
  <2>1. Now = Q \cup {Mark(Location, l) : l \in L}
    BY <1>5 DEF Now, Marks
  <2>2. Now' = Q \cup {Mark(Location, l) : l \in L \cup {Leaf(Entry, size)}}
    BY <1>4, <1>5 DEF Now, Marks
  <2> HIDE DEF L, Q
  <2> QED
    BY <2>1, <2>2
<1>7. IsList(checked') /\ Range(checked') = Range(checked) \cup {call}
  BY <1>0, <1>1, ListAdded DEF ChecksInv
<1>8. CallOf(new) = call /\ new.size = size /\ new.loc = Location /\ new.entry = Entry
  BY DEF CallOf, Mark, Leaf
<1>9. PlaceInv'
  <2>1. FramesInv(machine, Advance(levels)) /\ Advance(levels)[1].page = levels[1].page
    BY <1>0, <1>1, FramesAdvance DEF Top
  <2> QED
    BY <1>0, <1>1, <2>1 DEF PlaceInv, Unit
<1>10. ASSUME NEW d \in Now' PROVE AllShown(machine, errors', d.loc, d.entry, d.size, d.size)
  <2>1. CASE d \in Now
    <3>1. AllShown(machine, errors, d.loc, d.entry, d.size, d.size)
      BY <1>1, <2>1 DEF ChecksInv
    <3> QED
      BY <3>1, ShownStays
  <2>2. CASE d = new
    BY <1>8, <2>2 DEF size
  <2> QED
    BY <1>6, <1>10, <2>1, <2>2
<1> HIDE DEF new, call, t, n, place
<1>11. Range(checked)' = {CallOf(d) : d \in Now'}
  <2>1. Range(checked) = {CallOf(d) : d \in Now}
    BY <1>1 DEF ChecksInv
  <2> QED
    BY <1>6, <1>7, <1>8, <2>1
<1>12. ChecksInv'
  BY <1>7, <1>10, <1>11 DEF ChecksInv
<1>13. MapsInv' /\ EndInv' /\ LookInv'
  BY <1>0, <1>1 DEF MapsInv, EndInv, LookInv
<1> QED
  BY <1>1, <1>9, <1>12, <1>13 DEF VtdInv

(* The answer for a page is reported as it should be, and the next page is *)
(* asked for or CheckPtEntry returns.                                      *)
LEMMA CheckedStep ==
  ASSUME VtdInv, phase = "lookup", NEW found \in BOOLEAN, Checked(found), UNCHANGED <<machine, maps, unit, bus, ctx>>,
         ~found => \A m \in kept : ~MapCovers(m, Location, Page, Access(Entry)),
         Unknown(machine, Location, Entry) => ~found
  PROVE  VtdInv'
<1> DEFINE new == [loc |-> Location, addr |-> Page, access |-> Access(Entry), size |-> Size, kept |-> kept]
<1>1. MapsInv /\ PlaceInv /\ ErrorsInv /\ ChecksInv /\ machine \in Machines /\ mHasError \in BOOLEAN
  BY InTables
<1>2. Asking
  BY DEF VtdInv, LookInv
<1>3. AtLeaf /\ index \in 0..(Size - 1) /\ NoRecord(machine, Location, Entry)
  BY <1>2 DEF Asking
<1>4. Entry \in Entries /\ Entry.addr \in Nat /\ Size \in Nat /\ index \in Nat
  BY <1>3, InTables, SizesAssumption DEF AtLeaf, Entries, Size
<1>5. Page \in Nat /\ Page + 1 \in Nat
  BY <1>4 DEF Page
<1>6. kept \subseteq Range(machine.maps) /\ NoMap \notin Range(maps)
  BY <1>1, MachineFacts DEF MapsInv, Probe, NoMap
<1>7. errors' = (IF found THEN errors ELSE errors \cup {new}) /\ mHasError' = (mHasError \/ (Size = 1 /\ ~found))
  BY DEF Checked, HasError
<1>8. new.loc = Location /\ new.addr = Page /\ new.access = Access(Entry) /\ new.size = Size /\ new.kept = kept
  OBVIOUS
<1> HIDE DEF new
<1>9. ErrorsInv'
  <2>1. mHasError' = \E e \in errors' : e.size = 1
    BY <1>1, <1>7, <1>8 DEF ErrorsInv
  <2>2. ~found =>
          /\ new.access # <<FALSE, FALSE>> /\ new.loc \notin Range(machine.exceptions)
          /\ \A r \in Range(machine.rmrr) : ~InRegion(r, new.loc, new.addr)
          /\ \A m \in new.kept : ~InMapping(m, new.loc, new.addr, new.access)
    <3>1. ~found => \A m \in kept : ~InMapping(m, Location, Page, Access(Entry))
      BY <1>1, <1>5, <1>6, NotExplained
    <3> QED
      BY <1>3, <1>8, <3>1 DEF NoRecord, InRegion
  <2>3. NoFalseAlarm'
    BY <1>1, <1>7, <2>2 DEF ErrorsInv, NoFalseAlarm
  <2> QED
    BY <2>1, <2>3 DEF ErrorsInv
<1>10. errors \subseteq errors' /\ mHasError' \in BOOLEAN
  BY <1>7
<1>11. AllShown(machine, errors', Location, Entry, Size, index + 1)
  <2> SUFFICES ASSUME Unknown(machine, Location, Entry), NEW k \in 0..((index + 1) - 1)
               PROVE  Shown(errors', Location, Entry, Size, k)
    BY DEF AllShown
  <2>1. CASE k = index
    BY <1>7, <1>8, <2>1 DEF Shown, Page
  <2>2. CASE k # index
    <3>1. k \in 0..(index - 1)
      BY <1>4, <2>2
    <3> QED
      BY <1>2, <1>10, <3>1 DEF Asking, AllShown, Shown
  <2> QED
    BY <2>1, <2>2
<1>12. ~ExistInRmrr(Location, Page + 1)
  BY <1>1, <1>3, <1>4, <1>5, PassedIs DEF NoRecord
<1>13. CASE index + 1 < Size
  <2>1. /\ index' = index + 1 /\ cursor' = LastMap(maps) /\ kept' = Range(maps)
        /\ UNCHANGED <<phase, levels, checked>>
    BY <1>12, <1>13 DEF Checked, Lookup
  <2>2. MapsInv' /\ PlaceInv' /\ EndInv'
    BY <1>1, <2>1 DEF MapsInv, PlaceInv, Unit, EndInv
  <2>3. ChecksInv'
    <3>1. Now' = Now
      BY <2>1 DEF Now
    <3>2. \A d \in Now : AllShown(machine, errors', d.loc, d.entry, d.size, d.size)
      BY <1>1, <1>10, ShownStays DEF ChecksInv
    <3>3. IsList(checked) /\ Range(checked) = {CallOf(d) : d \in Now}
      BY <1>1 DEF ChecksInv
    <3> DEFINE N == Now
    <3>4. Now' = N
      BY <3>1
    <3> HIDE DEF N
    <3> QED
      BY <2>1, <3>2, <3>3, <3>4 DEF ChecksInv, N
  <2>4. UNCHANGED <<Top, Entry, Location, Size, AtLeaf>>
    BY <2>1 DEF Top, Entry, Location, Unit, Size, Level, AtLeaf, IsLeaf
  <2>5. Looked(maps, Range(maps), LastMap(maps), Location, Page', Access(Entry))
    BY <1>1, <1>6, LookedFirst DEF MapsInv
  <2>6. index' \in 0..(Size - 1)
    BY <1>3, <1>4, <1>13, <2>1
  <2>7. Asking'
    BY <1>3, <1>11, <2>1, <2>4, <2>5, <2>6 DEF Asking
  <2> QED
    BY <1>1, <1>9, <1>10, <2>2, <2>3, <2>7 DEF VtdInv, LookInv
<1>14. CASE ~(index + 1 < Size)
  <2>1. Return
    BY <1>12, <1>14 DEF Checked
  <2>2. index + 1 = Size
    BY <1>3, <1>4, <1>14
  <2> QED
    BY <1>3, <1>9, <1>10, <1>11, <2>1, <2>2, ReturnStep
<1> QED
  BY <1>13, <1>14

(* One mapping of a lookup, or its end.                                    *)
LEMMA ExistStep == VtdInv /\ ExistInIoMmuMap => VtdInv'
<1> SUFFICES ASSUME VtdInv, ExistInIoMmuMap PROVE VtdInv'
  OBVIOUS
<1>1. phase = "lookup" /\ UNCHANGED <<machine, maps, unit, bus, ctx>>
  BY DEF ExistInIoMmuMap
<1>2. MapsInv /\ PlaceInv /\ ErrorsInv /\ ChecksInv /\ machine \in Machines /\ mHasError \in BOOLEAN
  BY <1>1, InTables
<1>3. Asking
  BY <1>1 DEF VtdInv, LookInv
<1>4. Entry \in Entries /\ Page \in Nat
  <2>1. Entry \in Entries
    BY <1>1, <1>3, InTables DEF Asking, AtLeaf
  <2>2. Size \in Nat /\ Entry.addr \in Nat
    BY <2>1, SizesAssumption DEF Entries, Size
  <2> QED
    BY <1>3, <2>1, <2>2 DEF Asking, Page
<1>5. kept \subseteq Range(machine.maps) /\ NoMap \notin Range(maps)
  BY <1>1, <1>2, MachineFacts DEF MapsInv, Probe, NoMap
<1>6. Looked(maps, kept, cursor, Location, Page, Access(Entry))
  BY <1>3 DEF Asking
<1>7. CASE cursor = NoMap /\ Checked(FALSE)
  BY <1>1, <1>6, <1>7, CheckedStep DEF Looked
<1>8. CASE cursor \in kept /\ MapCovers(cursor, Location, Page, Access(Entry)) /\ Checked(TRUE)
  <2>1. ~Unknown(machine, Location, Entry)
    BY <1>2, <1>4, <1>5, <1>8, PassedIs
  <2> QED
    BY <1>1, <1>8, <2>1, CheckedStep
<1>9. CASE /\ cursor \in kept /\ ~MapCovers(cursor, Location, Page, Access(Entry)) /\ cursor' = MapBefore(cursor)
           /\ UNCHANGED <<phase, kept, levels, index, checked, errors, mHasError>>
  <2>1. MapsInv' /\ PlaceInv' /\ EndInv'
    BY <1>1, <1>2, <1>9 DEF MapsInv, PlaceInv, Unit, EndInv
  <2>2. ChecksInv' /\ ErrorsInv'
    <3>1. Now' = Now
      BY <1>1, <1>9 DEF Now
    <3> QED
      BY <1>1, <1>2, <1>9, <3>1, ChecksKept
  <2>3. UNCHANGED <<Top, Entry, Location, Size, Page, AtLeaf>>
    BY <1>1, <1>9 DEF Top, Entry, Location, Unit, Size, Page, Level, AtLeaf, IsLeaf
  <2>4. Looked(maps, kept, MapBefore(cursor), Location, Page, Access(Entry))
    BY <1>2, <1>5, <1>6, <1>9, LookedNext DEF MapsInv
  <2>5. Asking'
    BY <1>1, <1>3, <1>9, <2>3, <2>4 DEF Asking
  <2> QED
    BY <1>1, <1>2, <1>9, <2>1, <2>2, <2>5 DEF VtdInv, LookInv
<1>10. CASE phase' = "undefined"
  BY <1>10 DEF VtdInv
<1> QED
  BY <1>7, <1>8, <1>9, <1>10 DEF ExistInIoMmuMap

(* An entry of a table.                                                    *)
LEMMA TableEntryStep == VtdInv /\ TableEntry => VtdInv'
<1> SUFFICES ASSUME VtdInv, TableEntry PROVE VtdInv'
  OBVIOUS
<1> DEFINE place == <<unit, bus, ctx>>  t == machine.tables  n == Len(levels)
<1>1. phase = "paging" /\ Top.idx <= TableSize /\ UNCHANGED <<machine, maps, unit, bus, ctx>>
  BY DEF TableEntry
<1>2. /\ MapsInv /\ PlaceInv /\ ErrorsInv /\ ChecksInv /\ mHasError \in BOOLEAN /\ machine \in Machines
      /\ FramesInv(machine, levels) /\ levels[1].page = ContextAt(machine, place).page
      /\ levels \in Seq([page : AllPages(machine), idx : Nat]) /\ n \in 1..4
      /\ Top.idx \in 1..(TableSize + 1)
  BY <1>1, InTables
<1>3. Entry = t[levels[n].page][levels[n].idx] /\ levels[n].idx <= TableSize
  BY <1>1 DEF Entry, Top
<1>4. n # 0 /\ levels[n].idx # 0
  BY <1>2 DEF Top
<1>5. FramesInv(machine, Advance(levels)) /\ Advance(levels)[1].page = levels[1].page
  BY <1>2, <1>3, FramesAdvance
<1>6. ASSUME FramesInv(machine, levels'), levels'[1].page = levels[1].page, phase' = phase PROVE PlaceInv'
  BY <1>1, <1>2, <1>6 DEF PlaceInv, Unit
<1>7. phase' = phase /\ kept' = kept => MapsInv' /\ EndInv'
  BY <1>1, <1>2 DEF MapsInv, EndInv
<1>8. CASE Entry = Zero
  <2>1. levels' = Advance(levels) /\ UNCHANGED <<phase, kept, checked, errors, mHasError>>
    BY <1>8 DEF TableEntry
  <2>2. LeafAt(t, n, Entry) = {}
    BY <1>8 DEF LeafAt, Leaf1, Leaf2, Leaf3, Leaf4
  <2>3. LeavesDone(t, Advance(levels)) = LeavesDone(t, levels)
    <3>1. LeavesDone(t, Advance(levels)) = LeavesDone(t, levels) \cup LeafAt(t, n, t[levels[n].page][levels[n].idx])
      BY <1>2, <1>4, DoneAdvance
    <3> QED
      BY <1>3, <2>2, <3>1
  <2>4. Now' = Now
    BY <1>1, <2>1, <2>3 DEF Now, Marks
  <2>5. ChecksInv' /\ ErrorsInv'
    BY <1>1, <1>2, <2>1, <2>4, ChecksKept
  <2> QED
    BY <1>1, <1>2, <1>5, <1>6, <1>7, <2>1, <2>5 DEF VtdInv, LookInv
<1>9. CASE Entry # Zero /\ ~IsLeaf
  <2> DEFINE f == [page |-> Entry.addr, idx |-> 1]
  <2>1. levels' = Append(levels, f) /\ UNCHANGED <<phase, kept, checked, errors, mHasError>>
    BY <1>9 DEF TableEntry
  <2>2. n # 4 /\ (n = 3 => ~Entry.large)
    <3>1. \A k \in 1..4 : (k = 4 => 5 - k = 1) /\ (k = 3 => 5 - k = 2)
      OBVIOUS
    <3>2. (n = 4 => Level = 1) /\ (n = 3 => Level = 2)
      BY <1>2, <3>1 DEF Level
    <3> QED
      BY <1>9, <3>2 DEF IsLeaf
  <2>3. FramesInv(machine, Append(levels, f)) /\ Append(levels, f)[1] = levels[1]
    BY <1>2, <1>3, <1>9, <2>2, FramesPush
  <2>4. Entry.addr \in AllPages(machine)
    <3>1. n \in 1..3
      BY <1>2, <2>2
    <3>2. levels[n].page \in PagesAt(machine, n) /\ levels[n].idx \in 1..TableSize
      BY <1>2, <1>3, TopIs, SizesAssumption
    <3>3. Entry.addr \in PagesAt(machine, n + 1)
      BY <1>2, <1>3, <1>9, <2>2, <3>1, <3>2, NextPage
    <3> QED
      BY <3>3 DEF PagesAt, AllPages
  <2>5. LeavesDone(t, Append(levels, f)) = LeavesDone(t, levels)
    BY <1>2, <2>4, DonePush
  <2> HIDE DEF f
  <2>6. Now' = Now
    BY <1>1, <2>1, <2>5 DEF Now, Marks
  <2>7. ChecksInv' /\ ErrorsInv'
    BY <1>1, <1>2, <2>1, <2>6, ChecksKept
  <2> QED
    BY <1>1, <1>2, <1>6, <1>7, <2>1, <2>3, <2>7 DEF VtdInv, LookInv
<1>10. CASE Entry # Zero /\ IsLeaf
  <2>1. CheckPtEntry
    BY <1>10 DEF TableEntry
  <2>2. Entry \in Entries /\ Entry.addr \in Nat /\ AtLeaf /\ Size \in Nat \ {0}
    BY <1>1, <1>10, InTables, SizesAssumption DEF AtLeaf, Entries, Size
  <2>3. NoMap \notin Range(maps)
    BY <1>1, <1>2, MachineFacts DEF MapsInv, Probe, NoMap
  <2>4. PassedOver <=> ~NoRecord(machine, Location, Entry)
    BY <1>2, <2>2, PassedIs DEF PassedOver, NoRecord, ExistInExceptionList
  <2>5. CASE PassedOver
    <3>1. Return /\ UNCHANGED <<errors, mHasError>>
      BY <2>1, <2>5 DEF CheckPtEntry
    <3>2. AllShown(machine, errors', Location, Entry, Size, Size)
      BY <1>2, <2>2, <2>4, <2>5, PassedIs DEF AllShown
    <3>3. ErrorsInv'
      BY <1>1, <1>2, <3>1 DEF ErrorsInv, NoFalseAlarm
    <3> QED
      BY <1>1, <1>2, <2>2, <3>1, <3>2, <3>3, ReturnStep
  <2>6. CASE ~PassedOver /\ phase' = "lookup"
    <3>1. /\ index' = 0 /\ cursor' = LastMap(maps) /\ kept' = Range(maps)
          /\ UNCHANGED <<levels, checked, errors, mHasError>>
      BY <2>1, <2>6 DEF CheckPtEntry, Lookup
    <3>2. MapsInv' /\ PlaceInv' /\ EndInv'
      BY <1>1, <1>2, <2>6, <3>1 DEF MapsInv, PlaceInv, Unit, EndInv
    <3>3. ChecksInv' /\ ErrorsInv'
      <4>1. Now' = Now
        BY <1>1, <3>1 DEF Now
      <4> QED
        BY <1>1, <1>2, <3>1, <4>1, ChecksKept
    <3>4. UNCHANGED <<Top, Entry, Location, Size, AtLeaf>>
      BY <1>1, <3>1 DEF Top, Entry, Location, Unit, Size, Level, AtLeaf, IsLeaf
    <3>5. Looked(maps, Range(maps), LastMap(maps), Location, Page', Access(Entry))
      BY <1>2, <2>3, LookedFirst DEF MapsInv
    <3>6. index' \in 0..(Size - 1)
      BY <2>2, <3>1
    <3>7. AllShown(machine, errors', Location, Entry, Size, 0)
      BY DEF AllShown
    <3>8. Asking'
      BY <1>1, <2>2, <2>4, <2>6, <3>1, <3>4, <3>5, <3>6, <3>7 DEF Asking
    <3> QED
      BY <1>1, <1>2, <3>1, <3>2, <3>3, <3>8 DEF VtdInv, LookInv
  <2>7. CASE phase' = "undefined"
    BY <2>7 DEF VtdInv
  <2> QED
    BY <2>1, <2>5, <2>6, <2>7 DEF CheckPtEntry
<1> QED
  BY <1>8, <1>9, <1>10

-----------------------------------------------------------------------------
(***************************************************************************)
(* The theorems.                                                           *)
(***************************************************************************)
(* Every step keeps the invariant.                                         *)
LEMMA NextVtd == VtdInv /\ [TranslationNext]_translationVars => VtdInv'
<1> SUFFICES ASSUME VtdInv, [TranslationNext]_translationVars PROVE VtdInv'
  OBVIOUS
<1>1. CASE UNCHANGED translationVars
  <2>1. UNCHANGED <<phase, machine, maps, cursor, kept, unit, bus, ctx, levels, index, checked, errors, mHasError>>
    BY <1>1 DEF translationVars
  <2>2. UNCHANGED <<Now, Asking>>
    BY <2>1 DEF Now, Asking, AtLeaf, IsLeaf, Top, Entry, Location, Unit, Size, Page, Level
  <2>3. UNCHANGED <<MapsInv, PlaceInv, EndInv, LookInv>>
    BY <2>1, <2>2 DEF MapsInv, PlaceInv, EndInv, LookInv, Unit
  <2>4. ErrorsInv /\ ChecksInv => ErrorsInv' /\ ChecksInv'
    BY <2>1, <2>2, ChecksKept
  <2> QED
    BY <2>1, <2>3, <2>4 DEF VtdInv
<1>2. CASE Over
  BY <1>1, <1>2 DEF Over
<1>3. CASE Application
  BY <1>3, MapProbeStep, GetListStep, DumpListStep, VerdictStep, NextUnitStep, ContextStep, TableEndStep, TableEntryStep, ExistStep
  DEF Application
<1>4. CASE DriverMap \/ DriverUnmap
  BY <1>4, DriverStep
<1> QED
  BY <1>1, <1>2, <1>3, <1>4 DEF TranslationNext

(* No step adds a false alarm, not even one whose outcome is undefined.     *)
LEMMA NextAlarm == VtdInv /\ NoFalseAlarm /\ [TranslationNext]_translationVars => NoFalseAlarm'
<1> SUFFICES ASSUME VtdInv, NoFalseAlarm, [TranslationNext]_translationVars PROVE NoFalseAlarm'
  OBVIOUS
<1>1. CASE phase' # "undefined"
  <2>1. VtdInv'
    BY NextVtd
  <2> QED
    BY <1>1, <2>1 DEF VtdInv, ErrorsInv
<1>2. CASE phase' = "undefined"
  <2>1. UNCHANGED <<machine, errors>>
    <3>1. CASE UNCHANGED translationVars \/ Over
      BY <3>1 DEF Over, translationVars
    <3>2. CASE DriverMap \/ DriverUnmap
      BY <3>2 DEF DriverMap, DriverUnmap, walkVars
    <3>3. CASE MapProbe \/ GetIoMmuMapList \/ DumpIoMmuMapList \/ Verdict
      BY <3>3 DEF MapProbe, GetIoMmuMapList, DumpIoMmuMapList, Verdict, walkVars
    <3>4. CASE NextUnit \/ DumpDmarContextEntryTable \/ TableEnd
      BY <3>4 DEF NextUnit, DumpDmarContextEntryTable, TableEnd
    <3>5. CASE TableEntry
      <4>1. machine' = machine
        BY <3>5 DEF TableEntry
      <4>2. errors' = errors
        BY <3>5 DEF TableEntry, CheckPtEntry
      <4> QED
        BY <4>1, <4>2
    <3>6. CASE ExistInIoMmuMap
      <4>1. ASSUME NEW found, phase = "lookup", Checked(found) PROVE phase' # "undefined"
        BY <4>1 DEF Checked, Return
      <4> QED
        BY <1>2, <3>6, <4>1 DEF ExistInIoMmuMap
    <3> QED
      BY <3>1, <3>2, <3>3, <3>4, <3>5, <3>6 DEF TranslationNext, Application
  <2> QED
    BY <2>1 DEF NoFalseAlarm
<1> QED
  BY <1>1, <1>2

(* The invariant gives the property.                                       *)
LEMMA VtdRight == VtdInv /\ NoFalseAlarm => CheckRight
<1> SUFFICES ASSUME VtdInv, NoFalseAlarm PROVE CheckRight
  OBVIOUS
<1>1. ProbeGone
  BY DEF ProbeGone, VtdInv, MapsInv
<1>2. ASSUME Finished PROVE LeavesChecked /\ UnknownReported
  <2>1. /\ phase \in {"PASS", "FAIL"} /\ machine \in Machines /\ MapsInv /\ PlaceInv /\ ErrorsInv /\ ChecksInv /\ EndInv
        /\ mHasError \in BOOLEAN
    BY <1>2 DEF VtdInv, Finished
  <2>2. unit = Len(machine.units) + 1 /\ mHasError = (phase = "FAIL") /\ levels = <<>> /\ bus \in Nat /\ ctx \in Nat
    BY <2>1 DEF EndInv, PlaceInv
  <2>3. Passed(machine, unit, bus, ctx) = Walked(machine)
    <3>1. ASSUME NEW x \in Walked(machine) PROVE x[1] < unit
      <4>1. x[1] \in 1..Len(machine.units) /\ Len(machine.units) \in Nat
        BY <2>1, WalkedNumbers, MachineFacts, LenProperties DEF IsList
      <4> QED
        BY <2>2, <4>1
    <3> QED
      BY <3>1 DEF Passed
  <2>4. Now = UNION {Sought(machine, x) : x \in Walked(machine)}
    BY <2>2, <2>3, MarksOutside DEF Now
  <2>5. \A x, l : CallOf(Mark(LocationAt(machine, x), l)) = [loc |-> LocationAt(machine, x), addr |-> l.entry.addr, size |-> l.size]
    BY DEF CallOf, Mark
  <2>6. LeavesChecked
    <3>1. Range(checked) = {CallOf(d) : d \in Now}
      BY <2>1 DEF ChecksInv
    <3>2. \A x : CalledFor(machine, x) = {CallOf(d) : d \in Sought(machine, x)}
      <4> SUFFICES ASSUME NEW x PROVE CalledFor(machine, x) = {CallOf(d) : d \in Sought(machine, x)}
        OBVIOUS
      <4> DEFINE C(l) == [loc |-> LocationAt(machine, x), addr |-> l.entry.addr, size |-> l.size]
                 M(l) == Mark(LocationAt(machine, x), l)
      <4>1. CalledFor(machine, x) = {C(l) : l \in LeavesAt(machine, x)} /\ Sought(machine, x) = {M(l) : l \in LeavesAt(machine, x)}
        BY DEF CalledFor, Sought
      <4>2. \A l : CallOf(M(l)) = C(l)
        BY <2>5
      <4> HIDE DEF C, M
      <4> QED
        BY <4>1, <4>2
    <3>3. {CallOf(d) : d \in Now} = UNION {CalledFor(machine, x) : x \in Walked(machine)}
      <4> HIDE DEF Now
      <4>1. \A c : c \in UNION {CalledFor(machine, x) : x \in Walked(machine)} <=>
                     \E x \in Walked(machine) : \E d \in Sought(machine, x) : c = CallOf(d)
        BY <3>2
      <4>2. \A c : c \in {CallOf(d) : d \in Now} <=> \E d \in Now : c = CallOf(d)
        OBVIOUS
      <4>3. \A d : d \in Now <=> \E x \in Walked(machine) : d \in Sought(machine, x)
        BY <2>4
      <4>4. \A c : c \in {CallOf(d) : d \in Now} <=> c \in UNION {CalledFor(machine, x) : x \in Walked(machine)}
        BY <4>1, <4>2, <4>3, Zenon
      <4> QED
        BY <4>4
    <3> QED
      BY <3>1, <3>3 DEF LeavesChecked
  <2>7. ASSUME NEW x \in Walked(machine), NEW l \in LeavesAt(machine, x), Unknown(machine, LocationAt(machine, x), l.entry),
               NEW k \in 0..(l.size - 1)
        PROVE  \E e \in errors : e.loc = LocationAt(machine, x) /\ e.addr = l.entry.addr + k /\ e.size = l.size
    <3> DEFINE d == Mark(LocationAt(machine, x), l)
    <3>1. d.loc = LocationAt(machine, x) /\ d.entry = l.entry /\ d.size = l.size
      BY DEF Mark
    <3>2. d \in Now
      BY <2>4 DEF Sought
    <3> HIDE DEF d
    <3>3. AllShown(machine, errors, d.loc, d.entry, d.size, d.size)
      BY <2>1, <3>2 DEF ChecksInv
    <3> QED
      BY <2>7, <3>1, <3>3 DEF AllShown, Shown
  <2>8. (phase = "FAIL") = \E e \in errors : e.size = 1
    BY <2>1, <2>2 DEF ErrorsInv
  <2> QED
    BY <2>6, <2>7, <2>8 DEF UnknownReported
<1> QED
  BY <1>1, <1>2 DEF CheckRight, LeavesChecked, UnknownReported

(* The walk through the translation tables always has behind it exactly    *)
(* the pages that CheckPtEntry was called for, each error line is about a  *)
(* page that nothing lasting explains, all pages of unknown devices have   *)
(* one, and a lookup has passed every lasting mapping behind its cursor    *)
(* (DumpVtdTranslation, CheckPtEntry, ExistInIoMmuMap).                    *)
THEOREM VtdInvariant == TranslationSpec => [](VtdInv /\ NoFalseAlarm)
<1>1. TranslationInit => VtdInv /\ NoFalseAlarm
  BY InitVtd DEF TranslationInit, NoFalseAlarm
<1>2. VtdInv /\ NoFalseAlarm /\ [TranslationNext]_translationVars => (VtdInv /\ NoFalseAlarm)'
  BY NextVtd, NextAlarm
<1> QED
  BY <1>1, <1>2, PTL DEF TranslationSpec

(* When the verdict is printed, every page of every context that is walked *)
(* was checked, and nothing else; no error line is about a page that an    *)
(* exception, a region or a mapping explains that was listed throughout    *)
(* its lookup, whatever drivers map and unmap between two links of it, and *)
(* each page of a device that nothing is known of has one; the verdict is  *)
(* "FAIL" exactly if a 4KB page has; the probe mapping is gone.            *)
THEOREM CheckRightAlways == TranslationSpec => []CheckRight
  BY VtdInvariant, VtdRight, PTL

-----------------------------------------------------------------------------
(***************************************************************************)
(* Which functions each unit translates, for all tables, buses and         *)
(* policies.                                                               *)
(***************************************************************************)
(* Induction on the natural numbers, for a set.                            *)
LEMMA Induction ==
  ASSUME NEW S, 0 \in S, \A n \in Nat : n \in S => n + 1 \in S
  PROVE  Nat \subseteq S
<1> DEFINE T == Nat \ S
<1> DEFINE R == OpToRel(<, Nat)
<1>1. SUFFICES ASSUME T # {} PROVE FALSE
  OBVIOUS
<1>2. IsWellFoundedOn(R, Nat)
  BY NatLessThanWellFounded
<1>3. PICK x \in T : \A y \in T : ~(<<y, x>> \in R)
  BY <1>1, <1>2, WFMin
<1>4. x \in Nat /\ x # 0 /\ x-1 \in Nat /\ x - 1 < x /\ x = (x-1) + 1
  OBVIOUS
<1>5. <<x-1,x>> \in R
  BY <1>4 DEF OpToRel
<1>6. x - 1 \in S
  <2> HIDE DEF R
  <2> QED BY <1>3, <1>4, <1>5
<1> QED BY <1>4, <1>6

(* A recursion over 0..m, with the step from n - 1 to n as a function.      *)
IsRecursion(f, V, base, move, m) ==
  f \in [0..m -> V] /\ f[0] = base /\ \A n \in 1..m : f[n] = move[n][f[n - 1]]

(* A function defined by recursion on the natural numbers exists.          *)
LEMMA Recursion ==
  ASSUME NEW V, NEW base \in V, NEW m \in Nat, NEW move, \A n \in 1..m : move[n] \in [V -> V]
  PROVE  \E f : IsRecursion(f, V, base, move, m)
<1> DEFINE S == {k \in Nat : k <= m => \E f : IsRecursion(f, V, base, move, k)}
<1>1. 0 \in S
  <2>1. IsRecursion([n \in 0..0 |-> base], V, base, move, 0)
    BY DEF IsRecursion
  <2> QED
    BY <2>1
<1>2. ASSUME NEW k \in Nat, k \in S PROVE k + 1 \in S
  <2>1. SUFFICES ASSUME k + 1 <= m PROVE \E f : IsRecursion(f, V, base, move, k + 1)
    OBVIOUS
  <2>2. PICK f : IsRecursion(f, V, base, move, k)
    BY <1>2, <2>1
  <2>3. f \in [0..k -> V] /\ f[0] = base /\ \A n \in 1..k : f[n] = move[n][f[n - 1]]
    BY <2>2 DEF IsRecursion
  <2> DEFINE v == move[k + 1][f[k]]
             g == [n \in 0..k + 1 |-> IF n = k + 1 THEN v ELSE f[n]]
  <2>4. v \in V
    BY <2>1, <2>3
  <2> HIDE DEF v
  <2>5. g \in [0..k + 1 -> V] /\ g[0] = base /\ g[k + 1] = v /\ \A n \in 0..k : g[n] = f[n]
    BY <2>3, <2>4
  <2> HIDE DEF g
  <2>6. ASSUME NEW n \in 1..k + 1 PROVE g[n] = move[n][g[n - 1]]
    <3>1. CASE n = k + 1
      <4>1. n - 1 = k /\ k \in 0..k
        BY <3>1
      <4> QED
        BY <2>5, <3>1, <4>1 DEF v
    <3>2. CASE n # k + 1
      <4>1. n \in 1..k /\ n \in 0..k /\ n - 1 \in 0..k
        BY <3>2
      <4> QED
        BY <2>3, <2>5, <4>1
    <3> QED
      BY <3>1, <3>2
  <2>7. IsRecursion(g, V, base, move, k + 1)
    BY <2>5, <2>6 DEF IsRecursion
  <2> QED
    BY <2>7
<1> HIDE DEF S
<1>3. Nat \subseteq S
  BY <1>1, <1>2, Induction
<1> QED
  BY <1>3 DEF S

-----------------------------------------------------------------------------
(* What FlattenSeq gives so far: f[k] joins the first k sequences.         *)
Joins(f, T, s) ==
  /\ f \in [0..Len(s) -> Seq(T)] /\ f[0] = <<>>
  /\ \A k \in 1..Len(s) : f[k] = f[k - 1] \o s[k]

(* FlattenSeq joins the sequences one by one.                              *)
LEMMA FlattenIs ==
  ASSUME NEW T, NEW s \in Seq(Seq(T))
  PROVE  \E f : Joins(f, T, s) /\ FlattenSeq(s) = f[Len(s)]
<1> DEFINE m == Len(s)
           move == [n \in 1..m |-> [v \in Seq(T) |-> v \o s[n]]]
<1>1. m \in Nat /\ <<>> \in Seq(T) /\ \A n \in 1..m : s[n] \in Seq(T)
  OBVIOUS
<1>2. ASSUME NEW n \in 1..m PROVE move[n] \in [Seq(T) -> Seq(T)]
  <2>1. \A v \in Seq(T) : v \o s[n] \in Seq(T)
    BY <1>1, ConcatProperties
  <2> QED
    BY <2>1
<1>3. \A n \in 1..m, v \in Seq(T) : move[n][v] = v \o s[n]
  OBVIOUS
<1> HIDE DEF move, m
<1>4. PICK f : IsRecursion(f, Seq(T), <<>>, move, m)
  BY <1>1, <1>2, Recursion
<1>5. f \in [0..m -> Seq(T)] /\ f[0] = <<>> /\ \A n \in 1..m : f[n] = f[n - 1] \o s[n]
  <2>1. f \in [0..m -> Seq(T)] /\ f[0] = <<>> /\ \A n \in 1..m : f[n] = move[n][f[n - 1]]
    BY <1>4 DEF IsRecursion
  <2>2. \A n \in 1..m : n - 1 \in 0..m
    BY <1>1
  <2> QED
    BY <1>3, <2>1, <2>2
<1>6. CASE m = 0
  <2>1. FlattenSeq(s) = s /\ s = <<>>
    BY <1>6 DEF FlattenSeq, m
  <2> QED
    BY <1>5, <1>6, <2>1 DEF Joins, m
<1>7. CASE m # 0
  <2> DEFINE Is(g) == g = [i \in 1..m |-> IF i = 1 THEN s[i] ELSE g[i - 1] \o s[i]]
             F == CHOOSE g : Is(g)
             h == [i \in 1..m |-> f[i]]
  <2>1. f[1] = s[1]
    <3>0. 1 \in 1..m /\ 1 - 1 = 0
      BY <1>1, <1>7
    <3>1. f[1] = f[0] \o s[1] /\ s[1] \in Seq(T)
      BY <1>1, <1>5, <3>0
    <3> QED
      BY <1>5, <3>1, ConcatEmptySeq
  <2>2. ASSUME NEW i \in 1..m
        PROVE  h[i] = IF i = 1 THEN s[i] ELSE h[i - 1] \o s[i]
    <3>1. CASE i = 1
      BY <2>1, <3>1
    <3>2. CASE i # 1
      <4>1. i - 1 \in 1..m
        BY <1>1, <3>2
      <4> QED
        BY <1>5, <3>2, <4>1
    <3> QED
      BY <3>1, <3>2
  <2>3. Is(h)
    <3> HIDE DEF h
    <3>1. h = [i \in 1..m |-> h[i]]
      BY DEF h
    <3> QED
      BY <2>2, <3>1
  <2>4. Is(F)
    <3> HIDE DEF h, Is
    <3> QED
      BY <2>3
  <2>5. FlattenSeq(s) = F[m]
    BY <1>7 DEF FlattenSeq, m
  <2> HIDE DEF F
  <2>6. \A i \in 1..m : F[i] = IF i = 1 THEN s[i] ELSE F[i - 1] \o s[i]
    BY <2>4
  <2> HIDE DEF h, Is
  <2> DEFINE S == {n \in Nat : n \in 1..m => F[n] = f[n]}
  <2>7. ASSUME NEW n \in Nat, n \in S PROVE n + 1 \in S
    <3>1. SUFFICES ASSUME n + 1 \in 1..m PROVE F[n + 1] = f[n + 1]
      OBVIOUS
    <3>2. CASE n = 0
      BY <2>1, <2>6, <3>1, <3>2
    <3>3. CASE n # 0
      <4>1. n \in 1..m /\ (n + 1) - 1 = n /\ n + 1 # 1
        BY <1>1, <3>1, <3>3
      <4>2. F[n + 1] = F[n] \o s[n + 1] /\ f[n + 1] = f[n] \o s[n + 1]
        BY <1>5, <2>6, <3>1, <4>1
      <4>3. F[n] = f[n]
        BY <2>7, <4>1
      <4> QED
        BY <4>2, <4>3
    <3> QED
      BY <3>2, <3>3
  <2>8. 0 \in S
    BY <1>1
  <2>9. m \in S
    <3> HIDE DEF S
    <3>1. Nat \subseteq S
      BY <2>7, <2>8, Induction
    <3> QED
      BY <1>1, <3>1
  <2>10. F[m] = f[m]
    BY <1>1, <1>7, <2>9
  <2> QED
    BY <1>5, <2>5, <2>10 DEF Joins, m
<1> QED
  BY <1>6, <1>7

(* Two ways to join the first sequences agree.                             *)
LEMMA JoinsAgree ==
  ASSUME NEW T, NEW r \in Seq(Seq(T)), NEW s \in Seq(Seq(T)), NEW f, NEW g, Joins(f, T, r), Joins(g, T, s),
         Len(r) <= Len(s), \A k \in 1..Len(r) : r[k] = s[k]
  PROVE  \A k \in 0..Len(r) : f[k] = g[k]
<1> DEFINE m == Len(r)
           S == {n \in Nat : n <= m => f[n] = g[n]}
<1>1. m \in Nat /\ Len(s) \in Nat /\ m <= Len(s)
  BY LenProperties
<1>2. /\ f[0] = <<>> /\ \A k \in 1..m : f[k] = f[k - 1] \o r[k]
      /\ g[0] = <<>> /\ \A k \in 1..Len(s) : g[k] = g[k - 1] \o s[k]
  BY DEF Joins
<1> HIDE DEF m
<1>3. ASSUME NEW n \in Nat, n \in S PROVE n + 1 \in S
  <2>1. SUFFICES ASSUME n + 1 <= m PROVE f[n + 1] = g[n + 1]
    OBVIOUS
  <2>2. n + 1 \in 1..m /\ n + 1 \in 1..Len(s) /\ (n + 1) - 1 = n /\ n <= m
    BY <1>1, <2>1
  <2>3. f[n + 1] = f[n] \o r[n + 1] /\ g[n + 1] = g[n] \o s[n + 1]
    BY <1>2, <2>2
  <2> QED
    BY <1>3, <2>2, <2>3 DEF m
<1>4. 0 \in S
  BY <1>2
<1>5. Nat \subseteq S
  <2> HIDE DEF S
  <2> QED
    BY <1>3, <1>4, Induction
<1> QED
  BY <1>1, <1>5 DEF m

(* FlattenSeq, one sequence at a time.                                     *)
LEMMA FlattenStep ==
  ASSUME NEW T, NEW r \in Seq(Seq(T)), NEW s \in Seq(Seq(T)),
         Len(s) = Len(r) + 1, \A k \in 1..Len(r) : r[k] = s[k]
  PROVE  FlattenSeq(s) = FlattenSeq(r) \o s[Len(s)]
<1>1. Len(r) \in Nat /\ Len(r) <= Len(s) /\ Len(s) \in 1..Len(s) /\ Len(s) - 1 = Len(r) /\ Len(r) \in 0..Len(r)
  BY LenProperties
<1>2. PICK f : Joins(f, T, r) /\ FlattenSeq(r) = f[Len(r)]
  BY FlattenIs
<1>3. PICK g : Joins(g, T, s) /\ FlattenSeq(s) = g[Len(s)]
  BY FlattenIs
<1>4. f[Len(r)] = g[Len(r)]
  <2>1. Joins(f, T, r) /\ Joins(g, T, s) /\ Len(r) <= Len(s)
    BY <1>1, <1>2, <1>3
  <2>2. \A k \in 0..Len(r) : f[k] = g[k]
    BY <2>1, JoinsAgree
  <2> QED
    BY <1>1, <2>2
<1>5. g[Len(s)] = g[Len(r)] \o s[Len(s)]
  BY <1>1, <1>3 DEF Joins
<1> QED
  BY <1>2, <1>3, <1>4, <1>5

(* FlattenSeq gives a sequence, and nothing from no sequence.              *)
LEMMA FlattenSeqs ==
  ASSUME NEW T, NEW s \in Seq(Seq(T))
  PROVE  FlattenSeq(s) \in Seq(T) /\ (Len(s) = 0 => FlattenSeq(s) = <<>>)
<1>1. PICK f : Joins(f, T, s) /\ FlattenSeq(s) = f[Len(s)]
  BY FlattenIs
<1>2. Len(s) \in 0..Len(s)
  BY LenProperties
<1> QED
  BY <1>1, <1>2 DEF Joins

(* What is in the joined sequence is in one of the sequences.              *)
LEMMA FlattenRange ==
  ASSUME NEW T, NEW s \in Seq(Seq(T))
  PROVE  Range(FlattenSeq(s)) = UNION {Range(s[k]) : k \in 1..Len(s)}
<1> DEFINE m == Len(s)
<1>1. PICK f : Joins(f, T, s) /\ FlattenSeq(s) = f[m]
  BY FlattenIs
<1>2. m \in Nat /\ f \in [0..m -> Seq(T)] /\ f[0] = <<>> /\ \A k \in 1..m : f[k] = f[k - 1] \o s[k] /\ s[k] \in Seq(T)
  <2>1. \A k \in 1..m : s[k] \in Seq(T)
    BY ElementOfSeq
  <2> QED
    BY <1>1, <2>1, LenProperties DEF Joins
<1> HIDE DEF m
<1> DEFINE S == {n \in Nat : n <= m => Range(f[n]) = UNION {Range(s[k]) : k \in 1..n}}
<1>3. 0 \in S
  <2>1. Range(f[0]) = {}
    BY <1>2 DEF Range
  <2>2. 1..0 = {}
    OBVIOUS
  <2> QED
    BY <2>1, <2>2
<1>4. ASSUME NEW n \in Nat, n \in S PROVE n + 1 \in S
  <2>1. SUFFICES ASSUME n + 1 <= m PROVE Range(f[n + 1]) = UNION {Range(s[k]) : k \in 1..(n + 1)}
    OBVIOUS
  <2>2. n + 1 \in 1..m /\ (n + 1) - 1 = n /\ n <= m /\ n \in 0..m /\ 1..(n + 1) = 1..n \cup {n + 1}
    BY <1>2, <2>1
  <2>3. f[n + 1] = f[n] \o s[n + 1] /\ f[n] \in Seq(T) /\ s[n + 1] \in Seq(T)
    BY <1>2, <2>2
  <2>4. Range(f[n + 1]) = Range(f[n]) \cup Range(s[n + 1])
    BY <2>3, RangeConcatenation
  <2>5. Range(f[n]) = UNION {Range(s[k]) : k \in 1..n}
    BY <1>4, <2>2
  <2> QED
    BY <2>2, <2>4, <2>5
<1>5. m \in S
  <2> HIDE DEF S
  <2>1. Nat \subseteq S
    BY <1>3, <1>4, Induction
  <2> QED
    BY <1>2, <2>1
<1>6. Range(f[m]) = UNION {Range(s[k]) : k \in 1..m}
  BY <1>2, <1>5
<1> QED
  BY <1>1, <1>6 DEF m

-----------------------------------------------------------------------------
(***************************************************************************)
(* The structures of some types among the first ones of the table.         *)
(***************************************************************************)
\* What one structure adds to OfTypes.
Chosen(d, types, k) == IF d[k].type \in types THEN <<d[k]>> ELSE <<>>

(* One structure at a time is chosen, or not.                              *)
LEMMA OfTypesIs ==
  ASSUME NEW d, IsSequence(d), NEW types
  PROVE  /\ OfTypes(d, types, 0) = <<>>
         /\ \A n \in 0..Len(d) : OfTypes(d, types, n) \in Seq(Range(d))
         /\ \A n \in 1..Len(d) : OfTypes(d, types, n) =
              IF d[n].type \in types THEN Append(OfTypes(d, types, n - 1), d[n]) ELSE OfTypes(d, types, n - 1)
<1> DEFINE T == Range(d)
           m == Len(d)
           K(n) == [k \in 1..n |-> Chosen(d, types, k)]
<1>1. d \in Seq(T) /\ m \in Nat
  BY LenProperties DEF IsSequence
<1>2. \A k \in 1..m : d[k] \in T
  BY <1>1, ElementOfSeq
<1> HIDE DEF m
<1>3. ASSUME NEW n \in 0..m PROVE K(n) \in Seq(Seq(T)) /\ Len(K(n)) = n /\ OfTypes(d, types, n) = FlattenSeq(K(n))
  <2>1. \A k \in 1..n : Chosen(d, types, k) \in Seq(T)
    BY <1>1, <1>2 DEF Chosen
  <2>2. K(n) \in [1..n -> Seq(T)] /\ n \in Nat
    BY <1>1, <2>1
  <2>3. K(n) \in Seq(Seq(T)) /\ Len(K(n)) = n
    BY <2>2
  <2> QED
    BY <2>3 DEF OfTypes, Chosen
<1>4. \A n \in 0..m : OfTypes(d, types, n) \in Seq(T)
  <2> HIDE DEF K
  <2> QED
    BY <1>3, FlattenSeqs
<1>5. OfTypes(d, types, 0) = <<>>
  <2>1. 0 \in 0..m
    BY <1>1
  <2> HIDE DEF K
  <2> QED
    BY <1>3, <2>1, FlattenSeqs
<1>6. ASSUME NEW n \in 1..m
      PROVE  OfTypes(d, types, n) =
              IF d[n].type \in types THEN Append(OfTypes(d, types, n - 1), d[n]) ELSE OfTypes(d, types, n - 1)
  <2>1. n - 1 \in 0..m /\ n \in 0..m /\ n = (n - 1) + 1
    BY <1>1
  <2>2. /\ K(n - 1) \in Seq(Seq(T)) /\ Len(K(n - 1)) = n - 1 /\ OfTypes(d, types, n - 1) = FlattenSeq(K(n - 1))
        /\ K(n) \in Seq(Seq(T)) /\ Len(K(n)) = n /\ OfTypes(d, types, n) = FlattenSeq(K(n))
    BY <1>3, <2>1
  <2>3. \A k \in 1..(n - 1) : K(n - 1)[k] = K(n)[k]
    BY <2>1
  <2>4. K(n)[n] = Chosen(d, types, n)
    BY <1>1
  <2> HIDE DEF K
  <2>5. OfTypes(d, types, n) = OfTypes(d, types, n - 1) \o Chosen(d, types, n)
    BY <2>1, <2>2, <2>3, <2>4, FlattenStep
  <2>6. OfTypes(d, types, n - 1) \in Seq(T)
    BY <1>4, <2>1
  <2>7. CASE d[n].type \in types
    <3>1. d[n] \in T
      BY <1>2
    <3>2. OfTypes(d, types, n - 1) \o <<d[n]>> = Append(OfTypes(d, types, n - 1), d[n])
      BY <2>6, <3>1
    <3> QED
      BY <2>5, <2>7, <3>2 DEF Chosen
  <2>8. CASE d[n].type \notin types
    <3>1. OfTypes(d, types, n - 1) \o <<>> = OfTypes(d, types, n - 1)
      BY <2>6, ConcatEmptySeq
    <3> QED
      BY <2>5, <2>8, <3>1 DEF Chosen
  <2> QED
    BY <2>7, <2>8
<1> QED
  BY <1>4, <1>5, <1>6 DEF m

(* Each of those chosen is a structure of the table with one of the types. *)
LEMMA OfTypesFrom ==
  ASSUME NEW d, IsSequence(d), NEW types, NEW n \in 0..Len(d)
  PROVE  /\ Len(OfTypes(d, types, n)) \in Nat
         /\ \A i \in 1..Len(OfTypes(d, types, n)) :
              \E k \in 1..n : OfTypes(d, types, n)[i] = d[k] /\ d[k].type \in types
<1> DEFINE O(k) == OfTypes(d, types, k)
           Good(k) == \A i \in 1..Len(O(k)) : \E j \in 1..k : O(k)[i] = d[j] /\ d[j].type \in types
           S == {k \in Nat : k <= Len(d) => Good(k)}
<1>1. Len(d) \in Nat /\ O(0) = <<>> /\ \A k \in 0..Len(d) : O(k) \in Seq(Range(d)) /\ Len(O(k)) \in Nat
  BY OfTypesIs, LenProperties DEF IsSequence
<1>2. \A k \in 1..Len(d) : O(k) = IF d[k].type \in types THEN Append(O(k - 1), d[k]) ELSE O(k - 1)
  BY OfTypesIs
<1>3. \A k \in 1..Len(d) : d[k] \in Range(d)
  BY ElementOfSeq DEF IsSequence
<1> HIDE DEF O
<1>4. 0 \in S
  <2>1. Good(0)
    BY <1>1
  <2> HIDE DEF Good
  <2> QED
    BY <2>1
<1>5. ASSUME NEW k \in Nat, k \in S PROVE k + 1 \in S
  <2>1. SUFFICES ASSUME k + 1 <= Len(d) PROVE Good(k + 1)
    <3> HIDE DEF Good
    <3> QED
      OBVIOUS
  <2>2. k + 1 \in 1..Len(d) /\ (k + 1) - 1 = k /\ k \in 0..Len(d) /\ k <= Len(d)
    BY <1>1, <2>1
  <2>3. Good(k)
    BY <1>5, <2>2
  <2>4. CASE d[k + 1].type \in types
    <3>1. O(k + 1) = Append(O(k), d[k + 1])
      BY <1>2, <2>2, <2>4
    <3>2. /\ Len(O(k + 1)) = Len(O(k)) + 1 /\ O(k + 1)[Len(O(k)) + 1] = d[k + 1]
          /\ \A i \in 1..Len(O(k)) : O(k + 1)[i] = O(k)[i]
      <4>1. O(k) \in Seq(Range(d)) /\ d[k + 1] \in Range(d)
        BY <1>1, <1>3, <2>2
      <4> QED
        BY <3>1, <4>1, AppendProperties
    <3> TAKE i \in 1..Len(O(k + 1))
    <3>3. CASE i \in 1..Len(O(k))
      <4>1. PICK j \in 1..k : O(k)[i] = d[j] /\ d[j].type \in types
        BY <2>3, <3>3
      <4>2. j \in 1..(k + 1)
        OBVIOUS
      <4> QED
        BY <3>2, <3>3, <4>1, <4>2
    <3>4. CASE i = Len(O(k)) + 1
      BY <2>4, <3>2, <3>4
    <3> QED
      BY <1>1, <2>2, <3>2, <3>3, <3>4
  <2>5. CASE d[k + 1].type \notin types
    <3>1. O(k + 1) = O(k)
      BY <1>2, <2>2, <2>5
    <3> TAKE i \in 1..Len(O(k + 1))
    <3>2. PICK j \in 1..k : O(k)[i] = d[j] /\ d[j].type \in types
      BY <2>3, <3>1
    <3>3. j \in 1..(k + 1)
      OBVIOUS
    <3> QED
      BY <3>1, <3>2, <3>3
  <2> QED
    BY <2>4, <2>5
<1>6. n \in S
  <2> HIDE DEF S
  <2>1. Nat \subseteq S
    BY <1>4, <1>5, Induction
  <2> QED
    BY <1>1, <2>1
<1>7. Good(n)
  BY <1>1, <1>6
<1> QED
  BY <1>1, <1>7 DEF O

(* The structures chosen among the first ones come first.                  *)
LEMMA OfTypesPrefix ==
  ASSUME NEW d, IsSequence(d), NEW types, NEW n \in 0..Len(d)
  PROVE  /\ Len(OfTypes(d, types, n)) <= Len(OfTypes(d, types, Len(d)))
         /\ \A i \in 1..Len(OfTypes(d, types, n)) : OfTypes(d, types, n)[i] = OfTypes(d, types, Len(d))[i]
<1> DEFINE O(k) == OfTypes(d, types, k)
           Good(k) == Len(O(n)) <= Len(O(k)) /\ \A i \in 1..Len(O(n)) : O(n)[i] = O(k)[i]
           S == {k \in Nat : n + k <= Len(d) => Good(n + k)}
<1>1. Len(d) \in Nat /\ \A k \in 0..Len(d) : O(k) \in Seq(Range(d)) /\ Len(O(k)) \in Nat
  BY OfTypesIs, LenProperties DEF IsSequence
<1>2. \A k \in 1..Len(d) : O(k) = IF d[k].type \in types THEN Append(O(k - 1), d[k]) ELSE O(k - 1)
  BY OfTypesIs
<1>3. \A k \in 1..Len(d) : d[k] \in Range(d)
  BY ElementOfSeq DEF IsSequence
<1> HIDE DEF O
<1>4. 0 \in S
  <2>1. Good(n) /\ n + 0 = n
    BY <1>1
  <2> HIDE DEF Good
  <2> QED
    BY <2>1
<1>5. ASSUME NEW k \in Nat, k \in S PROVE k + 1 \in S
  <2>1. SUFFICES ASSUME n + (k + 1) <= Len(d) PROVE Good(n + (k + 1))
    <3> HIDE DEF Good
    <3> QED
      OBVIOUS
  <2> DEFINE a == n + k
  <2>2. a + 1 \in 1..Len(d) /\ (a + 1) - 1 = a /\ a \in 0..Len(d) /\ n + k <= Len(d) /\ n + (k + 1) = a + 1
    BY <1>1, <2>1
  <2>3. Good(a)
    BY <1>5, <2>2
  <2> HIDE DEF a
  <2>4. CASE d[a + 1].type \in types
    <3>1. O(a + 1) = Append(O(a), d[a + 1])
      BY <1>2, <2>2, <2>4
    <3>2. Len(O(a + 1)) = Len(O(a)) + 1 /\ \A i \in 1..Len(O(a)) : O(a + 1)[i] = O(a)[i]
      <4>1. O(a) \in Seq(Range(d)) /\ d[a + 1] \in Range(d)
        BY <1>1, <1>3, <2>2
      <4> QED
        BY <3>1, <4>1, AppendProperties
    <3>3. \A i \in 1..Len(O(n)) : i \in 1..Len(O(a))
      BY <1>1, <2>2, <2>3
    <3>4. Good(a + 1)
      BY <1>1, <2>2, <2>3, <3>2, <3>3
    <3> QED
      BY <2>2, <3>4
  <2>5. CASE d[a + 1].type \notin types
    <3>1. O(a + 1) = O(a)
      BY <1>2, <2>2, <2>5
    <3> QED
      BY <2>2, <2>3, <3>1
  <2> QED
    BY <2>4, <2>5
<1>6. Good(Len(d))
  <2>1. Len(d) - n \in Nat /\ n + (Len(d) - n) = Len(d)
    BY <1>1
  <2>2. Len(d) - n \in S
    <3> HIDE DEF S
    <3>1. Nat \subseteq S
      BY <1>4, <1>5, Induction
    <3> QED
      BY <2>1, <3>1
  <2> HIDE DEF Good
  <2> QED
    BY <1>1, <2>1, <2>2
<1> QED
  BY <1>6 DEF O
-----------------------------------------------------------------------------
(***************************************************************************)
(* The functions behind a bus.                                             *)
(***************************************************************************)
\* How Behind reaches them, one level of bridges at a time.
Reaches(f, p, seg, number) ==
  LET c == Cardinality(DOMAIN p) IN
  /\ f \in [0..c -> SUBSET DOMAIN p] /\ f[0] = OnBus(p, seg, number) /\ Behind(p, seg, number) = f[c]
  /\ \A n \in 1..c : f[n] = f[n - 1] \cup Below(p, seg, f[n - 1])

(* What is on the buses below some functions answers.                      *)
LEMMA BelowIs ==
  ASSUME NEW p, NEW seg, NEW locs
  PROVE  /\ Below(p, seg, locs) \subseteq DOMAIN p
         /\ \A number : OnBus(p, seg, number) \subseteq DOMAIN p
BY DEF Below, OnBus

(* More functions have more below them.                                    *)
LEMMA BelowGrows ==
  ASSUME NEW p, NEW seg, NEW a, NEW b, a \subseteq b
  PROVE  Below(p, seg, a) \subseteq Below(p, seg, b)
BY DEF Below, Numbered

(* Behind is the last of a series of sets, each with what is below the one *)
(* before.                                                                 *)
LEMMA BehindIs ==
  ASSUME NEW p, IsFiniteSet(DOMAIN p), NEW seg, NEW number
  PROVE  Cardinality(DOMAIN p) \in Nat /\ \E f : Reaches(f, p, seg, number)
<1> DEFINE c == Cardinality(DOMAIN p)
           V == SUBSET DOMAIN p
           base == OnBus(p, seg, number)
           move == [n \in 1..c |-> [v \in V |-> v \cup Below(p, seg, v)]]
<1>1. c \in Nat /\ base \in V
  BY FS_CardinalityType, BelowIs
<1>2. \A v \in V : v \cup Below(p, seg, v) \in V
  BY BelowIs
<1>3. \A n \in 1..c : move[n] \in [V -> V]
  BY <1>2
<1>4. \A n \in 1..c, v \in V : move[n][v] = v \cup Below(p, seg, v)
  OBVIOUS
<1> HIDE DEF c, V, base, move
<1>5. PICK f : IsRecursion(f, V, base, move, c)
  BY <1>1, <1>3, Recursion
<1>6. f \in [0..c -> V] /\ f[0] = base /\ \A n \in 1..c : f[n] = move[n][f[n - 1]]
  BY <1>5 DEF IsRecursion
<1>7. \A n \in 1..c : f[n] = f[n - 1] \cup Below(p, seg, f[n - 1])
  <2>1. \A n \in 1..c : n - 1 \in 0..c
    BY <1>1
  <2> QED
    BY <1>4, <1>6, <2>1
<1> DEFINE Is(g) == g = [n \in 0..c |-> IF n = 0 THEN base ELSE g[n - 1] \cup Below(p, seg, g[n - 1])]
           F == CHOOSE g : Is(g)
<1>8. Is(f)
  <2>1. f = [n \in 0..c |-> f[n]]
    BY <1>6
  <2>2. \A n \in 0..c : f[n] = IF n = 0 THEN base ELSE f[n - 1] \cup Below(p, seg, f[n - 1])
    BY <1>1, <1>6, <1>7
  <2> QED
    BY <2>1, <2>2
<1>9. Is(F)
  <2> HIDE DEF Is
  <2> QED
    BY <1>8
<1>10. Behind(p, seg, number) = F[c]
  BY DEF Behind, c, base
<1> HIDE DEF F
<1>11. \A n \in 0..c : F[n] = IF n = 0 THEN base ELSE F[n - 1] \cup Below(p, seg, F[n - 1])
  BY <1>9
<1> HIDE DEF Is
<1> DEFINE S == {n \in Nat : n <= c => F[n] = f[n]}
<1>12. 0 \in S
  <2>1. 0 \in 0..c
    BY <1>1
  <2>2. F[0] = f[0]
    BY <1>6, <1>11, <2>1
  <2> QED
    BY <2>2
<1>13. ASSUME NEW n \in Nat, n \in S PROVE n + 1 \in S
  <2>1. SUFFICES ASSUME n + 1 <= c PROVE F[n + 1] = f[n + 1]
    OBVIOUS
  <2>2. n + 1 \in 1..c /\ n + 1 \in 0..c /\ (n + 1) - 1 = n /\ n + 1 # 0 /\ n <= c
    BY <1>1, <2>1
  <2>3. F[n] = f[n]
    BY <1>13, <2>2
  <2>4. F[n + 1] = F[n] \cup Below(p, seg, F[n])
    BY <1>11, <2>2
  <2>5. f[n + 1] = f[n] \cup Below(p, seg, f[n])
    BY <1>7, <2>2
  <2> QED
    BY <2>3, <2>4, <2>5
<1>14. F[c] = f[c]
  <2> HIDE DEF S
  <2>1. Nat \subseteq S
    BY <1>12, <1>13, Induction
  <2> QED
    BY <1>1, <2>1 DEF S
<1> QED
  BY <1>1, <1>6, <1>7, <1>10, <1>14 DEF Reaches, c, V, base

(* The bus itself is part of it, and all of it answers.                    *)
LEMMA BehindOn ==
  ASSUME NEW p, IsFiniteSet(DOMAIN p), NEW seg, NEW number
  PROVE  OnBus(p, seg, number) \subseteq Behind(p, seg, number) /\ Behind(p, seg, number) \subseteq DOMAIN p
<1> DEFINE c == Cardinality(DOMAIN p)
<1>1. PICK f : Reaches(f, p, seg, number)
  BY BehindIs
<1>2. /\ c \in Nat /\ f \in [0..c -> SUBSET DOMAIN p] /\ f[0] = OnBus(p, seg, number) /\ Behind(p, seg, number) = f[c]
      /\ \A n \in 1..c : f[n] = f[n - 1] \cup Below(p, seg, f[n - 1])
  BY <1>1, BehindIs DEF Reaches
<1> HIDE DEF c
<1> DEFINE S == {n \in Nat : n <= c => f[0] \subseteq f[n]}
<1>3. 0 \in S
  <2>1. f[0] \subseteq f[0]
    OBVIOUS
  <2> QED
    BY <2>1
<1>4. ASSUME NEW n \in Nat, n \in S PROVE n + 1 \in S
  <2>1. SUFFICES ASSUME n + 1 <= c PROVE f[0] \subseteq f[n + 1]
    OBVIOUS
  <2>2. n + 1 \in 1..c /\ (n + 1) - 1 = n /\ n <= c
    BY <1>2, <2>1
  <2>3. f[0] \subseteq f[n]
    BY <1>4, <2>2
  <2>4. f[n + 1] = f[n] \cup Below(p, seg, f[n])
    BY <1>2, <2>2
  <2> QED
    BY <2>3, <2>4
<1>5. f[0] \subseteq f[c]
  <2> HIDE DEF S
  <2>1. Nat \subseteq S
    BY <1>3, <1>4, Induction
  <2> QED
    BY <1>2, <2>1 DEF S
<1>6. c \in 0..c
  BY <1>2
<1> QED
  BY <1>2, <1>5, <1>6

(* Nothing is left out: what is below the functions behind a bus is behind *)
(* it, as the series grows or stops and cannot outgrow the platform.       *)
LEMMA BehindClosed ==
  ASSUME NEW p, IsFiniteSet(DOMAIN p), NEW seg, NEW number
  PROVE  Below(p, seg, Behind(p, seg, number)) \subseteq Behind(p, seg, number)
<1> DEFINE c == Cardinality(DOMAIN p)
<1>1. PICK f : Reaches(f, p, seg, number)
  BY BehindIs
<1>2. /\ c \in Nat /\ f \in [0..c -> SUBSET DOMAIN p] /\ Behind(p, seg, number) = f[c]
      /\ \A n \in 1..c : f[n] = f[n - 1] \cup Below(p, seg, f[n - 1])
  BY <1>1, BehindIs DEF Reaches
<1>3. \A X \in SUBSET DOMAIN p : IsFiniteSet(X) /\ Cardinality(X) \in Nat /\ Cardinality(X) <= c
  BY FS_Subset, FS_CardinalityType
<1> HIDE DEF c
<1> DEFINE Closed(X) == Below(p, seg, X) \subseteq X
           S == {n \in Nat : n <= c => Closed(f[n]) \/ Cardinality(f[n]) > n}
<1>4. 0 \in S
  <2>1. 0 \in 0..c
    BY <1>2
  <2>2. CASE f[0] = {}
    <3>1. Closed(f[0])
      BY <2>2 DEF Below, Numbered
    <3> QED
      BY <3>1
  <2>3. CASE f[0] # {}
    <3>1. f[0] \in SUBSET DOMAIN p
      BY <1>2, <2>1
    <3>2. Cardinality(f[0]) # 0
      BY <1>3, <2>3, <3>1, FS_EmptySet
    <3> QED
      BY <1>3, <3>1, <3>2
  <2> QED
    BY <2>2, <2>3
<1>5. ASSUME NEW n \in Nat, n \in S PROVE n + 1 \in S
  <2>1. SUFFICES ASSUME n + 1 <= c PROVE Closed(f[n + 1]) \/ Cardinality(f[n + 1]) > n + 1
    OBVIOUS
  <2>2. n + 1 \in 1..c /\ (n + 1) - 1 = n /\ n <= c /\ n \in 0..c /\ n + 1 \in 0..c
    BY <1>2, <2>1
  <2>3. f[n] \in SUBSET DOMAIN p /\ f[n + 1] \in SUBSET DOMAIN p
    BY <1>2, <2>2
  <2>4. f[n + 1] = f[n] \cup Below(p, seg, f[n])
    BY <1>2, <2>2
  <2>5. CASE Closed(f[n])
    <3>1. f[n + 1] = f[n]
      BY <2>4, <2>5
    <3> QED
      BY <2>5, <3>1
  <2>6. CASE ~Closed(f[n])
    <3>1. Cardinality(f[n]) > n
      BY <1>5, <2>2, <2>6
    <3>2. f[n] \subseteq f[n + 1] /\ f[n] # f[n + 1]
      BY <2>4, <2>6
    <3>3. Cardinality(f[n]) < Cardinality(f[n + 1])
      BY <1>3, <2>3, <3>2, FS_Subset
    <3> QED
      BY <1>3, <2>3, <3>1, <3>3
  <2> QED
    BY <2>5, <2>6
<1>6. Closed(f[c]) \/ Cardinality(f[c]) > c
  <2> HIDE DEF S
  <2>1. Nat \subseteq S
    BY <1>4, <1>5, Induction
  <2> QED
    BY <1>2, <2>1 DEF S
<1>7. f[c] \in SUBSET DOMAIN p
  <2>1. c \in 0..c
    BY <1>2
  <2> QED
    BY <1>2, <2>1
<1> QED
  BY <1>2, <1>3, <1>6, <1>7

(* Nothing is too much: a set with the bus and with all that is below its  *)
(* own functions has what is behind the bus.                               *)
LEMMA BehindLeast ==
  ASSUME NEW p, IsFiniteSet(DOMAIN p), NEW seg, NEW number, NEW X,
         OnBus(p, seg, number) \subseteq X, Below(p, seg, X) \subseteq X
  PROVE  Behind(p, seg, number) \subseteq X
<1> DEFINE c == Cardinality(DOMAIN p)
<1>1. PICK f : Reaches(f, p, seg, number)
  BY BehindIs
<1>2. /\ c \in Nat /\ f[0] = OnBus(p, seg, number) /\ Behind(p, seg, number) = f[c]
      /\ \A n \in 1..c : f[n] = f[n - 1] \cup Below(p, seg, f[n - 1])
  BY <1>1, BehindIs DEF Reaches
<1> HIDE DEF c
<1> DEFINE S == {n \in Nat : n <= c => f[n] \subseteq X}
<1>3. 0 \in S
  BY <1>2
<1>4. ASSUME NEW n \in Nat, n \in S PROVE n + 1 \in S
  <2>1. SUFFICES ASSUME n + 1 <= c PROVE f[n + 1] \subseteq X
    OBVIOUS
  <2>2. n + 1 \in 1..c /\ (n + 1) - 1 = n /\ n <= c
    BY <1>2, <2>1
  <2>3. f[n] \subseteq X
    BY <1>4, <2>2
  <2>4. f[n + 1] = f[n] \cup Below(p, seg, f[n])
    BY <1>2, <2>2
  <2>5. Below(p, seg, f[n]) \subseteq Below(p, seg, X)
    BY <2>3, BelowGrows
  <2> QED
    BY <2>3, <2>4, <2>5
<1>5. f[c] \subseteq X
  <2> HIDE DEF S
  <2>1. Nat \subseteq S
    BY <1>3, <1>4, Induction
  <2> QED
    BY <1>2, <2>1 DEF S
<1> QED
  BY <1>2, <1>5

(* A bridge that is behind a bus has all behind it that is behind its own. *)
LEMMA BehindBridge ==
  ASSUME NEW p, IsFiniteSet(DOMAIN p), NEW seg, NEW number, NEW loc \in Numbered(p, Behind(p, seg, number))
  PROVE  Behind(p, seg, p[loc].secondary) \subseteq Behind(p, seg, number)
<1> DEFINE B == Behind(p, seg, number)
<1>1. Below(p, seg, B) \subseteq B
  BY BehindClosed
<1>2. OnBus(p, seg, p[loc].secondary) \subseteq Below(p, seg, B)
  BY DEF Below
<1> HIDE DEF B
<1> QED
  BY <1>1, <1>2, BehindLeast DEF B

(* What is behind a bus is on it, or behind one of its bridges.            *)
LEMMA BehindUnfolds ==
  ASSUME NEW p, IsFiniteSet(DOMAIN p), NEW seg, NEW number
  PROVE  Behind(p, seg, number) \subseteq
           OnBus(p, seg, number) \cup UNION {Behind(p, seg, p[loc].secondary) : loc \in Numbered(p, OnBus(p, seg, number))}
<1> DEFINE On == OnBus(p, seg, number)
           Rest == UNION {Behind(p, seg, p[loc].secondary) : loc \in Numbered(p, On)}
           X == On \cup Rest
<1>1. ASSUME NEW x \in Below(p, seg, X) PROVE x \in X
  <2>1. PICK loc \in Numbered(p, X) : x \in OnBus(p, seg, p[loc].secondary)
    BY DEF Below
  <2>2. loc \in X /\ p[loc].bridge /\ p[loc].secondary # 0
    BY <2>1 DEF Numbered
  <2>3. CASE loc \in On
    <3>1. loc \in Numbered(p, On)
      BY <2>2, <2>3 DEF Numbered
    <3>2. x \in Behind(p, seg, p[loc].secondary)
      BY <2>1, BehindOn
    <3> QED
      BY <3>1, <3>2
  <2>4. CASE loc \in Rest
    <3>1. PICK l \in Numbered(p, On) : loc \in Behind(p, seg, p[l].secondary)
      BY <2>4
    <3>2. loc \in Numbered(p, Behind(p, seg, p[l].secondary))
      BY <2>2, <3>1 DEF Numbered
    <3>3. x \in Below(p, seg, Behind(p, seg, p[l].secondary))
      BY <2>1, <3>2 DEF Below
    <3>4. x \in Behind(p, seg, p[l].secondary)
      BY <3>3, BehindClosed
    <3> QED
      BY <3>1, <3>4
  <2> QED
    BY <2>2, <2>3, <2>4
<1> HIDE DEF Rest
<1>2. On \subseteq X /\ Below(p, seg, X) \subseteq X
  BY <1>1
<1> HIDE DEF X
<1>3. Behind(p, seg, number) \subseteq X
  BY <1>2, BehindLeast
<1> QED
  BY <1>3 DEF X, Rest

(***************************************************************************)
(* Sequences of anything.                                                  *)
(***************************************************************************)
(* A sequence over some set is one of its own elements.                    *)
LEMMA SeqOwn ==
  ASSUME NEW T, NEW s \in Seq(T)
  PROVE  IsSequence(s)
BY SeqOfRange DEF IsSequence

(* What a sequence is.                                                     *)
LEMMA SeqIs ==
  ASSUME NEW s, IsSequence(s)
  PROVE  /\ Len(s) \in Nat /\ DOMAIN s = 1..Len(s) /\ s = [i \in 1..Len(s) |-> s[i]]
         /\ \A i \in 1..Len(s) : s[i] \in Range(s)
         /\ Range(s) = {s[i] : i \in 1..Len(s)}
         /\ (Len(s) = 0 <=> s = <<>>)
<1>1. s \in Seq(Range(s))
  BY DEF IsSequence
<1>2. Len(s) \in Nat /\ s \in [1..Len(s) -> Range(s)] /\ DOMAIN s = 1..Len(s)
  BY <1>1, LenProperties
<1>3. Len(s) = 0 <=> s = <<>>
  BY <1>1, EmptySeq
<1> QED
  BY <1>2, <1>3 DEF Range

(* A function over the first numbers is a sequence.                        *)
LEMMA SeqFunction ==
  ASSUME NEW n \in Nat, NEW f, f = [i \in 1..n |-> f[i]]
  PROVE  IsSequence(f) /\ Len(f) = n
<1> DEFINE T == {f[i] : i \in 1..n}
<1>1. f \in [1..n -> T]
  OBVIOUS
<1> HIDE DEF T
<1>2. f \in Seq(T) /\ Len(f) = n
  BY <1>1
<1> QED
  BY <1>2, SeqOwn

(* Appending.                                                              *)
LEMMA SeqAppend ==
  ASSUME NEW s, IsSequence(s), NEW e
  PROVE  /\ IsSequence(Append(s, e)) /\ Len(Append(s, e)) = Len(s) + 1
         /\ Append(s, e)[Len(s) + 1] = e /\ \A i \in 1..Len(s) : Append(s, e)[i] = s[i]
<1> DEFINE T == Range(s) \cup {e}
<1>1. s \in Seq(T) /\ e \in T
  BY SeqIs DEF IsSequence
<1> HIDE DEF T
<1>2. /\ Append(s, e) \in Seq(T) /\ Len(Append(s, e)) = Len(s) + 1
      /\ Append(s, e)[Len(s) + 1] = e /\ \A i \in 1..Len(s) : Append(s, e)[i] = s[i]
  BY <1>1, AppendProperties
<1>3. IsSequence(Append(s, e))
  BY <1>2, SeqOwn
<1> QED
  BY <1>2, <1>3

(* Joining.                                                                *)
LEMMA SeqConcat ==
  ASSUME NEW a, IsSequence(a), NEW b, IsSequence(b), NEW r, r = a \o b
  PROVE  /\ IsSequence(r) /\ Len(r) = Len(a) + Len(b) /\ Range(r) = Range(a) \cup Range(b)
         /\ \A i \in 1..Len(a) : r[i] = a[i]
         /\ \A i \in 1..Len(b) : r[Len(a) + i] = b[i]
<1> DEFINE T == Range(a) \cup Range(b)
<1>1. a \in Seq(T) /\ b \in Seq(T)
  BY SeqIs DEF IsSequence
<1>2. Len(a) \in Nat /\ Len(b) \in Nat
  BY SeqIs
<1> HIDE DEF T
<1>3. r \in Seq(T) /\ Range(r) = Range(a) \cup Range(b)
  BY <1>1, ConcatProperties, RangeConcatenation
<1>4. /\ Len(r) = Len(a) + Len(b)
      /\ \A i \in 1..(Len(a) + Len(b)) : r[i] = IF i <= Len(a) THEN a[i] ELSE b[i - Len(a)]
  BY <1>1, ConcatProperties
<1>5. ASSUME NEW i \in 1..Len(a) PROVE r[i] = a[i]
  <2>1. i \in 1..(Len(a) + Len(b)) /\ i <= Len(a)
    BY <1>2
  <2> QED
    BY <1>4, <2>1
<1>6. ASSUME NEW i \in 1..Len(b) PROVE r[Len(a) + i] = b[i]
  <2>1. Len(a) + i \in 1..(Len(a) + Len(b)) /\ ~(Len(a) + i <= Len(a)) /\ (Len(a) + i) - Len(a) = i
    BY <1>2
  <2> QED
    BY <1>4, <2>1
<1>7. IsSequence(r)
  BY <1>3, SeqOwn
<1> QED
  BY <1>3, <1>4, <1>5, <1>6, <1>7

(* Dropping the last.                                                      *)
LEMMA SeqFront ==
  ASSUME NEW s, IsSequence(s), s # <<>>, NEW r, r = SubSeq(s, 1, Len(s) - 1)
  PROVE  Len(s) - 1 \in Nat /\ IsSequence(r) /\ Len(r) = Len(s) - 1 /\ \A j \in 1..(Len(s) - 1) : r[j] = s[j]
<1>1. s \in Seq(Range(s)) /\ Len(s) \in Nat /\ Len(s) # 0
  BY SeqIs DEF IsSequence
<1>2. Len(s) - 1 \in Nat /\ 1 \in 1..Len(s)
  BY <1>1
<1>3. \A k \in 1..(Len(s) - 1) : s[k] \in Range(s)
  BY <1>1, SeqIs
<1>4. /\ r \in Seq(Range(s)) /\ Len(r) = (IF 1 <= Len(s) - 1 THEN Len(s) - 1 - 1 + 1 ELSE 0)
      /\ \A j \in 1..(Len(s) - 1 - 1 + 1) : r[j] = s[1 + j - 1]
  BY <1>2, <1>3, SubSeqProperties
<1> DEFINE n == Len(s) - 1
           l == Len(r)
<1>5. n \in Nat /\ l = (IF 1 <= n THEN n - 1 + 1 ELSE 0) /\ \A j \in 1..(n - 1 + 1) : r[j] = s[1 + j - 1]
  BY <1>2, <1>4
<1> HIDE DEF n, l
<1>6. l = n /\ n - 1 + 1 = n /\ \A j \in 1..n : 1 + j - 1 = j
  BY <1>5
<1>7. \A j \in 1..n : r[j] = s[j]
  BY <1>5, <1>6
<1>8. IsSequence(r)
  BY <1>4, SeqOwn
<1> QED
  BY <1>5, <1>6, <1>7, <1>8 DEF n, l

(* Sequences with the same elements are the same.                          *)
LEMMA SeqsAgree ==
  ASSUME NEW a, IsSequence(a), NEW b, IsSequence(b), Len(a) = Len(b), \A i \in 1..Len(a) : a[i] = b[i]
  PROVE  a = b
<1> DEFINE T == Range(a) \cup Range(b)
<1>1. a \in Seq(T) /\ b \in Seq(T)
  BY SeqIs DEF IsSequence
<1> HIDE DEF T
<1> QED
  BY <1>1, SeqEqual

(***************************************************************************)
(* The array of units.                                                     *)
(***************************************************************************)
\* A unit of the array: its functions, each once, within the allocation.
UnitForm(u) ==
  /\ u = [base |-> u.base, seg |-> u.seg, all |-> u.all, max |-> u.max, data |-> u.data]
  /\ u.max \in Nat /\ IsSequence(u.data) /\ Len(u.data) <= u.max
  /\ \A k \in 1..Len(u.data) : u.data[k].src = <<u.data[k].src[1], u.data[k].src[2], u.data[k].src[3]>>
  /\ \A k, l \in 1..Len(u.data) : u.data[k].src = u.data[l].src => k = l

\* What a unit has, and what the units before one have.
Has(u) == {PciLocation(u.seg, u.data[k].src) : k \in 1..Len(u.data)}
EarlierHave(us, i) == UNION {Has(us[j]) : j \in 1..(i - 1)}

\* A unit is the one of its DRHD and has nothing that this does not lead to.
UnitOf(p, d, u) == u.seg = d.seg /\ u.all = d.all /\ Has(u) \subseteq Target(p, d)

\* A unit has what its DRHD leads to and earlier units have not.
CompleteUnit(p, d, us, i) ==
  LET named == Named(p, d) \cap DOMAIN p IN
  Has(us[i]) \cap DOMAIN p = IF d.all THEN (Behind(p, d.seg, 0) \cup named) \ EarlierHave(us, i) ELSE named
CompleteUpTo(p, d, us, n) == \A i \in 1..n : CompleteUnit(p, Drhds(d)[i], us, i)

\* The array while units are registered: v of them have been begun.
ArrayForm(p, d, us, v) ==
  /\ IsSequence(us) /\ v \in Nat
  /\ \A i \in 1..Len(us) : UnitForm(us[i])
  /\ \A i \in 1..Len(us) : i <= v => UnitOf(p, Drhds(d)[i], us[i])
  /\ \A i \in 1..Len(us) : i > v => us[i].data = <<>>
  /\ \A i, j \in 1..Len(us) : i # j => Has(us[i]) \cap Has(us[j]) = {}

\* A location has been added to unit i, or nothing has.
Added(us, vs, i, loc) ==
  /\ IsSequence(vs) /\ Len(vs) = Len(us) /\ \A j \in 1..Len(us) : j # i => vs[j] = us[j]
  /\ UnitForm(vs[i]) /\ vs[i].seg = us[i].seg /\ vs[i].all = us[i].all
  /\ \/ vs = us
     \/ Has(vs[i]) = Has(us[i]) \cup {loc} /\ (us[i].all => loc \notin EarlierHave(us, i))

(* GetPciDataIndex finds a function exactly where it is registered.        *)
LEMMA IndexIs ==
  ASSUME NEW i, UnitForm(units[i]), NEW seg, NEW a, NEW b, NEW c
  PROVE  GetPciDataIndex(i, seg, <<a, b, c>>) # {} <=> <<seg, a, b, c>> \in Has(units[i])
<1> DEFINE u == units[i]
<1>1. \A k \in 1..Len(u.data) : u.data[k].src = <<u.data[k].src[1], u.data[k].src[2], u.data[k].src[3]>>
  BY DEF UnitForm
<1>2. ASSUME NEW k \in 1..Len(u.data), u.seg = seg, u.data[k].src = <<a, b, c>>
      PROVE  <<seg, a, b, c>> \in Has(u)
  <2>1. PciLocation(u.seg, u.data[k].src) = <<seg, a, b, c>>
    BY <1>2 DEF PciLocation
  <2> QED
    BY <2>1 DEF Has
<1>3. ASSUME <<seg, a, b, c>> \in Has(u)
      PROVE  u.seg = seg /\ \E k \in 1..Len(u.data) : u.data[k].src = <<a, b, c>>
  <2>1. PICK k \in 1..Len(u.data) : <<seg, a, b, c>> = PciLocation(u.seg, u.data[k].src)
    BY <1>3 DEF Has
  <2>2. <<seg, a, b, c>> = <<u.seg, u.data[k].src[1], u.data[k].src[2], u.data[k].src[3]>>
    BY <2>1 DEF PciLocation
  <2>3. seg = u.seg /\ a = u.data[k].src[1] /\ b = u.data[k].src[2] /\ c = u.data[k].src[3]
    BY <2>2
  <2>4. u.data[k].src = <<a, b, c>>
    BY <1>1, <2>3
  <2> QED
    BY <2>3, <2>4
<1>4. GetPciDataIndex(i, seg, <<a, b, c>>) # {} <=>
        u.seg = seg /\ \E k \in 1..Len(u.data) : u.data[k].src = <<a, b, c>>
  BY DEF GetPciDataIndex
<1> HIDE DEF u
<1>5. GetPciDataIndex(i, seg, <<a, b, c>>) # {} <=> <<seg, a, b, c>> \in Has(u)
  BY <1>2, <1>3, <1>4
<1> QED
  BY <1>5 DEF u

(* A unit has room for one more function, once it has been grown.          *)
LEMMA GrownIs ==
  ASSUME NEW u, UnitForm(u), NEW e
  PROVE  LET w == WithFunction(u, e) IN
         /\ w = [base |-> w.base, seg |-> w.seg, all |-> w.all, max |-> w.max, data |-> w.data]
         /\ w.seg = u.seg /\ w.all = u.all /\ w.data = Append(u.data, e)
         /\ w.max \in Nat /\ Len(u.data) + 1 <= w.max
<1> DEFINE w == WithFunction(u, e)
           n == Len(u.data)
           max == IF Len(u.data) >= u.max THEN u.max + DataNumber ELSE u.max
           data == Append(u.data, e)
           g == [base |-> u.base, seg |-> u.seg, all |-> u.all, max |-> max, data |-> u.data]
<1>1. /\ u = [base |-> u.base, seg |-> u.seg, all |-> u.all, max |-> u.max, data |-> u.data]
      /\ u.max \in Nat /\ n <= u.max /\ n \in Nat
  BY SeqIs DEF UnitForm
<1>2. Grown(u) = g
  <2>1. CASE n >= u.max
    <3>1. Grown(u) = [u EXCEPT !.max = @ + DataNumber] /\ max = u.max + DataNumber
      BY <2>1 DEF Grown
    <3> HIDE DEF max
    <3> QED
      BY <1>1, <3>1
  <2>2. CASE ~(n >= u.max)
    <3>1. Grown(u) = u /\ max = u.max
      BY <2>2 DEF Grown
    <3> HIDE DEF max
    <3> QED
      BY <1>1, <3>1
  <2> QED
    BY <2>1, <2>2
<1>3. w = [base |-> u.base, seg |-> u.seg, all |-> u.all, max |-> max, data |-> data]
  <2>1. w = [g EXCEPT !.data = Append(g.data, e)]
    BY <1>2 DEF WithFunction
  <2>2. g.data = u.data
    OBVIOUS
  <2>3. w = [g EXCEPT !.data = data]
    BY <2>1, <2>2
  <2> HIDE DEF max, data
  <2> QED
    BY <2>3
<1>4. max \in Nat /\ n + 1 <= max
  BY <1>1, BoundsAssumption
<1> HIDE DEF w, max, data
<1>5. w.base = u.base /\ w.seg = u.seg /\ w.all = u.all /\ w.max = max /\ w.data = data
  BY <1>3
<1>6. w = [base |-> w.base, seg |-> w.seg, all |-> w.all, max |-> w.max, data |-> w.data]
  BY <1>3, <1>5
<1> QED
  BY <1>4, <1>5, <1>6 DEF data, w

(* A unit with one more function.                                          *)
LEMMA UnitGrows ==
  ASSUME NEW u, UnitForm(u), NEW e, NEW a, NEW b, NEW c, e.src = <<a, b, c>>, <<u.seg, a, b, c>> \notin Has(u)
  PROVE  LET w == WithFunction(u, e) IN
         UnitForm(w) /\ w.seg = u.seg /\ w.all = u.all /\ Has(w) = Has(u) \cup {<<u.seg, a, b, c>>}
<1> DEFINE w == WithFunction(u, e)
           n == Len(u.data)
           data == Append(u.data, e)
<1>0. /\ w = [base |-> w.base, seg |-> w.seg, all |-> w.all, max |-> w.max, data |-> w.data]
      /\ w.seg = u.seg /\ w.all = u.all /\ w.data = data /\ w.max \in Nat /\ n + 1 <= w.max
  BY GrownIs
<1>1. /\ IsSequence(u.data) /\ n \in Nat
      /\ \A k \in 1..n : u.data[k].src = <<u.data[k].src[1], u.data[k].src[2], u.data[k].src[3]>>
      /\ \A k, l \in 1..n : u.data[k].src = u.data[l].src => k = l
  BY SeqIs DEF UnitForm
<1>5. IsSequence(data) /\ Len(data) = n + 1 /\ data[n + 1] = e /\ \A i \in 1..n : data[i] = u.data[i]
  BY <1>1, SeqAppend
<1>2. w.data = data
  BY <1>0
<1> HIDE DEF data, w
<1>6. ASSUME NEW k \in 1..n PROVE u.data[k].src # <<a, b, c>>
  <2>1. SUFFICES ASSUME u.data[k].src = <<a, b, c>> PROVE FALSE
    OBVIOUS
  <2>2. PciLocation(u.seg, u.data[k].src) = <<u.seg, a, b, c>>
    BY <2>1 DEF PciLocation
  <2> QED
    BY <2>2 DEF Has
<1>7. UnitForm(w)
  <2>2. \A k \in 1..(n + 1) : data[k].src = <<data[k].src[1], data[k].src[2], data[k].src[3]>>
    <3> TAKE k \in 1..(n + 1)
    <3>1. CASE k \in 1..n
      BY <1>1, <1>5, <3>1
    <3>2. CASE k = n + 1
      BY <1>5, <3>2
    <3> QED
      BY <1>1, <3>1, <3>2
  <2>3. \A k, l \in 1..(n + 1) : data[k].src = data[l].src => k = l
    <3> SUFFICES ASSUME NEW k \in 1..(n + 1), NEW l \in 1..(n + 1), data[k].src = data[l].src PROVE k = l
      OBVIOUS
    <3>1. CASE k \in 1..n /\ l \in 1..n
      BY <1>1, <1>5, <3>1
    <3>2. CASE k \in 1..n /\ l = n + 1
      BY <1>5, <1>6, <3>2
    <3>3. CASE k = n + 1 /\ l \in 1..n
      BY <1>5, <1>6, <3>3
    <3> QED
      BY <1>1, <3>1, <3>2, <3>3
  <2>4. Len(w.data) = n + 1 /\ w.max \in Nat /\ Len(w.data) <= w.max /\ IsSequence(w.data)
    BY <1>0, <1>2, <1>5
  <2>5. /\ \A k \in 1..Len(w.data) : w.data[k].src = <<w.data[k].src[1], w.data[k].src[2], w.data[k].src[3]>>
        /\ \A k, l \in 1..Len(w.data) : w.data[k].src = w.data[l].src => k = l
    BY <1>2, <2>2, <2>3, <2>4
  <2> QED
    BY <1>0, <2>4, <2>5 DEF UnitForm
<1>9. Has(w) = Has(u) \cup {<<u.seg, a, b, c>>}
  <2>1. PciLocation(u.seg, data[n + 1].src) = <<u.seg, a, b, c>>
    BY <1>5 DEF PciLocation
  <2>2. Has(w) = {PciLocation(u.seg, data[k].src) : k \in 1..(n + 1)}
    BY <1>0, <1>2, <1>5 DEF Has
  <2>3. 1..(n + 1) = 1..n \cup {n + 1}
    BY <1>1
  <2>4. Has(w) = {PciLocation(u.seg, data[k].src) : k \in 1..n} \cup {<<u.seg, a, b, c>>}
    BY <2>1, <2>2, <2>3
  <2>5. {PciLocation(u.seg, data[k].src) : k \in 1..n} = {PciLocation(u.seg, u.data[k].src) : k \in 1..n}
    BY <1>5
  <2> QED
    BY <2>4, <2>5 DEF Has
<1> QED
  BY <1>0, <1>7, <1>9 DEF w

(* RegisterPciDevice: what it adds, and what its result says.              *)
LEMMA RegisterIs ==
  ASSUME IsSequence(units), \A j \in 1..Len(units) : UnitForm(units[j]), NEW i \in 1..Len(units), units[i].all \in BOOLEAN,
         NEW a, NEW b, NEW c, NEW type, NEW check, NEW vs, NEW st,
         RegisterPciDevice(i, units[i].seg, <<a, b, c>>, type, check, vs, st)
  PROVE  LET loc == <<units[i].seg, a, b, c>> IN
         /\ Added(units, vs, i, loc)
         /\ st # "success" => vs = units
         /\ st = "out_of_resources" => PoolMayFail
         /\ st # "out_of_resources" =>
              loc \in Has(vs[i]) \cup (IF units[i].all THEN EarlierHave(units, i) ELSE {})
<1> DEFINE seg == units[i].seg
           loc == <<seg, a, b, c>>
           src == <<a, b, c>>
           owned == OwnedByEarlier(i, seg, src)
           known == GetPciDataIndex(i, seg, src) # {}
           e == [type |-> type, src |-> src, id |-> DeviceId(pci, PciLocation(seg, src), type)]
           w == WithFunction(units[i], e)
<1>1. Len(units) \in Nat /\ i \in Nat
  BY SeqIs
<1>2. owned <=> units[i].all /\ loc \in EarlierHave(units, i)
  <2>1. \A j \in 1..(i - 1) : j \in 1..Len(units)
    BY <1>1
  <2>2. \A j \in 1..(i - 1) : GetPciDataIndex(j, seg, src) # {} <=> loc \in Has(units[j])
    BY <2>1, IndexIs
  <2> HIDE DEF seg, loc, src
  <2> QED
    BY <2>2 DEF OwnedByEarlier, EarlierHave
<1>3. known <=> loc \in Has(units[i])
  BY IndexIs
<1>4. Added(units, units, i, loc)
  BY DEF Added
<1>5. \/ owned /\ vs = units /\ st = "success"
      \/ ~owned /\ ~known /\ vs = [units EXCEPT ![i] = w] /\ st = "success"
      \/ ~owned /\ ~known /\ PoolMayFail /\ vs = units /\ st = "out_of_resources"
      \/ ~owned /\ known /\ vs = units /\ st \in {"already_started", "success"}
  BY DEF RegisterPciDevice
<1>6. CASE ~owned /\ ~known /\ vs = [units EXCEPT ![i] = w] /\ st = "success"
  <2>1. UnitForm(units[i]) /\ e.src = <<a, b, c>> /\ <<units[i].seg, a, b, c>> \notin Has(units[i])
    BY <1>3, <1>6
  <2>2. UnitForm(w) /\ w.seg = units[i].seg /\ w.all = units[i].all /\ Has(w) = Has(units[i]) \cup {<<units[i].seg, a, b, c>>}
    <3> HIDE DEF e
    <3> QED
      BY <2>1, UnitGrows
  <2> HIDE DEF w
  <2>3. IsSequence(vs) /\ Len(vs) = Len(units) /\ vs[i] = w /\ \A j \in 1..Len(units) : j # i => vs[j] = units[j]
    <3>1. vs = [units EXCEPT ![i] = w]
      BY <1>6
    <3> QED
      <4>1. Len(units) \in Nat /\ DOMAIN units = 1..Len(units)
        BY SeqIs
      <4>2. vs = [k \in 1..Len(units) |-> vs[k]] /\ vs[i] = w /\ \A j \in 1..Len(units) : j # i => vs[j] = units[j]
        BY <3>1, <4>1
      <4>3. IsSequence(vs) /\ Len(vs) = Len(units)
        BY <4>1, <4>2, SeqFunction
      <4> QED
        BY <4>2, <4>3
  <2>4. Added(units, vs, i, loc)
    BY <1>2, <1>6, <2>2, <2>3 DEF Added
  <2>5. loc \in Has(vs[i])
    BY <2>2, <2>3
  <2> QED
    BY <1>6, <2>4, <2>5 DEF loc
<1>7. CASE ~owned /\ ~known /\ PoolMayFail /\ vs = units /\ st = "out_of_resources"
  BY <1>4, <1>7
<1>8. CASE owned /\ vs = units /\ st = "success"
  BY <1>2, <1>4, <1>8
<1>9. CASE ~owned /\ known /\ vs = units /\ st \in {"already_started", "success"}
  BY <1>3, <1>4, <1>9
<1> HIDE DEF loc, owned, known, w
<1>10. /\ Added(units, vs, i, loc)
       /\ st # "success" => vs = units
       /\ st = "out_of_resources" => PoolMayFail
       /\ st # "out_of_resources" => loc \in Has(vs[i]) \cup (IF units[i].all THEN EarlierHave(units, i) ELSE {})
  BY <1>5, <1>6, <1>7, <1>8, <1>9 DEF loc
<1> QED
  BY <1>10 DEF loc

(* The DRHDs of a table.                                                   *)
LEMMA DrhdFacts ==
  ASSUME NEW d \in Dmars
  PROVE  /\ GetVtdEngineNumber(d) \in Nat /\ IsSequence(d) /\ Len(d) \in Nat
         /\ \A i \in 1..GetVtdEngineNumber(d) :
              Drhds(d)[i].all \in BOOLEAN /\ IsSequence(Drhds(d)[i].scopes) /\ Len(Drhds(d)[i].scopes) \in Nat
<1>1. IsSequence(d) /\ \A n \in 1..Len(d) : d[n].all \in BOOLEAN /\ IsSequence(d[n].scopes)
  BY DmarAssumption DEF DmarForm
<1>2. Len(d) \in Nat /\ Len(d) \in 0..Len(d)
  BY <1>1, SeqIs
<1>3. /\ Len(Drhds(d)) \in Nat
      /\ \A i \in 1..Len(Drhds(d)) : \E k \in 1..Len(d) : Drhds(d)[i] = d[k]
  <2>1. /\ Len(OfTypes(d, {"DRHD"}, Len(d))) \in Nat
        /\ \A i \in 1..Len(OfTypes(d, {"DRHD"}, Len(d))) :
             \E k \in 1..Len(d) : OfTypes(d, {"DRHD"}, Len(d))[i] = d[k] /\ d[k].type \in {"DRHD"}
    BY <1>1, <1>2, OfTypesFrom
  <2> QED
    BY <2>1 DEF Drhds
<1>4. ASSUME NEW i \in 1..Len(Drhds(d))
      PROVE  Drhds(d)[i].all \in BOOLEAN /\ IsSequence(Drhds(d)[i].scopes) /\ Len(Drhds(d)[i].scopes) \in Nat
  <2>1. PICK k \in 1..Len(d) : Drhds(d)[i] = d[k]
    BY <1>3
  <2>2. Drhds(d)[i].all \in BOOLEAN /\ IsSequence(Drhds(d)[i].scopes)
    BY <1>1, <2>1
  <2> QED
    BY <2>2, SeqIs
<1> QED
  BY <1>1, <1>2, <1>3, <1>4 DEF GetVtdEngineNumber

(* VtdIndex counts the DRHDs, and the structure at hand is the last one    *)
(* counted.                                                                *)
LEMMA DrhdCounted ==
  ASSUME NEW d \in Dmars, NEW n \in 1..Len(d)
  PROVE  /\ n - 1 \in 0..Len(d) /\ n \in 0..Len(d)
         /\ Len(OfTypes(d, {"DRHD"}, n - 1)) \in Nat /\ Len(OfTypes(d, {"DRHD"}, n - 1)) <= GetVtdEngineNumber(d)
         /\ d[n].type # "DRHD" => Len(OfTypes(d, {"DRHD"}, n)) = Len(OfTypes(d, {"DRHD"}, n - 1))
         /\ d[n].type = "DRHD" =>
              /\ Len(OfTypes(d, {"DRHD"}, n)) = Len(OfTypes(d, {"DRHD"}, n - 1)) + 1
              /\ Len(OfTypes(d, {"DRHD"}, n)) \in 1..GetVtdEngineNumber(d)
              /\ Drhds(d)[Len(OfTypes(d, {"DRHD"}, n))] = d[n]
<1> DEFINE O(k) == OfTypes(d, {"DRHD"}, k)
<1>1. IsSequence(d) /\ Len(d) \in Nat /\ GetVtdEngineNumber(d) \in Nat
  BY DrhdFacts
<1>2. n - 1 \in 0..Len(d) /\ n \in 0..Len(d) /\ Len(d) \in 0..Len(d)
  BY <1>1
<1>3. \A k \in 0..Len(d) : O(k) \in Seq(Range(d)) /\ Len(O(k)) \in Nat
  BY <1>1, OfTypesIs, LenProperties
<1>4. O(n) = IF d[n].type \in {"DRHD"} THEN Append(O(n - 1), d[n]) ELSE O(n - 1)
  <2> DEFINE types == {"DRHD"}
  <2> HIDE DEF types
  <2>1. \A k \in 1..Len(d) : OfTypes(d, types, k) =
          IF d[k].type \in types THEN Append(OfTypes(d, types, k - 1), d[k]) ELSE OfTypes(d, types, k - 1)
    BY <1>1, OfTypesIs
  <2> QED
    BY <2>1 DEF types
<1>5. Drhds(d) = O(Len(d)) /\ GetVtdEngineNumber(d) = Len(O(Len(d)))
  BY DEF Drhds, GetVtdEngineNumber
<1>6. \A k \in 0..Len(d) : Len(O(k)) <= Len(O(Len(d))) /\ \A i \in 1..Len(O(k)) : O(k)[i] = O(Len(d))[i]
  BY <1>1, OfTypesPrefix
<1>7. d[n] \in Range(d)
  BY <1>1, SeqIs
<1> HIDE DEF O
<1>8. CASE d[n].type = "DRHD"
  <2>1. O(n) = Append(O(n - 1), d[n])
    BY <1>4, <1>8
  <2>2. Len(O(n)) = Len(O(n - 1)) + 1 /\ O(n)[Len(O(n - 1)) + 1] = d[n]
    BY <1>2, <1>3, <1>7, <2>1, AppendProperties
  <2>3. Len(O(n)) \in 1..Len(O(Len(d)))
    BY <1>2, <1>3, <1>6, <2>2
  <2>4. O(Len(d))[Len(O(n))] = d[n]
    <3>1. Len(O(n)) \in 1..Len(O(n))
      BY <1>2, <1>3, <2>3
    <3> QED
      BY <1>2, <1>6, <2>2, <3>1
  <2> QED
    BY <1>2, <1>3, <1>5, <1>6, <1>8, <2>2, <2>3, <2>4 DEF O
<1>9. CASE d[n].type # "DRHD"
  <2>1. O(n) = O(n - 1)
    BY <1>4, <1>9
  <2> QED
    BY <1>2, <1>3, <1>5, <1>6, <1>9, <2>1 DEF O
<1> QED
  BY <1>8, <1>9

(* A platform.                                                             *)
LEMMA PlatformFacts ==
  ASSUME NEW p \in Platforms
  PROVE  /\ IsFiniteSet(DOMAIN p)
         /\ \A loc \in DOMAIN p :
              /\ loc = <<loc[1], loc[2], loc[3], loc[4]>> /\ loc[3] \in 0..MaxDevice
              /\ loc[4] \in FunctionsOf(p, loc[1], loc[2], loc[3])
              /\ p[loc].bridge \in BOOLEAN /\ p[loc].multi \in BOOLEAN
BY DmarAssumption DEF PlatformForm

\* What the first n scopes of a DRHD have led to.
ReachedBy(p, d, n) ==
  (IF d.all THEN Behind(p, d.seg, 0) ELSE {}) \cup UNION {Scoped(p, d.seg, d.scopes[k]) : k \in 1..n}

(* One scope more, up to what the DRHD leads to.                           *)
LEMMA ReachedIs ==
  ASSUME NEW p, NEW d, Len(d.scopes) \in Nat, NEW n \in 0..Len(d.scopes)
  PROVE  /\ ReachedBy(p, d, n) \subseteq Target(p, d)
         /\ ReachedBy(p, d, Len(d.scopes)) = Target(p, d)
         /\ n < Len(d.scopes) =>
              ReachedBy(p, d, n + 1) = ReachedBy(p, d, n) \cup Scoped(p, d.seg, d.scopes[n + 1])
<1> DEFINE S(k) == Scoped(p, d.seg, d.scopes[k])
           B == IF d.all THEN Behind(p, d.seg, 0) ELSE {}
<1>1. \A k : ReachedBy(p, d, k) = B \cup UNION {S(i) : i \in 1..k}
  BY DEF ReachedBy
<1>2. Target(p, d) = B \cup UNION {S(i) : i \in 1..Len(d.scopes)}
  BY DEF Target, Named
<1> HIDE DEF S, B
<1>3. \A i \in 1..n : i \in 1..Len(d.scopes)
  OBVIOUS
<1>4. 1..(n + 1) = 1..n \cup {n + 1}
  OBVIOUS
<1>5. ReachedBy(p, d, n + 1) = ReachedBy(p, d, n) \cup S(n + 1)
  BY <1>1, <1>4
<1> QED
  BY <1>1, <1>2, <1>3, <1>5 DEF S

(* Adding a function keeps the array as it must be.                        *)
LEMMA AddedForm ==
  ASSUME NEW p \in Platforms, NEW d \in Dmars, NEW us, NEW v, ArrayForm(p, d, us, v), Len(us) = GetVtdEngineNumber(d),
         v \in 1..Len(us), NEW vs, NEW loc \in Target(p, Drhds(d)[v]), Added(us, vs, v, loc)
  PROVE  /\ ArrayForm(p, d, vs, v) /\ Len(vs) = Len(us)
         /\ EarlierHave(vs, v) = EarlierHave(us, v)
         /\ CompleteUpTo(p, d, us, v - 1) => CompleteUpTo(p, d, vs, v - 1)
<1>1. /\ IsSequence(us) /\ v \in Nat /\ Len(us) \in Nat
      /\ \A i \in 1..Len(us) : UnitForm(us[i])
      /\ \A i \in 1..Len(us) : i <= v => UnitOf(p, Drhds(d)[i], us[i])
      /\ \A i \in 1..Len(us) : i > v => us[i].data = <<>>
      /\ \A i, j \in 1..Len(us) : i # j => Has(us[i]) \cap Has(us[j]) = {}
  BY SeqIs DEF ArrayForm
<1>2. /\ IsSequence(vs) /\ Len(vs) = Len(us) /\ \A j \in 1..Len(us) : j # v => vs[j] = us[j]
      /\ UnitForm(vs[v]) /\ vs[v].seg = us[v].seg /\ vs[v].all = us[v].all
      /\ \/ vs = us
         \/ Has(vs[v]) = Has(us[v]) \cup {loc} /\ (us[v].all => loc \notin EarlierHave(us, v))
  BY DEF Added
<1>3. Has(vs[v]) \subseteq Has(us[v]) \cup {loc}
  BY <1>2
<1>4. UnitOf(p, Drhds(d)[v], us[v])
  BY <1>1
<1>5. UnitOf(p, Drhds(d)[v], vs[v])
  BY <1>2, <1>3, <1>4 DEF UnitOf
<1>6. ASSUME NEW j \in 1..Len(us), j # v PROVE Has(vs[v]) \cap Has(vs[j]) = {}
  <2>1. vs[j] = us[j] /\ Has(us[v]) \cap Has(us[j]) = {}
    BY <1>1, <1>2, <1>6
  <2>2. CASE vs = us
    BY <2>1, <2>2
  <2>3. CASE Has(vs[v]) = Has(us[v]) \cup {loc} /\ (us[v].all => loc \notin EarlierHave(us, v))
    <3>1. CASE j > v
      <4>1. us[j].data = <<>>
        BY <1>1, <3>1
      <4>2. Has(us[j]) = {}
        BY <4>1 DEF Has
      <4> QED
        BY <2>1, <4>2
    <3>2. CASE j < v
      <4>0. j \in 1..(v - 1)
        BY <1>1, <3>2
      <4>1. loc \notin Has(us[j])
        <5>1. CASE us[v].all
          BY <2>3, <4>0, <5>1 DEF EarlierHave
        <5>2. CASE ~us[v].all
          <6>1. ~Drhds(d)[v].all
            BY <1>4, <5>2 DEF UnitOf
          <6>2. Target(p, Drhds(d)[v]) \cap Target(p, Drhds(d)[j]) = {}
            <7>1. v \in 1..Len(Drhds(d))
              BY DEF GetVtdEngineNumber
            <7>2. ScopesForm(p, d)
              BY DmarAssumption
            <7> QED
              BY <4>0, <6>1, <7>1, <7>2 DEF ScopesForm
          <6>3. Has(us[j]) \subseteq Target(p, Drhds(d)[j])
            BY <1>1, <3>2 DEF UnitOf
          <6> QED
            BY <6>2, <6>3
        <5> QED
          BY <5>1, <5>2
      <4> QED
        BY <2>1, <2>3, <4>1
    <3> QED
      BY <1>1, <1>6, <3>1, <3>2
  <2> QED
    BY <1>2, <2>2, <2>3
<1>7. ASSUME NEW i \in 1..Len(us), NEW j \in 1..Len(us), i # j PROVE Has(vs[i]) \cap Has(vs[j]) = {}
  <2>1. CASE i = v
    BY <1>6, <1>7, <2>1
  <2>2. CASE j = v
    BY <1>6, <1>7, <2>2
  <2>3. CASE i # v /\ j # v
    <3>1. vs[i] = us[i] /\ vs[j] = us[j]
      BY <1>2, <2>3
    <3>2. Has(us[i]) \cap Has(us[j]) = {}
      BY <1>1, <1>7
    <3> QED
      BY <3>1, <3>2
  <2> QED
    BY <2>1, <2>2, <2>3
<1>8. \A i \in 1..Len(us) : UnitForm(vs[i])
  BY <1>1, <1>2
<1>9. ASSUME NEW i \in 1..Len(us) PROVE (i <= v => UnitOf(p, Drhds(d)[i], vs[i])) /\ (i > v => vs[i].data = <<>>)
  <2>1. CASE i = v
    BY <1>1, <1>5, <2>1
  <2>2. CASE i # v
    BY <1>1, <1>2, <2>2
  <2> QED
    BY <2>1, <2>2
<1>10. ArrayForm(p, d, vs, v)
  BY <1>1, <1>2, <1>7, <1>8, <1>9 DEF ArrayForm
<1>11. \A j \in 1..(v - 1) : j \in 1..Len(us) /\ vs[j] = us[j]
  BY <1>1, <1>2
<1>12. \A i \in 1..v : EarlierHave(vs, i) = EarlierHave(us, i)
  <2>1. \A i \in 1..v : \A j \in 1..(i - 1) : j \in 1..(v - 1)
    BY <1>1
  <2> QED
    BY <1>11, <2>1 DEF EarlierHave
<1>13. ASSUME CompleteUpTo(p, d, us, v - 1) PROVE CompleteUpTo(p, d, vs, v - 1)
  <2>1. \A i \in 1..(v - 1) : CompleteUnit(p, Drhds(d)[i], us, i)
    BY <1>13 DEF CompleteUpTo
  <2>2. ASSUME NEW i \in 1..(v - 1) PROVE CompleteUnit(p, Drhds(d)[i], vs, i)
    <3>1. EarlierHave(vs, i) = EarlierHave(us, i) /\ vs[i] = us[i]
      BY <1>1, <1>11, <1>12
    <3> QED
      BY <2>1, <3>1 DEF CompleteUnit
  <2> QED
    BY <2>2 DEF CompleteUpTo
<1> QED
  BY <1>1, <1>2, <1>10, <1>12, <1>13

(***************************************************************************)
(* The scan of a bus.                                                      *)
(***************************************************************************)
\* What the scan has still to meet from a frame on.
Ahead(p, seg, f) ==
  {loc \in OnBus(p, seg, f.bus) : loc[3] > f.dev \/ (loc[3] = f.dev /\ loc[4] >= f.fn)}
Pending(p, seg, f) ==
  Ahead(p, seg, f) \cup UNION {Behind(p, seg, p[loc].secondary) : loc \in Numbered(p, Ahead(p, seg, f))}

\* A frame of ScanPciBus, on a bus that the first n scopes have led to.
FrameIs(p, seg, f) ==
  /\ f = [bus |-> f.bus, dev |-> f.dev, fn |-> f.fn] /\ f.dev \in Nat /\ f.fn \in Nat
  /\ f.dev <= MaxDevice => f.fn \in FunctionsOf(p, seg, f.bus, f.dev)
FrameForm(p, d, n, f) == FrameIs(p, d.seg, f) /\ Behind(p, d.seg, f.bus) \subseteq ReachedBy(p, d, n)

\* What the scopes have led to is registered, or belongs to an earlier
\* unit, or is yet to be met.
ScanForm(p, d, us, v, n, st) ==
  /\ IsSequence(st) /\ \A k \in 1..Len(st) : FrameForm(p, d, n, st[k])
  /\ Has(us[v]) \subseteq ReachedBy(p, d, n)
  /\ ReachedBy(p, d, n) \cap DOMAIN p \subseteq
       Has(us[v]) \cup (IF d.all THEN EarlierHave(us, v) ELSE {})
         \cup UNION {Pending(p, d.seg, st[k]) : k \in 1..Len(st)}

(* Function 0 of a device is always looked at.                             *)
LEMMA FunctionsAre ==
  ASSUME NEW p, NEW seg, NEW number, NEW dev
  PROVE  FunctionsOf(p, seg, number, dev) \in {0..MaxFunction, {0}} /\ 0 \in FunctionsOf(p, seg, number, dev)
BY BoundsAssumption DEF FunctionsOf

(* The scan goes on with the next function number that may answer.         *)
LEMMA NextFunctionIs ==
  ASSUME NEW p, NEW seg, NEW f, FrameIs(p, seg, f), f.dev <= MaxDevice
  PROVE  LET g == NextFunction(p, seg, f) IN
         /\ FrameIs(p, seg, g) /\ g.bus = f.bus
         /\ \/ g.dev = f.dev /\ g.fn = f.fn + 1
            \/ g.dev = f.dev + 1 /\ g.fn = 0 /\ f.fn + 1 \notin FunctionsOf(p, seg, f.bus, f.dev)
<1> DEFINE g == NextFunction(p, seg, f)
<1>1. f = [bus |-> f.bus, dev |-> f.dev, fn |-> f.fn] /\ f.dev \in Nat /\ f.fn \in Nat
  BY DEF FrameIs
<1>2. CASE f.fn + 1 \in FunctionsOf(p, seg, f.bus, f.dev)
  <2>1. g = [f EXCEPT !.fn = @ + 1]
    BY <1>2 DEF NextFunction
  <2> HIDE DEF g
  <2>2. g = [bus |-> f.bus, dev |-> f.dev, fn |-> f.fn + 1]
    BY <1>1, <2>1
  <2>3. g.bus = f.bus /\ g.dev = f.dev /\ g.fn = f.fn + 1
    BY <2>2
  <2>4. FrameIs(p, seg, g)
    BY <1>1, <1>2, <2>2, <2>3 DEF FrameIs
  <2> QED
    BY <2>3, <2>4 DEF g
<1>3. CASE f.fn + 1 \notin FunctionsOf(p, seg, f.bus, f.dev)
  <2>1. g = [f EXCEPT !.dev = @ + 1, !.fn = 0]
    BY <1>3 DEF NextFunction
  <2> HIDE DEF g
  <2>2. g = [bus |-> f.bus, dev |-> f.dev + 1, fn |-> 0]
    BY <1>1, <2>1
  <2>3. g.bus = f.bus /\ g.dev = f.dev + 1 /\ g.fn = 0
    BY <2>2
  <2>4. FrameIs(p, seg, g)
    BY <1>1, <2>2, <2>3, FunctionsAre DEF FrameIs
  <2> QED
    BY <1>3, <2>3, <2>4 DEF g
<1> QED
  BY <1>2, <1>3

(* The next function number leaves out one location, and nothing that      *)
(* answers besides.                                                        *)
LEMMA AheadNext ==
  ASSUME NEW p \in Platforms, NEW seg, NEW f, FrameIs(p, seg, f), f.dev <= MaxDevice
  PROVE  Ahead(p, seg, f) \subseteq Ahead(p, seg, NextFunction(p, seg, f)) \cup ({<<seg, f.bus, f.dev, f.fn>>} \cap DOMAIN p)
<1> DEFINE g == NextFunction(p, seg, f)
<1>1. /\ FrameIs(p, seg, g) /\ g.bus = f.bus
      /\ \/ g.dev = f.dev /\ g.fn = f.fn + 1
         \/ g.dev = f.dev + 1 /\ g.fn = 0 /\ f.fn + 1 \notin FunctionsOf(p, seg, f.bus, f.dev)
  BY NextFunctionIs
<1> HIDE DEF g
<1>2. f.dev \in Nat /\ f.fn \in Nat /\ f.fn \in FunctionsOf(p, seg, f.bus, f.dev)
  BY DEF FrameIs
<1> SUFFICES ASSUME NEW loc \in Ahead(p, seg, f), loc # <<seg, f.bus, f.dev, f.fn>>
             PROVE  loc \in Ahead(p, seg, g)
  BY BelowIs DEF Ahead, g
<1>3. /\ loc \in OnBus(p, seg, f.bus) /\ loc \in DOMAIN p /\ loc[1] = seg /\ loc[2] = f.bus
      /\ loc[3] > f.dev \/ (loc[3] = f.dev /\ loc[4] >= f.fn)
  BY DEF Ahead, OnBus
<1>4. /\ loc = <<loc[1], loc[2], loc[3], loc[4]>> /\ loc[3] \in 0..MaxDevice
      /\ loc[4] \in FunctionsOf(p, loc[1], loc[2], loc[3])
  BY <1>3, PlatformFacts
<1>5. FunctionsOf(p, loc[1], loc[2], loc[3]) \in {0..MaxFunction, {0}}
  BY FunctionsAre
<1>6. loc[4] \in Nat /\ loc[3] \in Nat
  BY <1>4, <1>5, BoundsAssumption
<1>7. loc[3] > g.dev \/ (loc[3] = g.dev /\ loc[4] >= g.fn)
  <2>1. CASE loc[3] > f.dev
    BY <1>1, <1>2, <1>6, <2>1
  <2>2. CASE loc[3] = f.dev
    <3>1. loc[4] # f.fn
      BY <1>3, <1>4, <2>2
    <3>2. loc[4] >= f.fn + 1
      BY <1>2, <1>3, <1>6, <2>2, <3>1
    <3>3. f.fn + 1 \in FunctionsOf(p, seg, f.bus, f.dev)
      <4>1. loc[4] \in FunctionsOf(p, seg, f.bus, f.dev)
        BY <1>3, <1>4, <2>2
      <4>2. CASE FunctionsOf(p, seg, f.bus, f.dev) = 0..MaxFunction
        BY <1>2, <1>6, <3>2, <4>1, <4>2, BoundsAssumption
      <4>3. CASE FunctionsOf(p, seg, f.bus, f.dev) = {0}
        BY <1>2, <1>6, <3>2, <4>1, <4>3
      <4> QED
        BY <4>2, <4>3, FunctionsAre
    <3>4. g.dev = f.dev /\ g.fn = f.fn + 1
      BY <1>1, <3>3
    <3> QED
      BY <2>2, <3>2, <3>4
  <2> QED
    BY <1>3, <2>1, <2>2
<1> QED
  BY <1>1, <1>3, <1>7 DEF Ahead

(* What is yet to be met, when a location is passed over.                  *)
LEMMA PendingNext ==
  ASSUME NEW p \in Platforms, NEW seg, NEW f, FrameIs(p, seg, f), f.dev <= MaxDevice
  PROVE  LET loc == <<seg, f.bus, f.dev, f.fn>>
             g == NextFunction(p, seg, f)
         IN Pending(p, seg, f) \subseteq
              Pending(p, seg, g) \cup
                (IF loc \in DOMAIN p
                   THEN {loc} \cup (IF p[loc].bridge /\ p[loc].secondary # 0 THEN Behind(p, seg, p[loc].secondary) ELSE {})
                   ELSE {})
<1> DEFINE loc == <<seg, f.bus, f.dev, f.fn>>
           g == NextFunction(p, seg, f)
           A == Ahead(p, seg, f)
           C == Ahead(p, seg, g)
           B(l) == Behind(p, seg, p[l].secondary)
           rest == IF loc \in DOMAIN p
                     THEN {loc} \cup (IF p[loc].bridge /\ p[loc].secondary # 0 THEN B(loc) ELSE {})
                     ELSE {}
<1>1. A \subseteq C \cup ({loc} \cap DOMAIN p)
  BY AheadNext
<1>2. Pending(p, seg, f) = A \cup UNION {B(l) : l \in Numbered(p, A)}
  BY DEF Pending
<1>3. Pending(p, seg, g) = C \cup UNION {B(l) : l \in Numbered(p, C)}
  BY DEF Pending
<1> HIDE DEF loc, g, A, C, B
<1>4. A \subseteq C \cup rest
  BY <1>1
<1>5. ASSUME NEW l \in Numbered(p, A) PROVE B(l) \subseteq rest \cup UNION {B(k) : k \in Numbered(p, C)}
  <2>1. l \in A /\ p[l].bridge /\ p[l].secondary # 0
    BY <1>5 DEF Numbered
  <2>2. CASE l \in C
    <3>1. l \in Numbered(p, C)
      BY <2>1, <2>2 DEF Numbered
    <3> QED
      BY <3>1
  <2>3. CASE l = loc /\ loc \in DOMAIN p
    BY <2>1, <2>3
  <2> QED
    BY <1>1, <2>1, <2>2, <2>3
<1> HIDE DEF rest
<1>6. Pending(p, seg, f) \subseteq Pending(p, seg, g) \cup rest
  BY <1>2, <1>3, <1>4, <1>5
<1> QED
  BY <1>6 DEF rest, loc, g, B

(* The scan of a bus has all before it that is behind the bus, and nothing *)
(* when its devices are over.                                              *)
LEMMA PendingEnds ==
  ASSUME NEW p \in Platforms, NEW seg
  PROVE  /\ \A number : /\ FrameIs(p, seg, Frame(number)) /\ Frame(number).bus = number
                     /\ Behind(p, seg, number) \subseteq Pending(p, seg, Frame(number))
         /\ \A f : f.dev > MaxDevice /\ f.dev \in Nat => Pending(p, seg, f) = {}
<1>1. ASSUME NEW number
      PROVE  /\ FrameIs(p, seg, Frame(number)) /\ Frame(number).bus = number
             /\ Behind(p, seg, number) \subseteq Pending(p, seg, Frame(number))
  <2> DEFINE f == Frame(number)
  <2>1. f = [bus |-> f.bus, dev |-> f.dev, fn |-> f.fn] /\ f.bus = number /\ f.dev = 0 /\ f.fn = 0
    BY DEF Frame
  <2> HIDE DEF f
  <2>2. FrameIs(p, seg, f)
    BY <2>1, FunctionsAre DEF FrameIs
  <2>3. Ahead(p, seg, f) = OnBus(p, seg, number)
    <3>1. ASSUME NEW loc \in OnBus(p, seg, number) PROVE loc[3] > 0 \/ (loc[3] = 0 /\ loc[4] >= 0)
      <4>1. loc \in DOMAIN p
        BY BelowIs
      <4>2. loc[3] \in 0..MaxDevice /\ loc[4] \in FunctionsOf(p, loc[1], loc[2], loc[3])
        BY <4>1, PlatformFacts
      <4>3. FunctionsOf(p, loc[1], loc[2], loc[3]) \in {0..MaxFunction, {0}}
        BY FunctionsAre
      <4> QED
        BY <4>2, <4>3, BoundsAssumption
    <3> QED
      BY <2>1, <3>1 DEF Ahead
  <2>4. Behind(p, seg, number) \subseteq Pending(p, seg, f)
    BY <2>3, PlatformFacts, BehindUnfolds DEF Pending
  <2> QED
    BY <2>1, <2>2, <2>4 DEF f
<1>2. ASSUME NEW f, f.dev > MaxDevice, f.dev \in Nat PROVE Pending(p, seg, f) = {}
  <2>1. ASSUME NEW loc \in OnBus(p, seg, f.bus) PROVE ~(loc[3] > f.dev) /\ loc[3] # f.dev
    <3>1. loc \in DOMAIN p
      BY BelowIs
    <3>2. loc[3] \in 0..MaxDevice
      BY <3>1, PlatformFacts
    <3> QED
      BY <1>2, <3>2, BoundsAssumption
  <2>2. Ahead(p, seg, f) = {}
    BY <2>1 DEF Ahead
  <2> QED
    BY <2>2 DEF Pending, Numbered
<1> QED
  BY <1>1, <1>2

(* One step of the scan: the innermost frame gives way to others, and what *)
(* it had yet to meet is registered, or belongs to an earlier unit, or is  *)
(* still to be met.                                                        *)
LEMMA StackStep ==
  ASSUME NEW p, NEW d, NEW us, NEW v, NEW n, NEW st, ScanForm(p, d, us, v, n, st), st # <<>>,
         NEW vs, Has(us[v]) \subseteq Has(vs[v]), Has(vs[v]) \subseteq ReachedBy(p, d, n), EarlierHave(vs, v) = EarlierHave(us, v),
         NEW r, IsSequence(r), Len(r) + 1 >= Len(st), \A k \in 1..(Len(st) - 1) : r[k] = st[k],
         \A k \in Len(st)..Len(r) : FrameForm(p, d, n, r[k]),
         Pending(p, d.seg, st[Len(st)]) \subseteq
           Has(vs[v]) \cup (IF d.all THEN EarlierHave(us, v) ELSE {}) \cup UNION {Pending(p, d.seg, r[k]) : k \in Len(st)..Len(r)}
  PROVE  ScanForm(p, d, vs, v, n, r)
<1> DEFINE m == Len(st)
           Mine == Has(vs[v]) \cup (IF d.all THEN EarlierHave(us, v) ELSE {})
           P(f) == Pending(p, d.seg, f)
           F(f) == FrameForm(p, d, n, f)
<1>1. /\ IsSequence(st) /\ \A k \in 1..m : F(st[k])
      /\ ReachedBy(p, d, n) \cap DOMAIN p \subseteq
           Has(us[v]) \cup (IF d.all THEN EarlierHave(us, v) ELSE {}) \cup UNION {P(st[k]) : k \in 1..m}
  BY DEF ScanForm
<1>2. m \in Nat /\ m # 0 /\ Len(r) \in Nat
  BY <1>1, SeqIs
<1>3. /\ Len(r) + 1 >= m
      /\ P(st[m]) \subseteq Mine \cup UNION {P(r[k]) : k \in m..Len(r)}
      /\ Has(us[v]) \cup (IF d.all THEN EarlierHave(us, v) ELSE {}) \subseteq Mine
  <2>1. P(st[m]) \subseteq Mine \cup UNION {P(r[k]) : k \in m..Len(r)}
    OBVIOUS
  <2>2. Has(us[v]) \cup (IF d.all THEN EarlierHave(us, v) ELSE {}) \subseteq Mine
    OBVIOUS
  <2> HIDE DEF Mine, P
  <2> QED
    BY <2>1, <2>2
<1>4. \A k \in 1..(m - 1) : r[k] = st[k]
  OBVIOUS
<1>5. \A k \in m..Len(r) : F(r[k])
  OBVIOUS
<1> HIDE DEF m, Mine, P, F
<1>6. ASSUME NEW k \in 1..Len(r) PROVE F(r[k])
  <2>1. CASE k <= m - 1
    <3>1. k \in 1..(m - 1) /\ k \in 1..m
      BY <1>2, <2>1
    <3> QED
      BY <1>1, <1>4, <3>1
  <2>2. CASE ~(k <= m - 1)
    BY <1>2, <1>5, <2>2
  <2> QED
    BY <2>1, <2>2
<1>7. ASSUME NEW k \in 1..m PROVE P(st[k]) \subseteq Mine \cup UNION {P(r[j]) : j \in 1..Len(r)}
  <2>1. CASE k <= m - 1
    <3>1. k \in 1..(m - 1) /\ k \in 1..Len(r)
      BY <1>2, <1>3, <2>1
    <3>2. r[k] = st[k]
      BY <1>4, <3>1
    <3> QED
      BY <3>1, <3>2
  <2>2. CASE k = m
    <3>1. \A j \in m..Len(r) : j \in 1..Len(r)
      BY <1>2
    <3>2. UNION {P(r[j]) : j \in m..Len(r)} \subseteq UNION {P(r[j]) : j \in 1..Len(r)}
      BY <3>1
    <3> QED
      BY <1>3, <2>2, <3>2
  <2> QED
    BY <1>2, <2>1, <2>2
<1>8. ReachedBy(p, d, n) \cap DOMAIN p \subseteq Mine \cup UNION {P(r[k]) : k \in 1..Len(r)}
  BY <1>1, <1>3, <1>7
<1> QED
  BY <1>6, <1>8 DEF ScanForm, Mine, P, F

-----------------------------------------------------------------------------
(***************************************************************************)
(* The inductive invariant.                                                *)
(***************************************************************************)
\* The loops over the table: VtdIndex is the number of DRHDs passed.
PhaseInv ==
  /\ pci \in Platforms /\ dmar \in Dmars /\ IsSequence(policy) /\ at \in Nat \ {0} /\ vtdIndex \in Nat
  /\ pc \in {"start", "parse", "drhd", "scan", "rmrr", "policy", "done", "pool_failed"}
  /\ pc \in {"start", "parse", "drhd", "scan"} => status = "success"
  /\ pc \in {"start", "parse", "pool_failed"} => at = 1 /\ vtdIndex = 0 /\ units = <<>>
  /\ pc = "drhd" =>
       /\ Len(units) = GetVtdEngineNumber(dmar) /\ at <= Len(dmar) + 1
       /\ vtdIndex = Len(OfTypes(dmar, {"DRHD"}, at - 1))
  /\ pc = "scan" =>
       /\ Len(units) = GetVtdEngineNumber(dmar) /\ at <= Len(dmar) /\ dmar[at].type = "DRHD"
       /\ vtdIndex = Len(OfTypes(dmar, {"DRHD"}, at))
  /\ pc \in {"rmrr", "policy", "done"} =>
       \/ vtdIndex \in 0..Len(units) /\ (status = "success" => vtdIndex = Len(units))
       \/ units = <<>> /\ vtdIndex = 0

\* The units before the one at hand are complete, this one after its scan.
CompleteInv ==
  CompleteUpTo(pci, dmar, units, IF pc = "scan" \/ status # "success" THEN vtdIndex - 1 ELSE vtdIndex)

ScanInv ==
  /\ pc # "scan" => stack = <<>>
  /\ pc = "scan" =>
       /\ scope \in 1..(Len(dmar[at].scopes) + 1)
       /\ ScanForm(pci, dmar[at], units, vtdIndex, scope - 1, stack)

CoreInv == PhaseInv /\ ArrayForm(pci, dmar, units, vtdIndex) /\ CompleteInv /\ ScanInv

(* The unit at hand is that of the DRHD at hand.                           *)
LEMMA ScanFacts ==
  ASSUME CoreInv, pc = "scan"
  PROVE  LET d == dmar[at] IN
         /\ pci \in Platforms /\ dmar \in Dmars /\ status = "success"
         /\ at \in 1..Len(dmar) /\ Len(units) = GetVtdEngineNumber(dmar) /\ vtdIndex \in 1..Len(units)
         /\ IsSequence(units) /\ Drhds(dmar)[vtdIndex] = d
         /\ \A i \in 1..Len(units) : UnitForm(units[i])
         /\ units[vtdIndex].seg = d.seg /\ units[vtdIndex].all = d.all /\ d.all \in BOOLEAN
         /\ Len(d.scopes) \in Nat /\ IsSequence(d.scopes) /\ scope - 1 \in 0..Len(d.scopes)
         /\ ReachedBy(pci, d, scope - 1) \subseteq Target(pci, d)
         /\ ScanForm(pci, d, units, vtdIndex, scope - 1, stack)
         /\ CompleteUpTo(pci, dmar, units, vtdIndex - 1)
<1> DEFINE d == dmar[at]
           v == vtdIndex
<1>1. /\ pci \in Platforms /\ dmar \in Dmars /\ status = "success" /\ at \in Nat \ {0} /\ at <= Len(dmar)
      /\ Len(units) = GetVtdEngineNumber(dmar) /\ d.type = "DRHD" /\ v = Len(OfTypes(dmar, {"DRHD"}, at))
  BY DEF CoreInv, PhaseInv
<1>2. Len(dmar) \in Nat /\ at \in 1..Len(dmar)
  BY <1>1, DrhdFacts
<1>3. v \in 1..Len(units) /\ Drhds(dmar)[v] = d
  BY <1>1, <1>2, DrhdCounted
<1>4. d.all \in BOOLEAN /\ IsSequence(d.scopes) /\ Len(d.scopes) \in Nat
  BY <1>1, <1>3, DrhdFacts
<1>5. IsSequence(units) /\ (\A i \in 1..Len(units) : UnitForm(units[i])) /\ UnitOf(pci, Drhds(dmar)[v], units[v])
  <2>1. v <= v
    BY <1>3
  <2> QED
    BY <1>3, <2>1 DEF CoreInv, ArrayForm
<1>6. scope \in 1..(Len(d.scopes) + 1) /\ ScanForm(pci, d, units, v, scope - 1, stack)
  BY DEF CoreInv, ScanInv
<1>7. scope - 1 \in 0..Len(d.scopes)
  BY <1>4, <1>6
<1>8. ReachedBy(pci, d, scope - 1) \subseteq Target(pci, d)
  BY <1>4, <1>7, ReachedIs
<1>9. CompleteUpTo(pci, dmar, units, v - 1)
  BY DEF CoreInv, CompleteInv
<1> QED
  BY <1>1, <1>2, <1>3, <1>4, <1>5, <1>6, <1>7, <1>8, <1>9 DEF UnitOf

(* The end of a bus.                                                       *)
LEMMA ScanPciBusEndStep == CoreInv /\ ScanPciBusEnd => CoreInv'
<1> SUFFICES ASSUME CoreInv, ScanPciBusEnd PROVE CoreInv'
  OBVIOUS
<1> DEFINE d == dmar[at]
           m == Len(stack)
<1>1. /\ pc = "scan" /\ stack # <<>> /\ stack[m].dev > MaxDevice /\ stack' = SubSeq(stack, 1, m - 1)
      /\ UNCHANGED <<pc, pci, dmar, policy, at, scope, units, vtdIndex, status>>
  BY DEF ScanPciBusEnd, PastBus, Tables
<1>2. ScanForm(pci, d, units, vtdIndex, scope - 1, stack) /\ pci \in Platforms
  BY <1>1, ScanFacts
<1>3. IsSequence(stack) /\ (\A k \in 1..m : FrameForm(pci, d, scope - 1, stack[k])) /\ Has(units[vtdIndex]) \subseteq ReachedBy(pci, d, scope - 1)
  BY <1>2 DEF ScanForm
<1>4. m \in Nat /\ m # 0 /\ m \in 1..m
  BY <1>1, <1>3, SeqIs
<1>5. IsSequence(stack') /\ Len(stack') = m - 1 /\ \A k \in 1..(m - 1) : stack'[k] = stack[k]
  BY <1>1, <1>3, SeqFront
<1>6. Pending(pci, d.seg, stack[m]) = {}
  BY <1>1, <1>2, <1>3, <1>4, PendingEnds DEF FrameForm, FrameIs
<1>7. ScanForm(pci, d, units, vtdIndex, scope - 1, stack')
  <2>1. Len(stack') + 1 >= m /\ m..Len(stack') = {}
    BY <1>4, <1>5
  <2> HIDE DEF d
  <2> QED
    BY <1>1, <1>2, <1>3, <1>5, <1>6, <2>1, StackStep
<1> QED
  BY <1>1, <1>7 DEF CoreInv, PhaseInv, CompleteInv, ScanInv

(* A registration within a scan, of what the DRHD leads to.                *)
LEMMA ScanRegisters ==
  ASSUME CoreInv, pc = "scan", NEW a, NEW b, NEW c, NEW seg, seg = dmar[at].seg, NEW type, NEW check, NEW vs, NEW st,
         RegisterPciDevice(vtdIndex, seg, <<a, b, c>>, type, check, vs, st),
         <<seg, a, b, c>> \in Target(pci, dmar[at])
  PROVE  LET loc == <<seg, a, b, c>>
             d == dmar[at]
         IN
         /\ Added(units, vs, vtdIndex, loc)
         /\ ArrayForm(pci, dmar, vs, vtdIndex) /\ Len(vs) = Len(units)
         /\ EarlierHave(vs, vtdIndex) = EarlierHave(units, vtdIndex)
         /\ CompleteUpTo(pci, dmar, vs, vtdIndex - 1)
         /\ st # "success" => vs = units
         /\ st = "out_of_resources" => PoolMayFail
         /\ Has(units[vtdIndex]) \subseteq Has(vs[vtdIndex]) /\ Has(vs[vtdIndex]) \subseteq Has(units[vtdIndex]) \cup {loc}
         /\ st # "out_of_resources" =>
              loc \in Has(vs[vtdIndex]) \cup (IF d.all THEN EarlierHave(units, vtdIndex) ELSE {})
<1> DEFINE loc == <<seg, a, b, c>>
           d == dmar[at]
           v == vtdIndex
<1>1. /\ pci \in Platforms /\ dmar \in Dmars /\ Len(units) = GetVtdEngineNumber(dmar) /\ v \in 1..Len(units)
      /\ IsSequence(units) /\ Drhds(dmar)[v] = d /\ \A i \in 1..Len(units) : UnitForm(units[i])
      /\ units[v].seg = d.seg /\ units[v].all = d.all /\ d.all \in BOOLEAN
      /\ CompleteUpTo(pci, dmar, units, v - 1)
  BY ScanFacts
<1>2. ArrayForm(pci, dmar, units, v)
  BY DEF CoreInv
<1>3. RegisterPciDevice(v, units[v].seg, <<a, b, c>>, type, check, vs, st) /\ units[v].seg = seg
  BY <1>1
<1>4. /\ Added(units, vs, v, loc)
      /\ st # "success" => vs = units
      /\ st = "out_of_resources" => PoolMayFail
      /\ st # "out_of_resources" => loc \in Has(vs[v]) \cup (IF units[v].all THEN EarlierHave(units, v) ELSE {})
  <2> DEFINE l == <<units[v].seg, a, b, c>>
  <2>1. l = loc
    BY <1>3
  <2>2. units[v].all \in BOOLEAN
    BY <1>1
  <2>3. /\ Added(units, vs, v, l)
        /\ st # "success" => vs = units
        /\ st = "out_of_resources" => PoolMayFail
        /\ st # "out_of_resources" => l \in Has(vs[v]) \cup (IF units[v].all THEN EarlierHave(units, v) ELSE {})
    <3> HIDE DEF v
    <3> QED
      BY <1>1, <1>3, <2>2, RegisterIs
  <2> HIDE DEF l, loc
  <2> QED
    BY <2>1, <2>3
<1> HIDE DEF loc
<1>5. loc \in Target(pci, Drhds(dmar)[v])
  BY <1>1 DEF loc
<1>6. /\ ArrayForm(pci, dmar, vs, v) /\ Len(vs) = Len(units) /\ EarlierHave(vs, v) = EarlierHave(units, v)
      /\ CompleteUpTo(pci, dmar, vs, v - 1)
  BY <1>1, <1>2, <1>4, <1>5, AddedForm
<1>7. Has(units[v]) \subseteq Has(vs[v]) /\ Has(vs[v]) \subseteq Has(units[v]) \cup {loc}
  BY <1>4 DEF Added
<1> QED
  BY <1>1, <1>4, <1>6, <1>7 DEF loc

(* An error ends the walk over the DRHDs.                                  *)
LEMMA FailStep ==
  ASSUME CoreInv, pc = "scan", NEW st, st # "success", Fail(st), units' = units,
         UNCHANGED <<pci, dmar, policy, vtdIndex>>
  PROVE  CoreInv'
<1>1. status' = st /\ at' = 1 /\ pc' = "rmrr" /\ stack' = <<>>
  BY DEF Fail
<1>2. CompleteUpTo(pci, dmar, units, vtdIndex - 1) /\ vtdIndex \in 1..Len(units) /\ IsSequence(units)
  BY ScanFacts
<1>3. CompleteInv'
  BY <1>1, <1>2 DEF CompleteInv
<1>4. vtdIndex \in 0..Len(units)
  BY <1>2, SeqIs
<1> QED
  BY <1>1, <1>3, <1>4 DEF CoreInv, PhaseInv, ScanInv

(* One function number.                                                    *)
LEMMA ScanPciBusStep == CoreInv /\ ScanPciBus => CoreInv'
<1> SUFFICES ASSUME CoreInv, ScanPciBus PROVE CoreInv'
  OBVIOUS
<1> DEFINE d == dmar[at]
           v == vtdIndex
           n == scope - 1
           m == Len(stack)
           f == stack[m]
           g == NextFunction(pci, d.seg, f)
           loc == <<d.seg, f.bus, f.dev, f.fn>>
           type == IF IsBridge(pci, loc) THEN Bridge ELSE Endpoint
           on == [stack EXCEPT ![m] = g]
<1>1. /\ pc = "scan" /\ stack # <<>> /\ ~(f.dev > MaxDevice) /\ UNCHANGED <<vtdIndex, pci, dmar, policy>>
      /\ IF ~Present(pci, loc)
         THEN stack' = on /\ UNCHANGED <<pc, at, scope, units, status>>
         ELSE \E st \in {"success", "out_of_resources"} :
                /\ RegisterPciDevice(v, loc[1], <<loc[2], loc[3], loc[4]>>, type, FALSE, units', st)
                /\ IF st = "success"
                   THEN stack' = on \o Subordinate(pci, loc) /\ UNCHANGED <<pc, at, scope, status>>
                   ELSE Fail(st)
  BY DEF ScanPciBus, Structure, PastBus, Tables
<1>2. /\ pci \in Platforms /\ dmar \in Dmars /\ ScanForm(pci, d, units, v, n, stack)
      /\ ReachedBy(pci, d, n) \subseteq Target(pci, d) /\ v \in 1..Len(units)
  BY <1>1, ScanFacts
<1>3. /\ IsSequence(stack) /\ \A k \in 1..m : FrameForm(pci, d, n, stack[k])
      /\ Has(units[v]) \subseteq ReachedBy(pci, d, n)
  BY <1>2 DEF ScanForm
<1>4. m \in Nat /\ m # 0 /\ m \in 1..m
  BY <1>1, <1>3, SeqIs
<1>5. FrameIs(pci, d.seg, f) /\ Behind(pci, d.seg, f.bus) \subseteq ReachedBy(pci, d, n) /\ f.dev <= MaxDevice
  BY <1>1, <1>3, <1>4, BoundsAssumption DEF FrameForm, FrameIs
<1>6. FrameForm(pci, d, n, g)
  BY <1>5, NextFunctionIs DEF FrameForm
<1>7. IsSequence(on) /\ Len(on) = m /\ on[m] = g /\ \A k \in 1..(m - 1) : on[k] = stack[k]
  <2>1. DOMAIN stack = 1..m
    BY <1>3, SeqIs
  <2> HIDE DEF g
  <2>2. on = [k \in 1..m |-> on[k]] /\ on[m] = g /\ \A k \in 1..m : k # m => on[k] = stack[k]
    BY <1>4, <2>1
  <2>3. \A k \in 1..(m - 1) : k \in 1..m /\ k # m
    BY <1>4
  <2> HIDE DEF on, m
  <2>4. IsSequence(on) /\ Len(on) = m
    BY <1>4, <2>2, SeqFunction
  <2> QED
    BY <2>2, <2>3, <2>4
<1>8. Pending(pci, d.seg, f) \subseteq
        Pending(pci, d.seg, g) \cup
          (IF loc \in DOMAIN pci
             THEN {loc} \cup (IF pci[loc].bridge /\ pci[loc].secondary # 0 THEN Behind(pci, d.seg, pci[loc].secondary) ELSE {})
             ELSE {})
  BY <1>2, <1>5, PendingNext
<1> HIDE DEF g, on
<1>9. CASE ~Present(pci, loc)
  <2>1. stack' = on /\ UNCHANGED <<pc, at, scope, units, status>>
    BY <1>1, <1>9
  <2>2. m..Len(on) = {m}
    BY <1>4, <1>7
  <2>3. \A k \in m..Len(on) : FrameForm(pci, d, n, on[k])
    BY <1>6, <1>7, <2>2
  <2>4. Pending(pci, d.seg, f) \subseteq Pending(pci, d.seg, on[m])
    BY <1>7, <1>8, <1>9 DEF Present
  <2>5. ScanForm(pci, d, units, v, n, on)
    <3>1. UNION {Pending(pci, d.seg, on[k]) : k \in m..Len(on)} = Pending(pci, d.seg, on[m])
      BY <2>2
    <3>2. Len(on) + 1 >= m
      BY <1>4, <1>7
    <3> HIDE DEF d
    <3> QED
      BY <1>1, <1>2, <1>3, <1>7, <2>3, <2>4, <3>1, <3>2, StackStep
  <2> QED
    BY <1>1, <2>1, <2>5 DEF CoreInv, PhaseInv, CompleteInv, ScanInv
<1>10. CASE Present(pci, loc)
  <2>1. PICK st \in {"success", "out_of_resources"} :
          /\ RegisterPciDevice(v, d.seg, <<f.bus, f.dev, f.fn>>, type, FALSE, units', st)
          /\ IF st = "success"
             THEN stack' = on \o Subordinate(pci, loc) /\ UNCHANGED <<pc, at, scope, status>>
             ELSE Fail(st)
    BY <1>1, <1>10
  <2>2. loc \in DOMAIN pci /\ loc \in OnBus(pci, d.seg, f.bus) /\ IsFiniteSet(DOMAIN pci)
    BY <1>2, <1>10, PlatformFacts DEF Present, OnBus
  <2>3. loc \in Behind(pci, d.seg, f.bus)
    BY <2>2, BehindOn
  <2>4. loc \in Target(pci, d) /\ loc \in ReachedBy(pci, d, n)
    BY <1>2, <1>5, <2>3
  <2>5. /\ ArrayForm(pci, dmar, units', v) /\ Len(units') = Len(units)
        /\ EarlierHave(units', v) = EarlierHave(units, v)
        /\ CompleteUpTo(pci, dmar, units', v - 1)
        /\ st # "success" => units' = units
        /\ Has(units[v]) \subseteq Has(units'[v]) /\ Has(units'[v]) \subseteq Has(units[v]) \cup {loc}
        /\ st # "out_of_resources" => loc \in Has(units'[v]) \cup (IF d.all THEN EarlierHave(units, v) ELSE {})
    <3> DEFINE no == FALSE
               vs == units'
    <3>1. pc = "scan" /\ d.seg = dmar[at].seg /\ v = vtdIndex /\ d = dmar[at]
      BY <1>1
    <3>2. RegisterPciDevice(vtdIndex, d.seg, <<f.bus, f.dev, f.fn>>, type, no, vs, st) /\ <<d.seg, f.bus, f.dev, f.fn>> \in Target(pci, dmar[at])
      BY <2>1, <2>4
    <3>3. loc = <<d.seg, f.bus, f.dev, f.fn>>
      OBVIOUS
    <3> HIDE DEF f, type, d, v, loc, no, vs
    <3>4. /\ ArrayForm(pci, dmar, vs, v) /\ Len(vs) = Len(units)
          /\ EarlierHave(vs, v) = EarlierHave(units, v)
          /\ CompleteUpTo(pci, dmar, vs, v - 1)
          /\ st # "success" => vs = units
          /\ Has(units[v]) \subseteq Has(vs[v]) /\ Has(vs[v]) \subseteq Has(units[v]) \cup {loc}
          /\ st # "out_of_resources" => loc \in Has(vs[v]) \cup (IF d.all THEN EarlierHave(units, v) ELSE {})
      BY <3>1, <3>2, <3>3, ScanRegisters
    <3> QED
      BY <3>4 DEF vs
  <2>6. CASE st # "success"
    BY <1>1, <2>1, <2>5, <2>6, FailStep
  <2>7. CASE st = "success"
    <3> DEFINE sub == Subordinate(pci, loc)
               r == on \o sub
               bridge == pci[loc].bridge /\ pci[loc].secondary # 0
               number == pci[loc].secondary
    <3>1. stack' = r /\ UNCHANGED <<pc, at, scope, status>>
      BY <2>1, <2>7
    <3>2. sub = IF bridge THEN <<Frame(number)>> ELSE <<>>
      BY <2>2 DEF Subordinate, IsBridge, Secondary, Present
    <3>3. bridge => Behind(pci, d.seg, number) \subseteq ReachedBy(pci, d, n)
      <4>1. bridge => loc \in Numbered(pci, Behind(pci, d.seg, f.bus))
        BY <2>3 DEF Numbered
      <4>2. bridge => Behind(pci, d.seg, pci[loc].secondary) \subseteq Behind(pci, d.seg, f.bus)
        <5> HIDE DEF loc
        <5> QED
          BY <2>2, <4>1, BehindBridge
      <4> QED
        BY <1>5, <4>2
    <3>4. FrameIs(pci, d.seg, Frame(number)) /\ Frame(number).bus = number /\ Behind(pci, d.seg, number) \subseteq Pending(pci, d.seg, Frame(number))
      BY <1>2, PendingEnds
    <3> HIDE DEF number, bridge, sub, loc, f
    <3>5. IsSequence(sub) /\ Len(sub) = (IF bridge THEN 1 ELSE 0) /\ (bridge => sub[1] = Frame(number))
      <4>1. CASE bridge
        <5>1. sub = <<Frame(number)>> /\ sub \in Seq({Frame(number)}) /\ Len(sub) = 1 /\ sub[1] = Frame(number)
          BY <3>2, <4>1
        <5> QED
          BY <4>1, <5>1, SeqOwn
      <4>2. CASE ~bridge
        <5>1. sub = <<>>
          BY <3>2, <4>2
        <5>2. sub \in Seq({}) /\ Len(sub) = 0
          BY <5>1
        <5>3. IsSequence(sub)
          BY <5>2, SeqOwn
        <5> QED
          BY <4>2, <5>2, <5>3
      <4> QED
        BY <4>1, <4>2
    <3>6. /\ IsSequence(r) /\ Len(r) = m + Len(sub)
          /\ \A i \in 1..m : r[i] = on[i]
          /\ \A i \in 1..Len(sub) : r[m + i] = sub[i]
      <4>1. IsSequence(on) /\ IsSequence(sub) /\ Len(on) = m
        BY <1>7, <3>5
      <4>2. r = on \o sub
        OBVIOUS
      <4> HIDE DEF r, m
      <4>3. IsSequence(r) /\ Len(r) = Len(on) + Len(sub)
        BY <4>1, <4>2, SeqConcat
      <4>4. \A i \in 1..Len(on) : r[i] = on[i]
        BY <4>1, <4>2, SeqConcat
      <4>5. \A i \in 1..Len(sub) : r[Len(on) + i] = sub[i]
        BY <4>1, <4>2, SeqConcat
      <4> QED
        BY <4>1, <4>3, <4>4, <4>5
    <3> HIDE DEF r, m
    <3>7. r[m] = g /\ (bridge => r[m + 1] = Frame(number)) /\ \A k \in 1..(m - 1) : r[k] = stack[k]
      <4>1. \A k \in 1..(m - 1) : k \in 1..m
        BY <1>4
      <4>2. bridge => 1 \in 1..Len(sub)
        BY <3>5
      <4> QED
        BY <1>4, <1>7, <3>5, <3>6, <4>1, <4>2
    <3>8. m..Len(r) = IF bridge THEN {m, m + 1} ELSE {m}
      <4>1. CASE bridge
        <5>1. Len(r) = m + 1
          BY <3>5, <3>6, <4>1
        <5>2. m..(m + 1) = {m, m + 1}
          BY <1>4
        <5> QED
          BY <4>1, <5>1, <5>2
      <4>2. CASE ~bridge
        <5>1. Len(r) = m
          BY <1>4, <3>5, <3>6, <4>2
        <5>2. m..m = {m}
          BY <1>4
        <5> QED
          BY <4>2, <5>1, <5>2
      <4> QED
        BY <4>1, <4>2
    <3>9. ASSUME NEW k \in m..Len(r) PROVE FrameForm(pci, d, n, r[k])
      <4>1. CASE k = m
        BY <1>6, <3>7, <4>1
      <4>2. CASE bridge /\ k = m + 1
        BY <3>3, <3>4, <3>7, <4>2 DEF FrameForm
      <4>3. k = m \/ (bridge /\ k = m + 1)
        <5>1. k \in IF bridge THEN {m, m + 1} ELSE {m}
          BY <3>8, <3>9
        <5> QED
          BY <5>1
      <4> QED
        BY <4>1, <4>2, <4>3
    <3>10. Pending(pci, d.seg, stack[m]) \subseteq
             Has(units'[v]) \cup (IF d.all THEN EarlierHave(units, v) ELSE {}) \cup UNION {Pending(pci, d.seg, r[k]) : k \in m..Len(r)}
      <4> DEFINE U == UNION {Pending(pci, d.seg, r[k]) : k \in m..Len(r)}
      <4>1. Pending(pci, d.seg, g) \subseteq U
        BY <1>4, <3>7, <3>8
      <4>2. bridge => Behind(pci, d.seg, number) \subseteq U
        BY <3>4, <3>7, <3>8
      <4>3. Pending(pci, d.seg, stack[m]) \subseteq
              Pending(pci, d.seg, g) \cup {loc} \cup (IF bridge THEN Behind(pci, d.seg, number) ELSE {})
        BY <1>8, <2>2 DEF f, bridge, number
      <4> HIDE DEF U
      <4>4. loc \in Has(units'[v]) \cup (IF d.all THEN EarlierHave(units, v) ELSE {})
        BY <2>5, <2>7
      <4>5. Pending(pci, d.seg, stack[m]) \subseteq
             Has(units'[v]) \cup (IF d.all THEN EarlierHave(units, v) ELSE {}) \cup U
        BY <4>1, <4>2, <4>3, <4>4
      <4> QED
        BY <4>5 DEF U
    <3>11. Has(units'[v]) \subseteq ReachedBy(pci, d, n)
      BY <1>3, <2>4, <2>5
    <3>12. ScanForm(pci, d, units', v, n, r)
      <4>1. Len(r) + 1 >= m
        BY <1>4, <3>5, <3>6
      <4> HIDE DEF d, v, n
      <4> QED
        BY <1>1, <1>2, <2>5, <3>6, <3>7, <3>9, <3>10, <3>11, <4>1, StackStep DEF m
    <3>13. ScanInv' /\ CompleteInv' /\ ArrayForm(pci, dmar, units, vtdIndex)'
      BY <1>1, <2>5, <3>1, <3>12 DEF ScanInv, CompleteInv, CoreInv, r
    <3> QED
      BY <1>1, <2>5, <3>1, <3>13 DEF CoreInv, PhaseInv
  <2> QED
    BY <2>6, <2>7
<1> QED
  BY <1>9, <1>10

(* No DRHD has been processed.                                             *)
LEMMA NothingBegun ==
  ASSUME NEW p, NEW d, NEW us, us = <<>>
  PROVE  ArrayForm(p, d, us, 0) /\ CompleteUpTo(p, d, us, 0) /\ Len(us) = 0 /\ CompleteUpTo(p, d, us, -1)
<1>1. us \in Seq({}) /\ Len(us) = 0
  OBVIOUS
<1>2. IsSequence(us)
  BY <1>1, SeqOwn
<1>3. 1..0 = {} /\ 1..(-1) = {}
  OBVIOUS
<1> QED
  BY <1>1, <1>2, <1>3 DEF ArrayForm, CompleteUpTo

(* At the start no DRHD has been processed.                                *)
LEMMA CoreStarts == Init => CoreInv
<1> SUFFICES ASSUME Init PROVE CoreInv
  OBVIOUS
<1>1. /\ pc = "start" /\ at = 1 /\ stack = <<>> /\ units = <<>> /\ vtdIndex = 0 /\ status = "success"
      /\ dmar \in Dmars /\ pci \in Platforms /\ IsSequence(policy)
  BY DmarAssumption DEF Init
<1>2. ArrayForm(pci, dmar, units, 0) /\ CompleteUpTo(pci, dmar, units, 0) /\ Len(units) = 0
  BY <1>1, NothingBegun
<1> QED
  BY <1>1, <1>2 DEF CoreInv, PhaseInv, CompleteInv, ScanInv

(* The table is found or not.                                              *)
LEMMA GetDmarAcpiTableStep == CoreInv /\ GetDmarAcpiTable => CoreInv'
<1> SUFFICES ASSUME CoreInv, GetDmarAcpiTable PROVE CoreInv'
  OBVIOUS
<1>1. pc = "start" /\ pc' \in {"parse", "policy"} /\ UNCHANGED <<pci, dmar, policy, at, scope, stack, units, vtdIndex, status>>
  BY DEF GetDmarAcpiTable
<1>2. at = 1 /\ vtdIndex = 0 /\ units = <<>> /\ status = "success" /\ stack = <<>>
  BY <1>1 DEF CoreInv, PhaseInv, ScanInv
<1>3. ArrayForm(pci, dmar, units, 0) /\ CompleteUpTo(pci, dmar, units, 0) /\ Len(units) = 0
  BY <1>2, NothingBegun
<1> QED
  BY <1>1, <1>2, <1>3 DEF CoreInv, PhaseInv, CompleteInv, ScanInv

(* The array as it is allocated.                                           *)
LEMMA ParseDmarAcpiTableDrhdStep == CoreInv /\ ParseDmarAcpiTableDrhd => CoreInv'
<1> SUFFICES ASSUME CoreInv, ParseDmarAcpiTableDrhd PROVE CoreInv'
  OBVIOUS
<1>1. /\ pc = "parse" /\ UNCHANGED <<pci, dmar, policy, at, scope, stack, vtdIndex, status>>
      /\ \/ units' = [i \in 1..GetVtdEngineNumber(dmar) |-> ZeroUnit] /\ pc' = "drhd"
         \/ units' = units /\ pc' = "pool_failed"
  BY DEF ParseDmarAcpiTableDrhd, Tables
<1>2. /\ at = 1 /\ vtdIndex = 0 /\ units = <<>> /\ status = "success" /\ stack = <<>>
      /\ pci \in Platforms /\ dmar \in Dmars /\ IsSequence(policy)
  BY <1>1 DEF CoreInv, PhaseInv, ScanInv
<1>3. CASE units' = units /\ pc' = "pool_failed"
  <2>1. ArrayForm(pci, dmar, units, 0) /\ CompleteUpTo(pci, dmar, units, 0) /\ Len(units) = 0
    BY <1>2, NothingBegun
  <2> QED
    BY <1>1, <1>2, <1>3, <2>1 DEF CoreInv, PhaseInv, CompleteInv, ScanInv
<1>4. CASE units' = [i \in 1..GetVtdEngineNumber(dmar) |-> ZeroUnit] /\ pc' = "drhd"
  <2> DEFINE m == GetVtdEngineNumber(dmar)
  <2>1. m \in Nat /\ IsSequence(dmar) /\ Len(dmar) \in Nat
    BY <1>2, DrhdFacts
  <2>2. units' = [i \in 1..m |-> units'[i]] /\ \A i \in 1..m : units'[i] = ZeroUnit
    BY <1>4
  <2> HIDE DEF m
  <2>3. IsSequence(units') /\ Len(units') = m
    BY <2>1, <2>2, SeqFunction
  <2>4. UnitForm(ZeroUnit) /\ Has(ZeroUnit) = {} /\ ZeroUnit.data = <<>>
    <3> DEFINE u == ZeroUnit
               none == <<>>
    <3>1. u = [base |-> 0, seg |-> 0, all |-> FALSE, max |-> 0, data |-> none]
      BY DEF ZeroUnit
    <3>2. none \in Seq({}) /\ Len(none) = 0
      OBVIOUS
    <3>3. IsSequence(none)
      BY <3>2, SeqOwn
    <3> HIDE DEF u, none
    <3>4. u.max = 0 /\ u.data = none /\ u = [base |-> u.base, seg |-> u.seg, all |-> u.all, max |-> u.max, data |-> u.data]
      BY <3>1
    <3>5. 1..0 = {}
      OBVIOUS
    <3>6. UnitForm(u) /\ Has(u) = {}
      BY <3>2, <3>3, <3>4, <3>5 DEF UnitForm, Has
    <3> QED
      BY <3>4, <3>6 DEF u, none
  <2>5. ArrayForm(pci, dmar, units', 0)
    BY <2>1, <2>2, <2>3, <2>4 DEF ArrayForm
  <2>6. CompleteUpTo(pci, dmar, units', 0)
    BY DEF CompleteUpTo
  <2>7. Len(OfTypes(dmar, {"DRHD"}, at - 1)) = 0
    <3>1. OfTypes(dmar, {"DRHD"}, 0) = <<>> /\ at - 1 = 0
      BY <1>2, <2>1, OfTypesIs
    <3> QED
      BY <3>1
  <2> QED
    BY <1>1, <1>2, <1>4, <2>1, <2>3, <2>5, <2>6, <2>7 DEF CoreInv, PhaseInv, CompleteInv, ScanInv, m
<1> QED
  BY <1>1, <1>3, <1>4

(* A structure that is not a DRHD, and the end of the table.               *)
LEMMA NextDrhdStep == CoreInv /\ NextDrhd => CoreInv'
<1> SUFFICES ASSUME CoreInv, NextDrhd PROVE CoreInv'
  OBVIOUS
<1>1. /\ pc = "drhd" /\ UNCHANGED <<pci, dmar, policy, scope, stack, units, vtdIndex, status>>
      /\ \/ at > Len(dmar) /\ at' = 1 /\ pc' = "rmrr"
         \/ at <= Len(dmar) /\ dmar[at].type # "DRHD" /\ at' = at + 1 /\ pc' = "drhd"
  <2>1. pc = "drhd" /\ dmar \in Dmars /\ at \in Nat
    BY DEF CoreInv, PhaseInv, NextDrhd
  <2>2. Len(dmar) \in Nat
    BY <2>1, DrhdFacts
  <2> QED
    BY <2>1, <2>2 DEF NextDrhd, Tables, Structure
<1>2. /\ status = "success" /\ stack = <<>> /\ pci \in Platforms /\ dmar \in Dmars /\ IsSequence(policy)
      /\ Len(units) = GetVtdEngineNumber(dmar) /\ at \in Nat \ {0} /\ at <= Len(dmar) + 1
      /\ vtdIndex = Len(OfTypes(dmar, {"DRHD"}, at - 1)) /\ vtdIndex \in Nat
  BY <1>1 DEF CoreInv, PhaseInv, ScanInv
<1>3. Len(dmar) \in Nat /\ GetVtdEngineNumber(dmar) \in Nat
  BY <1>2, DrhdFacts
<1>4. CompleteUpTo(pci, dmar, units, vtdIndex) /\ ArrayForm(pci, dmar, units, vtdIndex)
  BY <1>1, <1>2 DEF CoreInv, CompleteInv
<1>5. CASE at > Len(dmar) /\ at' = 1 /\ pc' = "rmrr"
  <2>1. at - 1 = Len(dmar)
    BY <1>2, <1>3, <1>5
  <2>2. vtdIndex = Len(units)
    BY <1>2, <2>1 DEF GetVtdEngineNumber, Drhds
  <2> QED
    BY <1>1, <1>2, <1>3, <1>4, <1>5, <2>2 DEF CoreInv, PhaseInv, CompleteInv, ScanInv
<1>6. CASE at <= Len(dmar) /\ dmar[at].type # "DRHD" /\ at' = at + 1 /\ pc' = "drhd"
  <2>1. at \in 1..Len(dmar) /\ at' - 1 = at /\ at' <= Len(dmar) + 1 /\ at' \in Nat \ {0}
    BY <1>2, <1>3, <1>6
  <2>2. vtdIndex = Len(OfTypes(dmar, {"DRHD"}, at' - 1))
    BY <1>2, <1>6, <2>1, DrhdCounted
  <2> QED
    BY <1>1, <1>2, <1>4, <1>6, <2>1, <2>2 DEF CoreInv, PhaseInv, CompleteInv, ScanInv
<1> QED
  BY <1>1, <1>5, <1>6

(* The steps after the registration leave the units alone.                 *)
LEMMA AfterStep ==
  ASSUME CoreInv, pc \in {"rmrr", "policy", "done", "pool_failed"}, pc' = pc \/ (pc # "pool_failed" /\ pc' \in {"rmrr", "policy", "done"}),
         UNCHANGED <<pci, dmar, units, vtdIndex, status, stack>>, at' \in Nat \ {0}, IsSequence(policy) => IsSequence(policy)',
         pc = "pool_failed" => at' = at
  PROVE  CoreInv'
BY DEF CoreInv, PhaseInv, CompleteInv, ScanInv

(* What units have completed, other units do not undo.                     *)
LEMMA CompleteSame ==
  ASSUME NEW p, NEW d, NEW us, NEW vs, NEW n \in Nat, \A j \in 1..n : vs[j] = us[j], CompleteUpTo(p, d, us, n)
  PROVE  CompleteUpTo(p, d, vs, n) /\ \A i \in 1..(n + 1) : EarlierHave(vs, i) = EarlierHave(us, i)
<1>1. ASSUME NEW i \in 1..(n + 1) PROVE EarlierHave(vs, i) = EarlierHave(us, i)
  <2>1. \A j \in 1..(i - 1) : vs[j] = us[j]
    OBVIOUS
  <2> QED
    BY <2>1 DEF EarlierHave
<1>2. ASSUME NEW i \in 1..n PROVE CompleteUnit(p, Drhds(d)[i], vs, i)
  <2>1. vs[i] = us[i] /\ EarlierHave(vs, i) = EarlierHave(us, i) /\ CompleteUnit(p, Drhds(d)[i], us, i)
    BY <1>1 DEF CompleteUpTo
  <2> QED
    BY <2>1 DEF CompleteUnit
<1> QED
  BY <1>1, <1>2 DEF CompleteUpTo

(* The next unit is begun: it has nothing.                                 *)
LEMMA UnitBegun ==
  ASSUME NEW p, NEW d \in Dmars, NEW us, NEW v \in Nat, ArrayForm(p, d, us, v), CompleteUpTo(p, d, us, v),
         NEW n, n = v + 1, n \in 1..Len(us),
         NEW vs, IsSequence(vs), Len(vs) = Len(us), \A i \in 1..Len(us) : i # n => vs[i] = us[i],
         UnitForm(vs[n]), vs[n].data = <<>>, vs[n].seg = Drhds(d)[n].seg, vs[n].all = Drhds(d)[n].all
  PROVE  /\ ArrayForm(p, d, vs, n) /\ CompleteUpTo(p, d, vs, v)
         /\ Has(vs[n]) = {}
<1>1. /\ IsSequence(us) /\ Len(us) \in Nat /\ DOMAIN us = 1..Len(us)
      /\ \A i \in 1..Len(us) : UnitForm(us[i])
      /\ \A i \in 1..Len(us) : i <= v => UnitOf(p, Drhds(d)[i], us[i])
      /\ \A i \in 1..Len(us) : i > v => us[i].data = <<>>
      /\ \A i, j \in 1..Len(us) : i # j => Has(us[i]) \cap Has(us[j]) = {}
  BY SeqIs DEF ArrayForm
<1>2. \A i \in 1..Len(us) : i # n => vs[i] = us[i]
  OBVIOUS
<1>3. IsSequence(vs) /\ Len(vs) = Len(us)
  OBVIOUS
<1>4. Has(vs[n]) = {}
  <2>1. Len(vs[n].data) = 0 /\ 1..0 = {}
    OBVIOUS
  <2> QED
    BY <2>1 DEF Has
<1>5. \A i \in 1..Len(us) : UnitForm(vs[i])
  BY <1>1, <1>2
<1>6. ASSUME NEW i \in 1..Len(us), NEW j \in 1..Len(us), i # j PROVE Has(vs[i]) \cap Has(vs[j]) = {}
  <2>1. CASE i = n \/ j = n
    BY <1>2, <1>4, <2>1
  <2>2. CASE i # n /\ j # n
    <3>1. vs[i] = us[i] /\ vs[j] = us[j] /\ Has(us[i]) \cap Has(us[j]) = {}
      BY <1>1, <1>2, <1>6, <2>2
    <3> QED
      BY <3>1
  <2> QED
    BY <2>1, <2>2
<1>7. UnitOf(p, Drhds(d)[n], vs[n])
  BY <1>4 DEF UnitOf
<1>8. ASSUME NEW i \in 1..Len(us) PROVE (i <= n => UnitOf(p, Drhds(d)[i], vs[i])) /\ (i > n => vs[i].data = <<>>)
  <2>1. CASE i = n
    BY <1>2, <1>7, <2>1
  <2>2. CASE i # n
    <3>1. vs[i] = us[i] /\ (i <= n => i <= v) /\ (i > n => i > v)
      BY <1>2, <2>2
    <3> QED
      BY <1>1, <3>1
  <2> QED
    BY <2>1, <2>2
<1>9. ArrayForm(p, d, vs, n)
  <2>1. n \in Nat
    OBVIOUS
  <2> QED
    BY <2>1, <1>3, <1>5, <1>6, <1>8 DEF ArrayForm
<1>10. CompleteUpTo(p, d, vs, v)
  <2>1. \A j \in 1..v : vs[j] = us[j]
    <3>1. \A j \in 1..v : j \in 1..Len(us) /\ j # n
      BY <1>1
    <3> QED
      BY <1>2, <3>1
  <2> QED
    BY <2>1, CompleteSame
<1> QED
  BY <1>2, <1>3, <1>4, <1>9, <1>10

(* The scan of a DRHD begins.                                              *)
LEMMA ProcessDhrdStep == CoreInv /\ ProcessDhrd => CoreInv'
<1> SUFFICES ASSUME CoreInv, ProcessDhrd PROVE CoreInv'
  OBVIOUS
<1> DEFINE d == dmar[at]
           v == vtdIndex
           w == [units[v + 1] EXCEPT !.base = d.base, !.seg = d.seg, !.all = d.all]
<1>1. /\ pc = "drhd" /\ at <= Len(dmar) /\ d.type = "DRHD" /\ vtdIndex' = v + 1
      /\ units' = [units EXCEPT ![v + 1] = w]
      /\ stack' = IF d.all THEN <<Frame(0)>> ELSE <<>>
      /\ scope' = 1 /\ pc' = "scan" /\ UNCHANGED <<pci, dmar, policy, at, status>>
  BY DEF ProcessDhrd, Structure, Tables
<1>2. /\ status = "success" /\ pci \in Platforms /\ dmar \in Dmars /\ IsSequence(policy)
      /\ Len(units) = GetVtdEngineNumber(dmar) /\ at \in Nat \ {0}
      /\ v = Len(OfTypes(dmar, {"DRHD"}, at - 1)) /\ v \in Nat
      /\ CompleteUpTo(pci, dmar, units, v) /\ ArrayForm(pci, dmar, units, v)
  BY <1>1 DEF CoreInv, PhaseInv, CompleteInv
<1>3. Len(dmar) \in Nat /\ GetVtdEngineNumber(dmar) \in Nat
  BY <1>2, DrhdFacts
<1>4. at \in 1..Len(dmar)
  BY <1>1, <1>2, <1>3
<1>5. v + 1 = Len(OfTypes(dmar, {"DRHD"}, at)) /\ v + 1 \in 1..Len(units) /\ Drhds(dmar)[v + 1] = d
  <2>1. /\ Len(OfTypes(dmar, {"DRHD"}, at)) = Len(OfTypes(dmar, {"DRHD"}, at - 1)) + 1
        /\ Len(OfTypes(dmar, {"DRHD"}, at)) \in 1..GetVtdEngineNumber(dmar)
        /\ Drhds(dmar)[Len(OfTypes(dmar, {"DRHD"}, at))] = dmar[at]
    BY <1>1, <1>2, <1>4, DrhdCounted
  <2> QED
    BY <1>2, <2>1
<1>6. d.all \in BOOLEAN /\ IsSequence(d.scopes) /\ Len(d.scopes) \in Nat
  BY <1>2, <1>5, DrhdFacts
<1>7. UnitForm(units[v + 1]) /\ units[v + 1].data = <<>>
  <2>1. v + 1 > v
    BY <1>2
  <2> QED
    BY <1>5, <2>1, <1>2 DEF ArrayForm
<1>8. UnitForm(w) /\ w.data = <<>> /\ w.seg = d.seg /\ w.all = d.all
  <2> DEFINE u == units[v + 1]
  <2>1. u = [base |-> u.base, seg |-> u.seg, all |-> u.all, max |-> u.max, data |-> u.data] /\ UnitForm(u) /\ u.data = <<>>
    BY <1>7 DEF UnitForm
  <2>2. w = [u EXCEPT !.base = d.base, !.seg = d.seg, !.all = d.all]
    OBVIOUS
  <2> HIDE DEF u, w, d
  <2>3. w = [base |-> d.base, seg |-> d.seg, all |-> d.all, max |-> u.max, data |-> u.data]
    BY <2>1, <2>2
  <2>4. w.base = d.base /\ w.seg = d.seg /\ w.all = d.all /\ w.max = u.max /\ w.data = u.data
    BY <2>3
  <2>5. UnitForm(w)
    BY <2>1, <2>3, <2>4 DEF UnitForm
  <2> QED
    BY <2>1, <2>4, <2>5
<1>9. /\ ArrayForm(pci, dmar, units', v + 1) /\ Len(units') = Len(units) /\ CompleteUpTo(pci, dmar, units', v)
      /\ Has(units'[v + 1]) = {}
  <2> DEFINE vs == units'
  <2>1. vs = [units EXCEPT ![v + 1] = w]
    BY <1>1
  <2>3. IsSequence(vs) /\ Len(vs) = Len(units) /\ vs[v + 1] = w /\ \A i \in 1..Len(units) : i # v + 1 => vs[i] = units[i]
    <3>1. DOMAIN units = 1..Len(units) /\ Len(units) \in Nat
      BY <1>2, SeqIs DEF ArrayForm
    <3> HIDE DEF vs, w, v
    <3>2. vs = [i \in 1..Len(units) |-> vs[i]] /\ vs[v + 1] = w /\ \A i \in 1..Len(units) : i # v + 1 => vs[i] = units[i]
      BY <1>5, <2>1, <3>1
    <3>3. IsSequence(vs) /\ Len(vs) = Len(units)
      BY <3>1, <3>2, SeqFunction
    <3> QED
      BY <3>2, <3>3
  <2>4. w.seg = Drhds(dmar)[v + 1].seg /\ w.all = Drhds(dmar)[v + 1].all
    BY <1>5, <1>8
  <2> HIDE DEF vs, w, d, v
  <2>2. /\ ArrayForm(pci, dmar, vs, v + 1) /\ Len(vs) = Len(units) /\ CompleteUpTo(pci, dmar, vs, v)
        /\ Has(vs[v + 1]) = {}
    <3>1. dmar \in Dmars /\ v \in Nat /\ ArrayForm(pci, dmar, units, v) /\ v + 1 \in 1..Len(units) /\ CompleteUpTo(pci, dmar, units, v)
      BY <1>2, <1>5
    <3>2. UnitForm(w) /\ w.data = <<>>
      BY <1>8
    <3> DEFINE n == v + 1
    <3>3. n = v + 1 /\ n \in 1..Len(units) /\ vs[n] = w /\ \A i \in 1..Len(units) : i # n => vs[i] = units[i]
      BY <3>1, <2>3
    <3>4. UnitForm(vs[n]) /\ vs[n].data = <<>> /\ vs[n].seg = Drhds(dmar)[n].seg /\ vs[n].all = Drhds(dmar)[n].all
      BY <3>2, <3>3, <2>4
    <3> HIDE DEF n
    <3>5. ArrayForm(pci, dmar, vs, n) /\ CompleteUpTo(pci, dmar, vs, v) /\ Has(vs[n]) = {}
      BY <3>1, <3>3, <3>4, <2>3, UnitBegun
    <3> QED
      BY <2>3, <3>5 DEF n
  <2> QED
    BY <2>2 DEF vs
<1> HIDE DEF w
<1>10. ReachedBy(pci, d, 0) = IF d.all THEN Behind(pci, d.seg, 0) ELSE {}
  <2>1. 1..0 = {}
    OBVIOUS
  <2> QED
    BY <2>1 DEF ReachedBy
<1>11. ScanForm(pci, d, units', v + 1, 0, stack')
  <2> DEFINE st == stack'
             f == Frame(0)
  <2>1. FrameIs(pci, d.seg, f) /\ f.bus = 0 /\ Behind(pci, d.seg, 0) \subseteq Pending(pci, d.seg, f)
    BY <1>2, PendingEnds
  <2>2. CASE d.all
    <3>1. st = <<f>>
      BY <1>1, <2>2
    <3> HIDE DEF f
    <3>2. st \in Seq({f}) /\ Len(st) = 1 /\ st[1] = f /\ 1..1 = {1}
      BY <3>1
    <3> HIDE DEF st, d
    <3>3. IsSequence(st)
      BY <3>2, SeqOwn
    <3>4. FrameForm(pci, d, 0, f)
      BY <1>10, <2>1, <2>2 DEF FrameForm
    <3>5. UNION {Pending(pci, d.seg, st[k]) : k \in 1..Len(st)} = Pending(pci, d.seg, f)
      BY <3>2
    <3>6. \A k \in 1..Len(st) : FrameForm(pci, d, 0, st[k])
      BY <3>2, <3>4
    <3>7. ReachedBy(pci, d, 0) \subseteq Pending(pci, d.seg, f)
      BY <1>10, <2>1, <2>2
    <3>8. ScanForm(pci, d, units', v + 1, 0, st)
      BY <1>9, <3>3, <3>5, <3>6, <3>7 DEF ScanForm
    <3> QED
      BY <3>8 DEF st, d
  <2>3. CASE ~d.all
    <3>1. st = <<>>
      BY <1>1, <2>3
    <3>2. st \in Seq({}) /\ Len(st) = 0 /\ 1..0 = {}
      BY <3>1
    <3> HIDE DEF st, d
    <3>3. IsSequence(st)
      BY <3>2, SeqOwn
    <3>4. ReachedBy(pci, d, 0) = {}
      BY <1>10, <2>3
    <3>5. \A k \in 1..Len(st) : FrameForm(pci, d, 0, st[k])
      BY <3>2
    <3>6. ScanForm(pci, d, units', v + 1, 0, st)
      BY <1>9, <3>3, <3>4, <3>5 DEF ScanForm
    <3> QED
      BY <3>6 DEF st, d
  <2> QED
    BY <2>2, <2>3
<1>12. ScanInv'
  <2>1. scope' = 1 /\ scope' - 1 = 0 /\ 1 \in 1..(Len(d.scopes) + 1) /\ (dmar[at])' = d
    BY <1>1, <1>6
  <2> HIDE DEF d
  <2>2. ScanForm(pci', dmar'[at'], units', vtdIndex', scope' - 1, stack') /\ scope' \in 1..(Len(dmar'[at'].scopes) + 1)
    BY <1>1, <1>11, <2>1 DEF d
  <2> QED
    BY <1>1, <2>2 DEF ScanInv
<1>13. PhaseInv'
  BY <1>1, <1>2, <1>5, <1>9 DEF PhaseInv
<1>14. CompleteInv'
  <2>1. (v + 1) - 1 = v
    BY <1>2
  <2> QED
    BY <1>1, <1>9, <2>1 DEF CompleteInv
<1> QED
  BY <1>1, <1>9, <1>12, <1>13, <1>14 DEF CoreInv

(* The scan of a DRHD ends: its unit is complete.                          *)
LEMMA UnitEnds ==
  ASSUME NEW p, NEW d \in Dmars, NEW us, NEW v, ArrayForm(p, d, us, v), v \in 1..Len(us), IsFiniteSet(DOMAIN p),
         Drhds(d)[v].all \in BOOLEAN, Len(Drhds(d)[v].scopes) \in Nat,
         NEW st, st = <<>>, NEW n, n = Len(Drhds(d)[v].scopes), ScanForm(p, Drhds(d)[v], us, v, n, st),
         CompleteUpTo(p, d, us, v - 1)
  PROVE  CompleteUpTo(p, d, us, v)
<1> DEFINE D == Drhds(d)[v]
           N == Named(p, D)
           B == Behind(p, D.seg, 0)
           T == Target(p, D)
           H == Has(us[v])
           E == EarlierHave(us, v)
<1>1. D.all \in BOOLEAN /\ T = N \cup (IF D.all THEN B ELSE {})
  BY DEF Target
<1>2. B \subseteq DOMAIN p
  BY BehindOn
<1>3. /\ v \in Nat /\ Len(us) \in Nat /\ UnitOf(p, D, us[v])
      /\ \A i, j \in 1..Len(us) : i # j => Has(us[i]) \cap Has(us[j]) = {}
  <2>1. v <= v
    BY DEF ArrayForm
  <2> QED
    BY <2>1, SeqIs DEF ArrayForm
<1>4. H \subseteq T
  BY <1>3 DEF UnitOf
<1>5. H \cap E = {}
  <2>1. \A j \in 1..(v - 1) : j \in 1..Len(us) /\ j # v
    BY <1>3
  <2>2. \A j \in 1..(v - 1) : Has(us[v]) \cap Has(us[j]) = {}
    BY <1>3, <2>1
  <2> QED
    BY <2>2 DEF EarlierHave
<1>6. ReachedBy(p, D, n) = T
  <2>1. Len(D.scopes) \in 0..Len(D.scopes)
    OBVIOUS
  <2> HIDE DEF D
  <2>2. ReachedBy(p, D, Len(D.scopes)) = Target(p, D)
    BY <2>1, ReachedIs DEF D
  <2> QED
    BY <2>2 DEF D
<1>7. T \cap DOMAIN p \subseteq H \cup (IF D.all THEN E ELSE {})
  <2>1. Len(st) = 0 /\ 1..0 = {}
    OBVIOUS
  <2>2. UNION {Pending(p, D.seg, st[k]) : k \in 1..Len(st)} = {}
    BY <2>1
  <2>3. ReachedBy(p, D, n) \cap DOMAIN p \subseteq
          H \cup (IF D.all THEN E ELSE {}) \cup UNION {Pending(p, D.seg, st[k]) : k \in 1..Len(st)}
    BY DEF ScanForm
  <2> HIDE DEF T, H, E, D
  <2> QED
    BY <1>6, <2>2, <2>3
<1>8. H \cap DOMAIN p = IF D.all THEN (B \cup (N \cap DOMAIN p)) \ E ELSE N \cap DOMAIN p
  <2> HIDE DEF T, H, E, D, N, B
  <2>1. CASE D.all
    BY <1>1, <1>2, <1>4, <1>5, <1>7, <2>1
  <2>2. CASE ~D.all
    BY <1>1, <1>4, <1>7, <2>2
  <2> QED
    BY <2>1, <2>2
<1>9. CompleteUnit(p, D, us, v)
  BY <1>8 DEF CompleteUnit
<1>10. \A i \in 1..v : i \in 1..(v - 1) \/ i = v
  BY <1>3
<1> HIDE DEF D
<1> QED
  BY <1>9, <1>10 DEF CompleteUpTo, D

(* ProcessDhrd returns.                                                    *)
LEMMA ProcessDhrdEndStep == CoreInv /\ ProcessDhrdEnd => CoreInv'
<1> SUFFICES ASSUME CoreInv, ProcessDhrdEnd PROVE CoreInv'
  OBVIOUS
<1> DEFINE d == dmar[at]
           v == vtdIndex
           n == scope - 1
<1>1. /\ pc = "scan" /\ stack = <<>> /\ scope > Len(d.scopes) /\ at' = at + 1 /\ pc' = "drhd"
      /\ UNCHANGED <<pci, dmar, policy, scope, stack, units, vtdIndex, status>>
  BY DEF ProcessDhrdEnd, Scopes, Structure, Tables
<1>2. /\ pci \in Platforms /\ dmar \in Dmars /\ IsSequence(policy) /\ status = "success"
      /\ at \in 1..Len(dmar) /\ Len(units) = GetVtdEngineNumber(dmar) /\ v \in 1..Len(units)
      /\ Drhds(dmar)[v] = d /\ d.all \in BOOLEAN /\ Len(d.scopes) \in Nat /\ n \in 0..Len(d.scopes)
      /\ ScanForm(pci, d, units, v, n, stack) /\ CompleteUpTo(pci, dmar, units, v - 1)
      /\ ArrayForm(pci, dmar, units, v) /\ v = Len(OfTypes(dmar, {"DRHD"}, at))
  BY <1>1, ScanFacts DEF CoreInv, PhaseInv
<1>3. n = Len(d.scopes)
  <2>1. scope \in Int
    BY <1>1, <1>2 DEF CoreInv, ScanInv
  <2> HIDE DEF d
  <2> QED
    BY <1>1, <1>2, <2>1
<1>4. IsFiniteSet(DOMAIN pci) /\ Len(dmar) \in Nat /\ v \in Nat
  BY <1>2, PlatformFacts, DrhdFacts DEF ArrayForm
<1>5. CompleteUpTo(pci, dmar, units, v)
  <2> DEFINE D == Drhds(dmar)[v]
  <2>1. D.all \in BOOLEAN /\ Len(D.scopes) \in Nat /\ n = Len(D.scopes) /\ ScanForm(pci, D, units, v, n, stack)
    BY <1>2, <1>3
  <2> HIDE DEF n, v, d
  <2> QED
    BY <1>1, <1>2, <1>4, <2>1, UnitEnds
<1>6. at' - 1 = at /\ at' <= Len(dmar) + 1 /\ at' \in Nat \ {0}
  BY <1>1, <1>2, <1>4
<1> QED
  BY <1>1, <1>2, <1>4, <1>5, <1>6 DEF CoreInv, PhaseInv, CompleteInv, ScanInv

(* A scope that is not PCI, and that memory has run out for, has been met. *)
LEMMA ScopeMet ==
  ASSUME NEW p \in Platforms, NEW d \in Dmars, NEW i \in 1..GetVtdEngineNumber(d), NEW k \in 1..Len(Drhds(d)[i].scopes),
         PoolMayFail, ~PciType(Drhds(d)[i].scopes[k].type),
         ScopeLocation(p, Drhds(d)[i].seg, Drhds(d)[i].scopes[k]) \in DOMAIN p
  PROVE  Drhds(d)[i].all /\ ScopeLocation(p, Drhds(d)[i].seg, Drhds(d)[i].scopes[k]) \in Behind(p, Drhds(d)[i].seg, 0)
<1>1. i \in 1..Len(Drhds(d)) /\ ScopesForm(p, d)
  BY DmarAssumption DEF GetVtdEngineNumber
<1> QED
  BY <1>1 DEF ScopesForm, Present

(* Sequences of one element and of none.                                   *)
LEMMA ShortSeqs ==
  /\ IsSequence(<<>>) /\ Len(<<>>) = 0
  /\ \A e, s : s = <<e>> => IsSequence(s) /\ Len(s) = 1 /\ s[1] = e
<1>1. IsSequence(<<>>) /\ Len(<<>>) = 0
  <2>1. <<>> \in Seq({})
    OBVIOUS
  <2> QED
    BY <2>1, SeqOwn
<1>2. ASSUME NEW e, NEW s, s = <<e>> PROVE IsSequence(s) /\ Len(s) = 1 /\ s[1] = e
  <2>1. s \in Seq({e}) /\ Len(s) = 1 /\ s[1] = e
    BY <1>2
  <2> QED
    BY <2>1, SeqOwn
<1> QED
  BY <1>1, <1>2

(* A device scope: what it names is registered, and what is behind a       *)
(* bridge is to be met.                                                    *)
LEMMA ScopeBegun ==
  ASSUME NEW p \in Platforms, NEW d, NEW us, NEW v, NEW n \in Nat, NEW st, st = <<>>, ScanForm(p, d, us, v, n, st),
         NEW vs, Has(us[v]) \subseteq Has(vs[v]), EarlierHave(vs, v) = EarlierHave(us, v),
         NEW loc, Has(vs[v]) \subseteq Has(us[v]) \cup {loc},
         loc \in DOMAIN p => loc \in Has(vs[v]) \cup (IF d.all THEN EarlierHave(us, v) ELSE {}),
         NEW bridge \in BOOLEAN, NEW number, NEW r, r = IF bridge THEN <<Frame(number)>> ELSE <<>>, NEW m,
         ReachedBy(p, d, m) = ReachedBy(p, d, n) \cup ({loc} \cup (IF bridge THEN Behind(p, d.seg, number) ELSE {}))
  PROVE  ScanForm(p, d, vs, v, m, r)
<1> DEFINE E == IF d.all THEN EarlierHave(us, v) ELSE {}
           f == Frame(number)
           R == ReachedBy(p, d, n)
           S == ReachedBy(p, d, m)
           B == IF bridge THEN Behind(p, d.seg, number) ELSE {}
           U == UNION {Pending(p, d.seg, r[k]) : k \in 1..Len(r)}
<1>1. R \cap DOMAIN p \subseteq Has(us[v]) \cup E /\ Has(us[v]) \subseteq R
  <2>1. Len(st) = 0 /\ 1..0 = {}
    OBVIOUS
  <2>2. UNION {Pending(p, d.seg, st[k]) : k \in 1..Len(st)} = {}
    BY <2>1
  <2>3. R \cap DOMAIN p \subseteq Has(us[v]) \cup E \cup UNION {Pending(p, d.seg, st[k]) : k \in 1..Len(st)}
    BY DEF ScanForm
  <2>4. Has(us[v]) \subseteq R
    BY DEF ScanForm
  <2> HIDE DEF R, E
  <2> QED
    BY <2>2, <2>3, <2>4
<1>2. FrameIs(p, d.seg, f) /\ f.bus = number /\ Behind(p, d.seg, number) \subseteq Pending(p, d.seg, f)
  BY PendingEnds
<1>3. IsSequence(r) /\ B \subseteq U /\ \A k \in 1..Len(r) : bridge /\ r[k] = f
  <2>1. CASE bridge
    <3>1. r = <<f>>
      BY <2>1
    <3> HIDE DEF f
    <3>2. IsSequence(r) /\ Len(r) = 1 /\ r[1] = f
      BY ONLY <3>1, ShortSeqs
    <3>3. 1..Len(r) = {1}
      BY <3>2
    <3>4. U = Pending(p, d.seg, f)
      BY <3>2, <3>3
    <3> HIDE DEF U
    <3>5. \A k \in 1..Len(r) : r[k] = f
      BY <3>2, <3>3
    <3> QED
      BY <1>2, <2>1, <3>2, <3>4, <3>5
  <2>2. CASE ~bridge
    <3>1. r = <<>>
      BY <2>2
    <3>2. IsSequence(r) /\ Len(r) = 0
      BY ONLY <3>1, ShortSeqs
    <3>3. B = {}
      BY <2>2
    <3> HIDE DEF U, B
    <3>4. 1..Len(r) = {}
      BY <3>2
    <3> QED
      BY <3>2, <3>3, <3>4
  <2> QED
    BY <2>1, <2>2
<1>4. S = R \cup ({loc} \cup B)
  OBVIOUS
<1>5. ASSUME NEW k \in 1..Len(r) PROVE FrameForm(p, d, m, r[k])
  <2>1. bridge /\ r[k] = f
    BY <1>3
  <2>2. Behind(p, d.seg, number) \subseteq S
    BY <1>4, <2>1
  <2> HIDE DEF f
  <2> QED
    BY <1>2, <2>1, <2>2 DEF FrameForm
<1>6. S \cap DOMAIN p \subseteq Has(vs[v]) \cup E \cup U
  <2>1. loc \in DOMAIN p => loc \in Has(vs[v]) \cup E
    OBVIOUS
  <2>2. Has(us[v]) \subseteq Has(vs[v])
    OBVIOUS
  <2> HIDE DEF R, S, U, B, E
  <2> QED
    BY <1>1, <1>3, <1>4, <2>1, <2>2
<1>7. Has(vs[v]) \subseteq S
  <2>1. Has(vs[v]) \subseteq Has(us[v]) \cup {loc}
    OBVIOUS
  <2> HIDE DEF R, S, B
  <2> QED
    BY <1>1, <1>4, <2>1
<1>8. E = IF d.all THEN EarlierHave(vs, v) ELSE {}
  OBVIOUS
<1> HIDE DEF E
<1> QED
  BY <1>3, <1>5, <1>6, <1>7, <1>8 DEF ScanForm

(* What GetPciBusDeviceFunction returns is a bus, a device and a function.  *)
LEMMA SourceForm ==
  ASSUME NEW p, NEW seg, NEW s, NEW g, g = GetPciBusDeviceFunction(p, seg, s)
  PROVE  g = <<g[1], g[2], g[3]>>
<1> DEFINE BusOf[k \in 1..Len(s.path)] ==
        IF k = 1 THEN s.bus
        ELSE Secondary(p, <<seg, BusOf[k - 1], s.path[k - 1][1], s.path[k - 1][2]>>)
           last == IF PciType(s.type) THEN Len(s.path) ELSE 1
           a == BusOf[last]
           b == s.path[last][1]
           c == s.path[last][2]
<1>1. GetPciBusDeviceFunction(p, seg, s) = <<a, b, c>>
  BY Zenon DEF GetPciBusDeviceFunction
<1> HIDE DEF a, b, c
<1>2. g = <<a, b, c>>
  BY <1>1
<1> QED
  BY <1>2

(* One device scope of a DRHD.                                             *)
LEMMA DeviceScopeStep == CoreInv /\ DeviceScope => CoreInv'
<1> SUFFICES ASSUME CoreInv, DeviceScope PROVE CoreInv'
  OBVIOUS
<1> DEFINE d == dmar[at]
           v == vtdIndex
           n == scope - 1
           s == d.scopes[scope]
           g == GetPciBusDeviceFunction(pci, d.seg, s)
           loc == <<d.seg, g[1], g[2], g[3]>>
           bridge == s.type = Bridge
           number == Secondary(pci, loc)
<1>1. g = <<g[1], g[2], g[3]>> /\ ScopeLocation(pci, d.seg, s) = loc /\ PciLocation(d.seg, g) = loc
  <2>1. g = <<g[1], g[2], g[3]>>
    <3>1. g = GetPciBusDeviceFunction(pci, d.seg, s)
      OBVIOUS
    <3> HIDE DEF g
    <3> QED
      BY ONLY <3>1, SourceForm
  <2>2. ScopeLocation(pci, d.seg, s) = PciLocation(d.seg, g)
    BY DEF ScopeLocation
  <2>3. PciLocation(d.seg, g) = loc
    BY DEF PciLocation
  <2> QED
    BY <2>1, <2>2, <2>3
<1>2. /\ pc = "scan" /\ stack = <<>> /\ scope <= Len(d.scopes) /\ UNCHANGED <<vtdIndex, pci, dmar, policy>>
      /\ \E st \in {"success", "already_started", "out_of_resources"} :
          /\ RegisterPciDevice(v, d.seg, g, s.type, TRUE, units', st)
          /\ IF st # "success" /\ PciType(s.type) THEN Fail(st)
             ELSE /\ stack' = IF bridge THEN <<Frame(number)>> ELSE <<>>
                  /\ scope' = scope + 1
                  /\ UNCHANGED <<pc, at, status>>
  <2>1. PciLocation(Structure.seg, GetPciBusDeviceFunction(pci, Structure.seg, Scopes[scope])) = loc /\ loc[1] = d.seg
    BY <1>1 DEF Structure, Scopes
  <2> HIDE DEF loc
  <2> QED
    BY <2>1 DEF DeviceScope, Tables, Structure, Scopes
<1>3. /\ pci \in Platforms /\ dmar \in Dmars /\ status = "success"
      /\ at \in 1..Len(dmar) /\ Len(units) = GetVtdEngineNumber(dmar) /\ v \in 1..Len(units)
      /\ Drhds(dmar)[v] = d /\ d.all \in BOOLEAN /\ Len(d.scopes) \in Nat /\ n \in 0..Len(d.scopes)
      /\ ScanForm(pci, d, units, v, n, stack)
  BY <1>2, ScanFacts
<1>4. scope \in 1..Len(d.scopes) /\ n + 1 = scope /\ n \in Nat /\ n < Len(d.scopes)
  <2>1. scope \in 1..(Len(d.scopes) + 1)
    BY <1>2 DEF CoreInv, ScanInv
  <2> HIDE DEF d
  <2> QED
    BY <1>2, <1>3, <2>1
<1>5. Scoped(pci, d.seg, s) = {loc} \cup (IF bridge THEN Behind(pci, d.seg, number) ELSE {})
  <2> HIDE DEF loc
  <2> QED
    BY <1>1 DEF Scoped
<1>6. /\ ReachedBy(pci, d, scope) = ReachedBy(pci, d, n) \cup Scoped(pci, d.seg, s)
      /\ ReachedBy(pci, d, scope) \subseteq Target(pci, d)
  <2>1. /\ ReachedBy(pci, d, n + 1) = ReachedBy(pci, d, n) \cup Scoped(pci, d.seg, d.scopes[n + 1])
        /\ ReachedBy(pci, d, scope) \subseteq Target(pci, d)
    <3>1. scope \in 0..Len(d.scopes)
      BY <1>4
    <3> HIDE DEF d, n
    <3>2. n \in 0..Len(d.scopes) /\ n < Len(d.scopes) /\ Len(d.scopes) \in Nat
      BY <1>3, <1>4
    <3>3. ReachedBy(pci, d, n + 1) = ReachedBy(pci, d, n) \cup Scoped(pci, d.seg, d.scopes[n + 1])
      BY <3>2, ReachedIs
    <3>4. ReachedBy(pci, d, scope) \subseteq Target(pci, d)
      BY <3>1, <3>2, ReachedIs
    <3> QED
      BY <3>3, <3>4
  <2> HIDE DEF d
  <2> QED
    BY <1>4, <2>1
<1>7. loc \in Target(pci, d)
  BY <1>5, <1>6
<1>8. PICK st \in {"success", "already_started", "out_of_resources"} :
          /\ RegisterPciDevice(v, d.seg, g, s.type, TRUE, units', st)
          /\ IF st # "success" /\ PciType(s.type) THEN Fail(st)
             ELSE /\ stack' = IF bridge THEN <<Frame(number)>> ELSE <<>>
                  /\ scope' = scope + 1
                  /\ UNCHANGED <<pc, at, status>>
  BY <1>2
<1>9. /\ ArrayForm(pci, dmar, units', v) /\ Len(units') = Len(units)
      /\ EarlierHave(units', v) = EarlierHave(units, v)
      /\ CompleteUpTo(pci, dmar, units', v - 1)
      /\ st # "success" => units' = units
      /\ st = "out_of_resources" => PoolMayFail
      /\ Has(units[v]) \subseteq Has(units'[v]) /\ Has(units'[v]) \subseteq Has(units[v]) \cup {loc}
      /\ st # "out_of_resources" => loc \in Has(units'[v]) \cup (IF d.all THEN EarlierHave(units, v) ELSE {})
  <2> DEFINE yes == TRUE
             vs == units'
             type == s.type
             a == g[1]
             b == g[2]
             c == g[3]
             seg == d.seg
  <2>1. pc = "scan" /\ v = vtdIndex /\ d = dmar[at] /\ seg = dmar[at].seg /\ loc = <<seg, a, b, c>>
    BY <1>2
  <2>2. RegisterPciDevice(vtdIndex, seg, <<a, b, c>>, type, yes, vs, st)
    <3> HIDE DEF g
    <3> QED
      BY <1>1, <1>8
  <2> HIDE DEF loc, yes, vs, type, a, b, c, v
  <2>3. <<seg, a, b, c>> \in Target(pci, dmar[at])
    BY <1>7, <2>1
  <2> HIDE DEF d, seg
  <2>4. /\ ArrayForm(pci, dmar, vs, v) /\ Len(vs) = Len(units)
        /\ EarlierHave(vs, v) = EarlierHave(units, v)
        /\ CompleteUpTo(pci, dmar, vs, v - 1)
        /\ st # "success" => vs = units
        /\ st = "out_of_resources" => PoolMayFail
        /\ Has(units[v]) \subseteq Has(vs[v]) /\ Has(vs[v]) \subseteq Has(units[v]) \cup {loc}
        /\ st # "out_of_resources" => loc \in Has(vs[v]) \cup (IF d.all THEN EarlierHave(units, v) ELSE {})
    BY <2>1, <2>2, <2>3, ScanRegisters
  <2> QED
    BY <2>4 DEF vs
<1> HIDE DEF g
<1>10. CASE st # "success" /\ PciType(s.type)
  <2>1. Fail(st) /\ st # "success"
    BY <1>8, <1>10
  <2>2. units' = units
    BY <1>9, <2>1
  <2> HIDE DEF s, number, loc, bridge, d
  <2> QED
    BY <1>2, <2>1, <2>2, FailStep
<1>11. CASE ~(st # "success" /\ PciType(s.type))
  <2>1. stack' = (IF bridge THEN <<Frame(number)>> ELSE <<>>) /\ scope' = scope + 1 /\ UNCHANGED <<pc, at, status>>
    BY <1>8, <1>11
  <2>2. ASSUME loc \in DOMAIN pci PROVE loc \in Has(units'[v]) \cup (IF d.all THEN EarlierHave(units, v) ELSE {})
    <3>1. CASE st = "out_of_resources"
      <4>1. PoolMayFail /\ ~PciType(s.type) /\ units' = units
        BY <1>9, <1>11, <3>1
      <4>2. d.all /\ loc \in Behind(pci, d.seg, 0)
        <5> DEFINE D == Drhds(dmar)[v]
        <5>1. D = d
          BY <1>3
        <5>2. v \in 1..GetVtdEngineNumber(dmar) /\ scope \in 1..Len(D.scopes) /\ ~PciType(D.scopes[scope].type)
          BY <1>3, <1>4, <4>1, <5>1
        <5>3. ScopeLocation(pci, D.seg, D.scopes[scope]) = loc
          BY <1>1, <5>1
        <5> HIDE DEF d, v, loc, s
        <5>4. D.all /\ ScopeLocation(pci, D.seg, D.scopes[scope]) \in Behind(pci, D.seg, 0)
          BY <1>3, <2>2, <4>1, <5>2, <5>3, ScopeMet
        <5> QED
          BY <5>1, <5>3, <5>4
      <4>3. loc \in ReachedBy(pci, d, n)
        <5> HIDE DEF loc, d
        <5> QED
          BY <4>2 DEF ReachedBy
      <4>4. ReachedBy(pci, d, n) \cap DOMAIN pci \subseteq Has(units[v]) \cup (IF d.all THEN EarlierHave(units, v) ELSE {})
        <5>1. Len(stack) = 0 /\ 1..0 = {}
          BY <1>2
        <5>2. UNION {Pending(pci, d.seg, stack[k]) : k \in 1..Len(stack)} = {}
          BY <5>1
        <5> DEFINE E == IF d.all THEN EarlierHave(units, v) ELSE {}
        <5>3. ReachedBy(pci, d, n) \cap DOMAIN pci \subseteq Has(units[v]) \cup E \cup UNION {Pending(pci, d.seg, stack[k]) : k \in 1..Len(stack)}
          BY <1>3 DEF ScanForm
        <5> HIDE DEF E, d, v, n
        <5>4. ReachedBy(pci, d, n) \cap DOMAIN pci \subseteq Has(units[v]) \cup E
          BY <5>2, <5>3
        <5> QED
          BY <5>4 DEF E
      <4> HIDE DEF loc, d, v, n
      <4> QED
        BY <2>2, <4>1, <4>3, <4>4
    <3>2. CASE st # "out_of_resources"
      BY <1>9, <3>2
    <3> QED
      BY <3>1, <3>2
  <2>3. ScanForm(pci, d, units', v, scope, stack')
    <3> DEFINE r == stack'
               vs == units'
               m == scope
               st0 == stack
    <3>1. r = (IF bridge THEN <<Frame(number)>> ELSE <<>>) /\ bridge \in BOOLEAN /\ st0 = <<>>
      BY <1>2, <2>1
    <3>2. ReachedBy(pci, d, m) = ReachedBy(pci, d, n) \cup ({loc} \cup (IF bridge THEN Behind(pci, d.seg, number) ELSE {}))
      BY <1>5, <1>6
    <3>3. ScanForm(pci, d, units, v, n, st0) /\ pci \in Platforms /\ n \in Nat
      BY <1>3, <1>4
    <3>4. loc \in DOMAIN pci => loc \in Has(vs[v]) \cup (IF d.all THEN EarlierHave(units, v) ELSE {})
      BY <2>2
    <3>5. /\ EarlierHave(vs, v) = EarlierHave(units, v)
          /\ Has(units[v]) \subseteq Has(vs[v]) /\ Has(vs[v]) \subseteq Has(units[v]) \cup {loc}
      BY <1>9
    <3> HIDE DEF r, vs, m, st0, bridge, number, loc, d, v, n
    <3>6. ScanForm(pci, d, vs, v, m, r)
      BY <3>1, <3>2, <3>3, <3>4, <3>5, ScopeBegun
    <3> QED
      BY <3>6 DEF r, vs, m
  <2>4. ScanInv'
    <3>1. scope' \in 1..(Len(d.scopes) + 1) /\ scope' - 1 = scope
      BY <1>3, <1>4, <2>1
    <3>2. dmar'[at'] = d
      BY <1>2, <2>1
    <3> HIDE DEF d, bridge, number
    <3>3. ScanForm(pci', dmar'[at'], units', vtdIndex', scope' - 1, stack') /\ scope' \in 1..(Len(dmar'[at'].scopes) + 1)
      BY <1>2, <2>3, <3>1, <3>2
    <3> QED
      BY <1>2, <2>1, <3>3 DEF ScanInv
  <2> QED
    BY <1>2, <1>9, <2>1, <2>4 DEF CoreInv, PhaseInv, CompleteInv
<1> QED
  BY <1>10, <1>11

(* Every step.                                                             *)
LEMMA CoreStep == CoreInv /\ [Next]_vars => CoreInv'
<1> SUFFICES ASSUME CoreInv, [Next]_vars PROVE CoreInv'
  OBVIOUS
<1>1. CASE UNCHANGED vars
  BY <1>1 DEF vars, CoreInv, PhaseInv, CompleteInv, ScanInv
<1>2. at \in Nat \ {0} /\ 1 \in Nat \ {0} /\ at + 1 \in Nat \ {0}
  BY DEF CoreInv, PhaseInv
<1>3. CASE ProcessRmrr
  BY <1>2, <1>3, AfterStep DEF ProcessRmrr, Tables
<1>4. CASE NextRmrr
  BY <1>2, <1>4, AfterStep DEF NextRmrr, Tables
<1>8. CASE NoExceptionDeviceList
  BY <1>2, <1>8, ShortSeqs, AfterStep DEF NoExceptionDeviceList
<1>5. CASE DumpExceptionRecord
  BY <1>2, <1>5, AfterStep DEF DumpExceptionRecord, Tables
<1>6. CASE EndOfPolicy
  BY <1>2, <1>6, AfterStep DEF EndOfPolicy, Tables
<1>7. CASE Done
  BY <1>1, <1>7 DEF Done
<1> QED
  BY <1>1, <1>3, <1>4, <1>5, <1>6, <1>7, <1>8, GetDmarAcpiTableStep, ParseDmarAcpiTableDrhdStep, NextDrhdStep, ProcessDhrdStep,
     ScanPciBusEndStep, ScanPciBusStep, DeviceScopeStep, ProcessDhrdEndStep DEF Next

(***************************************************************************)
(* What the registration achieves.                                         *)
(***************************************************************************)
(* The units, as the properties name what they have.                       *)
LEMMA RegisteredIs ==
  /\ \A i : Registered(i) = Has(units[i])
  /\ \A i : UNION {Registered(j) : j \in 1..(i - 1)} = EarlierHave(units, i)
BY DEF Registered, Has, EarlierHave

(* Every unit has what its DRHD leads to, when all have been processed.    *)
LEMMA UnitsAreExact == CoreInv => UnitsExact
<1> SUFFICES ASSUME CoreInv, Parsed, NEW i \in 1..Len(units) PROVE CompleteUnit(pci, Drhds(dmar)[i], units, i)
  BY RegisteredIs DEF UnitsExact, CompleteUnit
<1>1. pc \in {"rmrr", "policy", "done"} /\ status = "success" /\ vtdIndex > 0
  BY DEF Parsed
<1>2. vtdIndex = Len(units)
  <2>1. CASE units = <<>>
    <3>1. Len(units) = 0 /\ 1..0 = {}
      BY <2>1
    <3> QED
      BY <3>1
  <2> QED
    BY <1>1, <2>1 DEF CoreInv, PhaseInv
<1>3. CompleteUpTo(pci, dmar, units, vtdIndex)
  BY <1>1 DEF CoreInv, CompleteInv
<1> QED
  BY <1>2, <1>3 DEF CompleteUpTo

(* The functions of a unit are as many as its array has entries.           *)
LEMMA EntriesCounted ==
  ASSUME NEW u, UnitForm(u)
  PROVE  Cardinality(Has(u)) = Len(u.data)
<1> DEFINE n == Len(u.data)
           L(k) == PciLocation(u.seg, u.data[k].src)
           H == {L(k) : k \in 1..n}
           f == [k \in 1..n |-> L(k)]
<1>1. /\ n \in Nat
      /\ \A k \in 1..n : u.data[k].src = <<u.data[k].src[1], u.data[k].src[2], u.data[k].src[3]>>
      /\ \A k, l \in 1..n : u.data[k].src = u.data[l].src => k = l
  BY SeqIs DEF UnitForm
<1>2. ASSUME NEW k \in 1..n, NEW l \in 1..n, L(k) = L(l) PROVE k = l
  <2> DEFINE a == u.data[k].src
             b == u.data[l].src
  <2>1. <<u.seg, a[1], a[2], a[3]>> = <<u.seg, b[1], b[2], b[3]>>
    BY <1>2 DEF PciLocation
  <2>2. a[1] = b[1] /\ a[2] = b[2] /\ a[3] = b[3]
    BY <2>1
  <2>3. a = <<a[1], a[2], a[3]>> /\ b = <<b[1], b[2], b[3]>>
    BY <1>1
  <2>4. a = b
    BY <2>2, <2>3
  <2> QED
    BY <1>1, <2>4
<1>3. Has(u) = H
  BY DEF Has
<1> HIDE DEF L
<1>4. f \in [1..n -> H] /\ \A k \in 1..n : f[k] = L(k)
  OBVIOUS
<1>5. \A h \in H : \E k \in 1..n : f[k] = h
  BY <1>4
<1>6. \A k, l \in 1..n : k # l => f[k] # f[l]
  BY <1>2, <1>4
<1> HIDE DEF n, f, H
<1>7. f \in Bijection(1..n, H)
  BY <1>4, <1>5, <1>6 DEF Bijection, Injection, Surjection, IsInjective
<1>8. ExistsBijection(1..n, H)
  BY <1>7 DEF ExistsBijection
<1>9. Cardinality(H) = n
  BY <1>1, <1>8, FS_CountingElements
<1> QED
  BY <1>3, <1>9 DEF n

(* No function is in two units or twice in one, and no array overflows.    *)
LEMMA UnitsAreDistinct == CoreInv => OneUnit /\ ArrayHolds
<1> SUFFICES ASSUME CoreInv PROVE OneUnit /\ ArrayHolds
  OBVIOUS
<1>1. ArrayForm(pci, dmar, units, vtdIndex)
  BY DEF CoreInv
<1>2. \A i, j \in 1..Len(units) : i # j => Has(units[i]) \cap Has(units[j]) = {}
  BY <1>1 DEF ArrayForm
<1>3. \A i \in 1..Len(units) : UnitForm(units[i])
  BY <1>1 DEF ArrayForm
<1>4. \A i \in 1..Len(units) : Cardinality(Has(units[i])) = Len(units[i].data)
  BY <1>3, EntriesCounted
<1>5. OneUnit
  BY <1>2, <1>4, RegisteredIs DEF OneUnit
<1>6. ArrayHolds
  BY <1>3 DEF ArrayHolds, UnitForm
<1> QED
  BY <1>5, <1>6

(* Joined sequences, whatever they are sequences of.                       *)
LEMMA Flattened ==
  ASSUME NEW n \in Nat, NEW s, s = [k \in 1..n |-> s[k]], \A k \in 1..n : IsSequence(s[k])
  PROVE  IsSequence(FlattenSeq(s)) /\ Range(FlattenSeq(s)) = UNION {Range(s[k]) : k \in 1..n}
<1> DEFINE T == UNION {Range(s[k]) : k \in 1..n}
<1>1. ASSUME NEW k \in 1..n PROVE s[k] \in Seq(T)
  <2>1. s[k] \in Seq(Range(s[k])) /\ Range(s[k]) \subseteq T
    BY DEF IsSequence
  <2> HIDE DEF T
  <2>2. Len(s[k]) \in Nat /\ s[k] \in [1..Len(s[k]) -> Range(s[k])]
    BY <2>1, LenProperties
  <2> QED
    BY <2>1, <2>2
<1> HIDE DEF T
<1>2. s \in Seq(Seq(T)) /\ Len(s) = n
  BY <1>1
<1>3. FlattenSeq(s) \in Seq(T)
  BY <1>2, FlattenSeqs
<1>4. IsSequence(FlattenSeq(s))
  BY <1>3, SeqOwn
<1>5. Range(FlattenSeq(s)) = UNION {Range(s[k]) : k \in 1..Len(s)}
  BY <1>2, FlattenRange
<1> QED
  BY <1>2, <1>4, <1>5

(* Of the records that are wanted, each is made or left out.               *)
LEMMA MadeIs ==
  ASSUME NEW wanted, IsSequence(wanted), NEW got \in Allocations(Len(wanted))
  PROVE  IsSequence(Made(wanted, got)) /\ Range(Made(wanted, got)) \cup LeftOut(wanted, got) = Range(wanted)
<1> DEFINE n == Len(wanted)
           s == [k \in 1..n |-> IF k \in got THEN <<wanted[k]>> ELSE <<>>]
<1>1. n \in Nat /\ Range(wanted) = {wanted[k] : k \in 1..n} /\ got \subseteq 1..n
  BY SeqIs DEF Allocations
<1>2. Made(wanted, got) = FlattenSeq(s)
  BY DEF Made
<1>3. s = [k \in 1..n |-> s[k]] /\ \A k \in 1..n : s[k] = IF k \in got THEN <<wanted[k]>> ELSE <<>>
  OBVIOUS
<1> HIDE DEF s, n
<1>4. ASSUME NEW k \in 1..n PROVE IsSequence(s[k]) /\ Range(s[k]) = IF k \in got THEN {wanted[k]} ELSE {}
  <2>1. CASE k \in got
    <3>1. s[k] = <<wanted[k]>>
      BY <1>3, <2>1
    <3>2. IsSequence(s[k]) /\ Len(s[k]) = 1 /\ s[k][1] = wanted[k]
      BY <3>1, ShortSeqs
    <3>3. Range(s[k]) = {s[k][i] : i \in 1..Len(s[k])} /\ 1..1 = {1}
      BY <3>2, SeqIs
    <3> QED
      BY <2>1, <3>2, <3>3
  <2>2. CASE k \notin got
    <3>1. s[k] = <<>>
      BY <1>3, <2>2
    <3>2. IsSequence(s[k]) /\ Len(s[k]) = 0
      BY <3>1, ShortSeqs
    <3>3. Range(s[k]) = {s[k][i] : i \in 1..Len(s[k])} /\ 1..0 = {}
      BY <3>2, SeqIs
    <3> QED
      BY <2>2, <3>2, <3>3
  <2> QED
    BY <2>1, <2>2
<1>5. IsSequence(FlattenSeq(s)) /\ Range(FlattenSeq(s)) = UNION {Range(s[k]) : k \in 1..n}
  BY <1>1, <1>3, <1>4, Flattened
<1>6. UNION {Range(s[k]) : k \in 1..n} = {wanted[k] : k \in got}
  <2>1. \A k \in 1..n : Range(s[k]) = IF k \in got THEN {wanted[k]} ELSE {}
    BY <1>4
  <2>2. \A x : x \in UNION {Range(s[k]) : k \in 1..n} <=> \E k \in got : x = wanted[k]
    BY <1>1, <2>1
  <2> QED
    BY <2>2
<1>7. LeftOut(wanted, got) = {wanted[k] : k \in (1..n) \ got}
  BY DEF LeftOut, n
<1>8. {wanted[k] : k \in got} \cup {wanted[k] : k \in (1..n) \ got} = {wanted[k] : k \in 1..n}
  BY <1>1
<1> QED
  BY <1>1, <1>2, <1>5, <1>6, <1>7, <1>8

\* The functions that an identity of the policy means.
Meant(us, want) ==
  UNION {{PciLocation(us[i].seg, us[i].data[k].src) :
            k \in {m \in 1..Len(us[i].data) : Matches(want, us[i].data[m].id)}} : i \in 1..Len(us)}

(* The functions of one unit that an identity means.                       *)
LEMMA MatchesInIs ==
  ASSUME NEW u, UnitForm(u), NEW want
  PROVE  /\ IsSequence(MatchesIn(u, want))
         /\ Range(MatchesIn(u, want)) =
              {PciLocation(u.seg, u.data[k].src) : k \in {m \in 1..Len(u.data) : Matches(want, u.data[m].id)}}
<1> DEFINE n == Len(u.data)
           L(k) == PciLocation(u.seg, u.data[k].src)
           M(k) == Matches(want, u.data[k].id)
           s == [k \in 1..n |-> IF M(k) THEN <<L(k)>> ELSE <<>>]
<1>1. n \in Nat
  BY SeqIs DEF UnitForm
<1>2. MatchesIn(u, want) = FlattenSeq(s)
  BY DEF MatchesIn
<1> HIDE DEF L, M
<1>3. s = [k \in 1..n |-> s[k]] /\ \A k \in 1..n : s[k] = IF M(k) THEN <<L(k)>> ELSE <<>>
  OBVIOUS
<1> HIDE DEF s, n
<1>4. ASSUME NEW k \in 1..n PROVE IsSequence(s[k]) /\ Range(s[k]) = IF M(k) THEN {L(k)} ELSE {}
  <2>1. CASE M(k)
    <3>1. s[k] = <<L(k)>>
      BY <1>3, <2>1
    <3>2. IsSequence(s[k]) /\ Len(s[k]) = 1 /\ s[k][1] = L(k)
      BY <3>1, ShortSeqs
    <3>3. Range(s[k]) = {s[k][i] : i \in 1..Len(s[k])} /\ 1..1 = {1}
      BY <3>2, SeqIs
    <3> QED
      BY <2>1, <3>2, <3>3
  <2>2. CASE ~M(k)
    <3>1. s[k] = <<>>
      BY <1>3, <2>2
    <3>2. IsSequence(s[k]) /\ Len(s[k]) = 0
      BY <3>1, ShortSeqs
    <3>3. Range(s[k]) = {s[k][i] : i \in 1..Len(s[k])} /\ 1..0 = {}
      BY <3>2, SeqIs
    <3> QED
      BY <2>2, <3>2, <3>3
  <2> QED
    BY <2>1, <2>2
<1>5. IsSequence(FlattenSeq(s)) /\ Range(FlattenSeq(s)) = UNION {Range(s[k]) : k \in 1..n}
  BY <1>1, <1>3, <1>4, Flattened
<1>6. UNION {Range(s[k]) : k \in 1..n} = {L(k) : k \in {m \in 1..n : M(m)}}
  BY <1>4
<1> QED
  BY <1>2, <1>5, <1>6 DEF L, M, n

(* AddExceptionDevice excepts what an identity means.                      *)
LEMMA AddExceptionDeviceIs ==
  ASSUME IsSequence(units), \A i \in 1..Len(units) : UnitForm(units[i]), NEW want
  PROVE  IsSequence(AddExceptionDevice(want)) /\ Range(AddExceptionDevice(want)) = Meant(units, want)
<1> DEFINE n == Len(units)
           s == [i \in 1..n |-> MatchesIn(units[i], want)]
           W(i) == {PciLocation(units[i].seg, units[i].data[k].src) :
                      k \in {m \in 1..Len(units[i].data) : Matches(want, units[i].data[m].id)}}
<1>1. n \in Nat
  BY SeqIs
<1>2. AddExceptionDevice(want) = FlattenSeq(s)
  BY DEF AddExceptionDevice
<1>3. s = [i \in 1..n |-> s[i]] /\ \A i \in 1..n : s[i] = MatchesIn(units[i], want)
  OBVIOUS
<1>4. \A i \in 1..n : IsSequence(MatchesIn(units[i], want)) /\ Range(MatchesIn(units[i], want)) = W(i)
  BY MatchesInIs
<1> HIDE DEF s, n, W
<1>5. IsSequence(FlattenSeq(s)) /\ Range(FlattenSeq(s)) = UNION {Range(s[k]) : k \in 1..n}
  BY <1>1, <1>3, <1>4, Flattened
<1>6. UNION {Range(s[k]) : k \in 1..n} = UNION {W(i) : i \in 1..n}
  BY <1>3, <1>4
<1>7. Meant(units, want) = UNION {W(i) : i \in 1..n}
  BY DEF Meant, W, n
<1> QED
  BY <1>2, <1>5, <1>6, <1>7

\* What an entry of the policy excepts.
Excepted(us, e) ==
  CASE e.type = "scope" -> {e.loc}
    [] e.type = "id"    -> Meant(us, e.id)
    [] OTHER            -> {}

\* The records, with those there was no memory for, are what the entries so
\* far except.
PolicyInv ==
  /\ IsSequence(exceptions)
  /\ pc \notin {"policy", "done"} => exceptions = <<>> /\ lostExceptions = {}
  /\ pc \in {"policy", "done"} =>
       /\ at <= Len(policy) + 1 /\ \A n \in 1..(at - 1) : policy[n].type # "end"
       /\ Range(exceptions) \cup lostExceptions = UNION {Excepted(units, policy[n]) : n \in 1..(at - 1)}
  /\ pc = "done" => ~PolicyLeft

(* At the start nothing has been excepted.                                 *)
LEMMA PolicyStarts == Init => PolicyInv
<1> SUFFICES ASSUME Init PROVE PolicyInv
  OBVIOUS
<1>1. exceptions = <<>> /\ lostExceptions = {} /\ pc = "start"
  BY DEF Init
<1>2. IsSequence(exceptions)
  BY <1>1, ShortSeqs
<1> QED
  BY <1>1, <1>2 DEF PolicyInv

(* The policy is come to.                                                  *)
LEMMA PolicyBegins ==
  ASSUME CoreInv, PolicyInv, pc \notin {"policy", "done"}, pc' # "done", policy' = policy,
         exceptions' = exceptions, lostExceptions' = lostExceptions,
         pc' = "policy" => at' = 1
  PROVE  PolicyInv'
<1>1. exceptions = <<>> /\ lostExceptions = {} /\ IsSequence(exceptions)
  BY DEF PolicyInv
<1>2. Range(exceptions) = {} /\ 1..0 = {}
  <2>1. Range(exceptions) = {exceptions[i] : i \in 1..Len(exceptions)} /\ Len(exceptions) = 0 /\ 1..0 = {}
    BY <1>1, SeqIs, ShortSeqs
  <2> QED
    BY <2>1
<1>3. IsSequence(policy)
  BY DEF CoreInv, PhaseInv
<1>4. Len(policy) \in Nat
  BY <1>3, SeqIs
<1>5. CASE pc' = "policy"
  <2>1. at' = 1 /\ at' <= Len(policy) + 1 /\ 1..(at' - 1) = {}
    BY <1>4, <1>5
  <2>2. UNION {Excepted(units', policy[n]) : n \in 1..(at' - 1)} = {}
    BY <2>1
  <2> QED
    BY <1>1, <1>2, <1>5, <2>1, <2>2 DEF PolicyInv
<1>6. CASE pc' # "policy"
  BY <1>1, <1>6 DEF PolicyInv
<1> QED
  BY <1>5, <1>6

(* An entry of the policy.                                                 *)
LEMMA DumpExceptionRecordStep == CoreInv /\ PolicyInv /\ DumpExceptionRecord => PolicyInv'
<1> SUFFICES ASSUME CoreInv, PolicyInv, DumpExceptionRecord PROVE PolicyInv'
  OBVIOUS
<1> DEFINE e == policy[at]
           r == Excepts(e)
           s == exceptions
           t == exceptions'
           l == lostExceptions
<1>0. PICK got \in Allocations(Len(r)) : t = s \o Made(r, got) /\ lostExceptions' = l \cup LeftOut(r, got)
  BY DEF DumpExceptionRecord
<1> DEFINE made == Made(r, got)
           left == LeftOut(r, got)
<1>1. /\ pc = "policy" /\ at <= Len(policy) /\ e.type # "end" /\ t = s \o made /\ lostExceptions' = l \cup left
      /\ at' = at + 1 /\ UNCHANGED <<pc, policy, units>>
  BY <1>0 DEF DumpExceptionRecord, PolicyLeft, Tables
<1>2. /\ IsSequence(s) /\ at \in Nat \ {0} /\ \A n \in 1..(at - 1) : policy[n].type # "end"
      /\ Range(s) \cup l = UNION {Excepted(units, policy[n]) : n \in 1..(at - 1)}
  BY <1>1 DEF CoreInv, PhaseInv, PolicyInv
<1>3. IsSequence(units) /\ \A i \in 1..Len(units) : UnitForm(units[i])
  BY DEF CoreInv, ArrayForm
<1>4. IsSequence(r) /\ Range(r) = Excepted(units, e)
  <2> HIDE DEF e
  <2>1. CASE e.type = "scope"
    <3>1. r = <<e.loc>> /\ Excepted(units, e) = {e.loc}
      BY <2>1 DEF Excepted, Excepts
    <3> HIDE DEF r
    <3>2. IsSequence(r) /\ Len(r) = 1 /\ r[1] = e.loc
      BY <3>1, ShortSeqs
    <3>3. Range(r) = {r[i] : i \in 1..Len(r)} /\ 1..1 = {1}
      BY <3>2, SeqIs
    <3> QED
      BY <3>1, <3>2, <3>3
  <2>2. CASE e.type = "id"
    <3>1. r = AddExceptionDevice(e.id) /\ Excepted(units, e) = Meant(units, e.id)
      BY <2>2 DEF Excepted, Excepts
    <3> HIDE DEF r
    <3> QED
      BY <1>3, <3>1, AddExceptionDeviceIs
  <2>3. CASE e.type # "scope" /\ e.type # "id"
    <3>1. r = <<>> /\ Excepted(units, e) = {}
      BY <2>3 DEF Excepted, Excepts
    <3> HIDE DEF r
    <3>2. IsSequence(r) /\ Len(r) = 0
      BY <3>1, ShortSeqs
    <3>3. Range(r) = {r[i] : i \in 1..Len(r)} /\ 1..0 = {}
      BY <3>2, SeqIs
    <3> QED
      BY <3>1, <3>2, <3>3
  <2> QED
    BY <2>1, <2>2, <2>3
<1>5. IsSequence(t) /\ Range(t) \cup lostExceptions' = (Range(s) \cup l) \cup Range(r)
  <2>1. t = s \o made
    BY <1>1
  <2> HIDE DEF r
  <2>2. IsSequence(made) /\ Range(made) \cup left = Range(r)
    BY <1>0, <1>4, MadeIs
  <2> HIDE DEF s, t, made
  <2>3. IsSequence(t) /\ Range(t) = Range(s) \cup Range(made)
    BY <1>2, <2>1, <2>2, SeqConcat
  <2>4. lostExceptions' = l \cup left
    BY <1>1
  <2> HIDE DEF l, left
  <2> QED
    BY <2>2, <2>3, <2>4
<1>6. 1..(at' - 1) = 1..(at - 1) \cup {at} /\ at' <= Len(policy) + 1
  <2>1. Len(policy) \in Nat
    BY SeqIs DEF CoreInv, PhaseInv
  <2> QED
    BY <1>1, <1>2, <2>1
<1> HIDE DEF r, s, t, l
<1>7. Range(t) \cup lostExceptions' = UNION {Excepted(units, policy[n]) : n \in 1..(at' - 1)}
  <2> DEFINE X(n) == Excepted(units, policy[n])
  <2>1. Range(t) \cup lostExceptions' = X(at) \cup UNION {X(n) : n \in 1..(at - 1)}
    BY <1>2, <1>4, <1>5
  <2> HIDE DEF X
  <2>2. UNION {X(n) : n \in 1..(at' - 1)} = X(at) \cup UNION {X(n) : n \in 1..(at - 1)}
    BY <1>6
  <2> QED
    BY <2>1, <2>2 DEF X
<1>8. \A n \in 1..(at' - 1) : policy[n].type # "end"
  BY <1>1, <1>2, <1>6
<1> QED
  BY <1>1, <1>5, <1>6, <1>7, <1>8 DEF PolicyInv, t

(* Only the entries of the policy make exception records.                  *)
LEMMA PolicyStep == CoreInv /\ PolicyInv /\ [Next]_vars => PolicyInv'
<1> SUFFICES ASSUME CoreInv, PolicyInv, [Next]_vars PROVE PolicyInv'
  OBVIOUS
<1>1. CASE UNCHANGED vars
  BY <1>1 DEF vars, PolicyInv, PolicyLeft
<1>2. at = 1 \/ pc # "start"
  BY DEF CoreInv, PhaseInv
<1>3. CASE GetDmarAcpiTable
  BY <1>2, <1>3, PolicyBegins DEF GetDmarAcpiTable, Records, ExceptionRecords
<1>4. CASE ParseDmarAcpiTableDrhd
  BY <1>4, PolicyBegins DEF ParseDmarAcpiTableDrhd, Records, ExceptionRecords, Tables
<1>5. CASE NextDrhd
  BY <1>5, PolicyBegins DEF NextDrhd, Records, ExceptionRecords, Tables
<1>6. CASE ProcessDhrd
  BY <1>6, PolicyBegins DEF ProcessDhrd, Records, ExceptionRecords, Tables
<1>7. CASE ScanPciBusEnd
  BY <1>7, PolicyBegins DEF ScanPciBusEnd, Records, ExceptionRecords, Tables
<1>8. CASE ScanPciBus
  <2>1. pc = "scan" /\ pc' \in {"scan", "rmrr"} /\ UNCHANGED <<exceptions, lostExceptions, policy>>
    BY <1>8 DEF ScanPciBus, Records, ExceptionRecords, Tables, Fail
  <2> QED
    BY <2>1, PolicyBegins
<1>9. CASE DeviceScope
  <2>1. pc = "scan" /\ pc' \in {"scan", "rmrr"} /\ UNCHANGED <<exceptions, lostExceptions, policy>>
    BY <1>9 DEF DeviceScope, Records, ExceptionRecords, Tables, Fail
  <2> QED
    BY <2>1, PolicyBegins
<1>10. CASE ProcessDhrdEnd
  BY <1>10, PolicyBegins DEF ProcessDhrdEnd, Records, ExceptionRecords, Tables
<1>11. CASE ProcessRmrr
  BY <1>11, PolicyBegins DEF ProcessRmrr, ExceptionRecords, Tables
<1>12. CASE NextRmrr
  BY <1>12, PolicyBegins DEF NextRmrr, Records, ExceptionRecords, Tables
<1>13. CASE EndOfPolicy
  BY <1>13 DEF EndOfPolicy, Records, ExceptionRecords, Tables, PolicyInv, PolicyLeft
<1>15. CASE NoExceptionDeviceList
  <2>1. /\ pc = "policy" /\ at = 1 /\ at' = 1 /\ policy' = <<>> /\ pc' = "done"
        /\ UNCHANGED <<exceptions, lostExceptions>>
    BY <1>15 DEF NoExceptionDeviceList, Records, ExceptionRecords
  <2>2. 1..(at - 1) = {} /\ 1..(at' - 1) = {} /\ Len(policy') = 0
    BY <2>1, ShortSeqs
  <2>3. /\ Range(exceptions) \cup lostExceptions = {}
        /\ UNION {Excepted(units', policy'[n]) : n \in 1..(at' - 1)} = {}
    <3>1. Range(exceptions) \cup lostExceptions = UNION {Excepted(units, policy[n]) : n \in 1..(at - 1)}
      BY <2>1 DEF PolicyInv
    <3> QED
      BY <2>2, <3>1
  <2>4. at' <= Len(policy') + 1 /\ ~PolicyLeft'
    BY <2>1, <2>2 DEF PolicyLeft
  <2> QED
    BY <2>1, <2>2, <2>3, <2>4 DEF PolicyInv
<1>14. CASE Done
  BY <1>1, <1>14 DEF Done
<1> QED
  BY <1>1, <1>3, <1>4, <1>5, <1>6, <1>7, <1>8, <1>9, <1>10, <1>11, <1>12, <1>13, <1>14, <1>15, DumpExceptionRecordStep DEF Next

(* The records are those of all entries.                                   *)
LEMMA RecordsAreRight == CoreInv /\ PolicyInv => ExceptionsRight
<1> SUFFICES ASSUME CoreInv, PolicyInv, pc = "done" PROVE ExceptionsRight
  BY DEF ExceptionsRight
<1> DEFINE owned == UNION {{<<i, k>> : k \in 1..Len(units[i].data)} : i \in 1..Len(units)}
           read == {n \in 1..Len(policy) : \A j \in 1..n : policy[j].type # "end"}
           M(n, o) == LET id == units[o[1]].data[o[2]].id IN
                       /\ policy[n].id.device = Wild \/ policy[n].id.device = id.device
                       /\ policy[n].id.subsystem = Wild \/ policy[n].id.subsystem = id.subsystem
           L(o) == PciLocation(units[o[1]].seg, units[o[1]].data[o[2]].src)
           X(n) == Excepted(units, policy[n])
           A == {policy[n].loc : n \in {m \in read : policy[m].type = "scope"}}
           B == {L(o) : o \in {o \in owned : \E n \in read : policy[n].type = "id" /\ M(n, o)}}
<1>1. /\ IsSequence(exceptions) /\ at \in Nat \ {0} /\ at <= Len(policy) + 1
      /\ \A n \in 1..(at - 1) : policy[n].type # "end"
      /\ Range(exceptions) \cup lostExceptions = UNION {X(n) : n \in 1..(at - 1)} /\ ~PolicyLeft
  BY DEF CoreInv, PhaseInv, PolicyInv
<1>2. Len(policy) \in Nat
  BY SeqIs DEF CoreInv, PhaseInv
<1>3. read = 1..(at - 1)
  <2>1. ASSUME NEW n \in read PROVE n \in 1..(at - 1)
    <3>1. CASE n >= at
      <4>1. at \in 1..n /\ at <= Len(policy)
        BY <1>1, <1>2, <3>1
      <4> QED
        BY <1>1, <4>1 DEF PolicyLeft
    <3> QED
      BY <1>1, <1>2, <3>1
  <2>2. ASSUME NEW n \in 1..(at - 1) PROVE n \in read
    <3>1. n \in 1..Len(policy) /\ \A j \in 1..n : j \in 1..(at - 1)
      BY <1>1, <1>2
    <3> QED
      BY <1>1, <3>1
  <2> QED
    BY <2>1, <2>2
<1>4. \A n : \A o : M(n, o) <=> Matches(policy[n].id, units[o[1]].data[o[2]].id)
  BY DEF Matches
<1> HIDE DEF read
<1>5. ASSUME NEW n \in read, NEW x \in X(n) PROVE x \in A \cup B
  <2>1. CASE policy[n].type = "scope"
    <3>1. x = policy[n].loc
      BY <1>5, <2>1 DEF Excepted
    <3> QED
      BY <2>1, <3>1
  <2>2. CASE policy[n].type = "id"
    <3>1. x \in Meant(units, policy[n].id)
      BY <1>5, <2>2 DEF Excepted
    <3>2. PICK i \in 1..Len(units) : \E k \in 1..Len(units[i].data) :
            Matches(policy[n].id, units[i].data[k].id) /\ x = PciLocation(units[i].seg, units[i].data[k].src)
      BY <3>1 DEF Meant
    <3>3. PICK k \in 1..Len(units[i].data) :
            Matches(policy[n].id, units[i].data[k].id) /\ x = PciLocation(units[i].seg, units[i].data[k].src)
      BY <3>2
    <3> DEFINE o == <<i, k>>
    <3>4. o \in owned /\ o[1] = i /\ o[2] = k
      OBVIOUS
    <3> HIDE DEF o, owned, M
    <3>5. M(n, o) /\ x = L(o)
      BY <1>4, <3>3, <3>4
    <3> QED
      BY <2>2, <3>4, <3>5
  <2>3. CASE policy[n].type # "scope" /\ policy[n].type # "id"
    BY <1>5, <2>3 DEF Excepted
  <2> QED
    BY <2>1, <2>2, <2>3
<1>6. ASSUME NEW x \in A PROVE \E n \in read : x \in X(n)
  <2>1. PICK n \in read : policy[n].type = "scope" /\ x = policy[n].loc
    OBVIOUS
  <2>2. x \in X(n)
    BY <2>1 DEF Excepted
  <2> QED
    BY <2>2
<1>7. ASSUME NEW x \in B PROVE \E n \in read : x \in X(n)
  <2> HIDE DEF M, owned
  <2>1. PICK o \in owned : x = L(o) /\ \E n \in read : policy[n].type = "id" /\ M(n, o)
    OBVIOUS
  <2>2. PICK n \in read : policy[n].type = "id" /\ M(n, o)
    BY <2>1
  <2>3. PICK i \in 1..Len(units) : \E k \in 1..Len(units[i].data) : o = <<i, k>>
    BY <2>1 DEF owned
  <2>4. PICK k \in 1..Len(units[i].data) : o = <<i, k>>
    BY <2>3
  <2>5. o[1] = i /\ o[2] = k
    BY <2>4
  <2>6. Matches(policy[n].id, units[i].data[k].id) /\ x = PciLocation(units[i].seg, units[i].data[k].src)
    BY <1>4, <2>1, <2>2, <2>5
  <2>7. x \in Meant(units, policy[n].id)
    BY <2>6 DEF Meant
  <2>8. x \in X(n)
    BY <2>2, <2>7 DEF Excepted
  <2> QED
    BY <2>8
<1>8. {exceptions[k] : k \in 1..Len(exceptions)} \cup lostExceptions = UNION {X(n) : n \in read}
  BY <1>1, <1>3, SeqIs
<1> HIDE DEF A, B, X
<1>9. {exceptions[k] : k \in 1..Len(exceptions)} \cup lostExceptions = A \cup B
  BY <1>5, <1>6, <1>7, <1>8
<1> QED
  BY <1>9 DEF ExceptionsRight, A, B, M, L, owned, read

\* All scopes of the reserved regions are endpoints.
Clean(d) == \A n \in 1..Len(d) : d[n].type = "RMRR" => \A k \in 1..Len(d[n].scopes) : d[n].scopes[k].type = Endpoint

\* The region of each endpoint that the nth structure has.
RegionsOf(p, d, n) ==
  {<<d[n].seg, GetPciBusDeviceFunction(p, d[n].seg, d[n].scopes[k]), d[n].base, d[n].limit>> :
     k \in 1..Len(d[n].scopes)}
RmrrUpTo(d, m) == {n \in 1..Len(d) : n < m /\ d[n].type = "RMRR"}

\* The regions that records are of.
RegionsIn(records) == {<<r.seg, r.src, r.base, r.base + r.length - 1>> : r \in records}
KnownRegions == RegionsIn(Range(rmrr) \cup lostRmrr)

\* The records, with those there was no memory for, are of the regions
\* passed, and of all of them at the end.
RmrrInv ==
  /\ pc = "start" => printed = <<>>
  /\ pc \in {"start", "parse", "drhd", "scan"} => rmrr = <<>> /\ lostRmrr = {}
  /\ Clean(dmar) =>
       /\ IsSequence(rmrr)
       /\ pc = "rmrr" => KnownRegions = UNION {RegionsOf(pci, dmar, n) : n \in RmrrUpTo(dmar, at)}
       /\ pc = "policy" /\ printed # <<>> =>
            KnownRegions = UNION {RegionsOf(pci, dmar, n) : n \in RmrrUpTo(dmar, Len(dmar) + 1)}

(* At the start nothing has been recorded.                                 *)
LEMMA RmrrStarts == Init => RmrrInv
<1> SUFFICES ASSUME Init PROVE RmrrInv
  OBVIOUS
<1>1. rmrr = <<>> /\ lostRmrr = {} /\ pc = "start" /\ printed = <<>>
  BY DEF Init
<1>2. IsSequence(rmrr)
  BY <1>1, ShortSeqs
<1> QED
  BY <1>1, <1>2 DEF RmrrInv

(* The walk over the regions begins with no record.                        *)
LEMMA RmrrBegins ==
  ASSUME rmrr = <<>>, lostRmrr = {}, pc' \notin {"start", "policy"}, UNCHANGED <<dmar, rmrr, lostRmrr>>,
         pc' = "rmrr" => at' = 1, Len(dmar) \in Nat
  PROVE  RmrrInv'
<1>1. IsSequence(rmrr) /\ Range(rmrr) = {}
  <2>1. IsSequence(rmrr) /\ Len(rmrr) = 0 /\ 1..0 = {}
    BY ShortSeqs
  <2>2. Range(rmrr) = {rmrr[i] : i \in 1..Len(rmrr)}
    BY <2>1, SeqIs
  <2> QED
    BY <2>1, <2>2
<1>2. KnownRegions' = {}
  BY <1>1 DEF KnownRegions, RegionsIn
<1>3. ASSUME pc' = "rmrr" PROVE RmrrUpTo(dmar', at') = {}
  BY <1>3 DEF RmrrUpTo
<1> QED
  BY <1>1, <1>2, <1>3 DEF RmrrInv

(* The records of a region whose scopes are all endpoints.                 *)
LEMMA RegionRecordsAre ==
  ASSUME NEW d, NEW n, d[n].base \in Int, d[n].limit \in Int, IsSequence(d[n].scopes), GoodScopes(d[n]) = Len(d[n].scopes)
  PROVE  IsSequence(RegionRecords(d[n])) /\ RegionsIn(Range(RegionRecords(d[n]))) = RegionsOf(pci, d, n)
<1> DEFINE s == d[n]
           m == Len(s.scopes)
           F(k) == [seg |-> s.seg, base |-> s.base, length |-> RmrrLength(s),
                    src |-> GetPciBusDeviceFunction(pci, s.seg, s.scopes[k])]
           G(k) == <<s.seg, GetPciBusDeviceFunction(pci, s.seg, s.scopes[k]), s.base, s.limit>>
           new == RegionRecords(s)
<1>1. m \in Nat
  BY SeqIs
<1>2. new = [k \in 1..m |-> F(k)]
  BY DEF RegionRecords
<1>3. new = [k \in 1..m |-> new[k]] /\ \A k \in 1..m : new[k] = F(k)
  BY <1>2
<1>4. ASSUME NEW k \in 1..m PROVE <<F(k).seg, F(k).src, F(k).base, F(k).base + F(k).length - 1>> = G(k)
  <2>1. F(k).length = s.limit + 1 - s.base /\ F(k).base = s.base /\ F(k).seg = s.seg
        /\ F(k).src = GetPciBusDeviceFunction(pci, s.seg, s.scopes[k])
    BY DEF RmrrLength
  <2> HIDE DEF F, s
  <2>2. s.base \in Int /\ s.limit \in Int
    BY DEF s
  <2>3. F(k).base + F(k).length - 1 = s.limit
    BY <2>1, <2>2
  <2> QED
    BY <2>1, <2>3
<1>5. RegionsOf(pci, d, n) = {G(k) : k \in 1..m}
  BY DEF RegionsOf
<1> HIDE DEF new, F, G, m
<1>6. IsSequence(new) /\ Len(new) = m
  BY <1>1, <1>3, SeqFunction
<1>7. Range(new) = {F(k) : k \in 1..m}
  <2>1. Range(new) = {new[k] : k \in 1..m}
    BY <1>6, SeqIs
  <2> QED
    BY <1>3, <2>1
<1>8. RegionsIn(Range(new)) = {G(k) : k \in 1..m}
  BY <1>4, <1>7 DEF RegionsIn
<1> QED
  BY <1>5, <1>6, <1>8 DEF new

(* A reserved region.                                                      *)
LEMMA ProcessRmrrStep == CoreInv /\ RmrrInv /\ ProcessRmrr => RmrrInv'
<1> SUFFICES ASSUME CoreInv, RmrrInv, ProcessRmrr PROVE RmrrInv'
  OBVIOUS
<1> DEFINE s == dmar[at]
           new == RegionRecords(s)
           all == rmrr'
<1>0. PICK got \in Allocations(Len(new)) : all = rmrr \o Made(new, got) /\ lostRmrr' = lostRmrr \cup LeftOut(new, got)
  BY DEF ProcessRmrr, Structure
<1>1. /\ pc = "rmrr" /\ at <= Len(dmar) /\ s.type = "RMRR" /\ UNCHANGED <<pci, dmar, printed>>
      /\ IF GoodScopes(s) = Len(s.scopes) THEN at' = at + 1 /\ pc' = pc ELSE at' = 1 /\ pc' = "policy"
  BY DEF ProcessRmrr, Structure, Tables
<1>2. at \in Nat \ {0} /\ dmar \in Dmars /\ Len(dmar) \in Nat
  BY DrhdFacts DEF CoreInv, PhaseInv
<1>3. at \in 1..Len(dmar)
  BY <1>1, <1>2
<1>4. s.base \in Int /\ s.limit \in Int /\ IsSequence(s.scopes)
  BY <1>2, <1>3, DmarAssumption DEF DmarForm
<1>5. SUFFICES ASSUME Clean(dmar) PROVE RmrrInv'
  BY <1>1 DEF RmrrInv
<1>6. GoodScopes(s) = Len(s.scopes)
  <2>1. {k \in 1..Len(s.scopes) : s.scopes[k].type # Endpoint} = {}
    BY <1>1, <1>3, <1>5 DEF Clean
  <2> HIDE DEF s
  <2> QED
    BY <2>1 DEF GoodScopes
<1>7. at' = at + 1 /\ pc' = "rmrr"
  BY <1>1, <1>6
<1>8. IsSequence(new) /\ RegionsIn(Range(new)) = RegionsOf(pci, dmar, at)
  BY <1>4, <1>6, RegionRecordsAre
<1>9. IsSequence(rmrr) /\ KnownRegions = UNION {RegionsOf(pci, dmar, n) : n \in RmrrUpTo(dmar, at)}
  BY <1>1, <1>5 DEF RmrrInv
<1> HIDE DEF new, s
<1>10. IsSequence(all) /\ Range(all) \cup lostRmrr' = (Range(rmrr) \cup lostRmrr) \cup Range(new)
  <2> DEFINE made == Made(new, got)
  <2>1. IsSequence(made) /\ Range(made) \cup LeftOut(new, got) = Range(new)
    BY <1>0, <1>8, MadeIs
  <2>2. all = rmrr \o made
    BY <1>0
  <2> HIDE DEF all, made
  <2>3. IsSequence(all) /\ Range(all) = Range(rmrr) \cup Range(made)
    BY <1>9, <2>1, <2>2, SeqConcat
  <2> QED
    BY <1>0, <2>1, <2>3
<1>11. KnownRegions' = KnownRegions \cup RegionsOf(pci, dmar, at)
  <2>1. \A A, B : RegionsIn(A \cup B) = RegionsIn(A) \cup RegionsIn(B)
    BY DEF RegionsIn
  <2>2. KnownRegions' = RegionsIn(Range(all) \cup lostRmrr')
    BY DEF KnownRegions, RegionsIn
  <2> QED
    BY <1>8, <1>10, <2>1, <2>2 DEF KnownRegions
<1>12. RmrrUpTo(dmar, at + 1) = RmrrUpTo(dmar, at) \cup {at}
  BY <1>1, <1>2, <1>3 DEF RmrrUpTo, s
<1>13. KnownRegions' = UNION {RegionsOf(pci, dmar, n) : n \in RmrrUpTo(dmar, at + 1)}
  BY <1>9, <1>11, <1>12
<1> QED
  BY <1>1, <1>7, <1>10, <1>13 DEF RmrrInv

(* Every step keeps the records of the reserved regions.                   *)
LEMMA RmrrStep == CoreInv /\ RmrrInv /\ [Next]_vars => RmrrInv'
<1> SUFFICES ASSUME CoreInv, RmrrInv, [Next]_vars PROVE RmrrInv'
  OBVIOUS
<1>1. CASE UNCHANGED vars
  BY <1>1 DEF vars, RmrrInv, KnownRegions
<1>2. at = 1 \/ pc # "start"
  BY DEF CoreInv, PhaseInv
<1>3. Len(dmar) \in Nat /\ at \in Nat
  BY DrhdFacts DEF CoreInv, PhaseInv
<1>4. ASSUME pc \in {"start", "parse", "drhd", "scan"}, pc' \notin {"start", "policy"}, UNCHANGED <<dmar, rmrr, lostRmrr>>,
             pc' = "rmrr" => at' = 1
      PROVE  RmrrInv'
  <2>1. rmrr = <<>> /\ lostRmrr = {}
    BY <1>4 DEF RmrrInv
  <2> QED
    BY <1>3, <1>4, <2>1, RmrrBegins
<1>5. CASE GetDmarAcpiTable
  <2>1. /\ pc = "start" /\ UNCHANGED <<dmar, pci, at, rmrr, lostRmrr>>
        /\ pc' = "parse" \/ (pc' = "policy" /\ printed' = printed)
    BY <1>5 DEF GetDmarAcpiTable, Records, RmrrRecords
  <2>2. CASE pc' = "parse"
    BY <1>4, <2>1, <2>2
  <2>3. CASE pc' = "policy" /\ printed' = printed
    BY <2>1, <2>3 DEF RmrrInv
  <2> QED
    BY <2>1, <2>2, <2>3
<1>6. CASE ParseDmarAcpiTableDrhd
  BY <1>4, <1>6 DEF ParseDmarAcpiTableDrhd, Records, RmrrRecords, Tables
<1>7. CASE NextDrhd
  BY <1>4, <1>7 DEF NextDrhd, Records, RmrrRecords, Tables
<1>8. CASE ProcessDhrd
  BY <1>4, <1>8 DEF ProcessDhrd, Records, RmrrRecords, Tables
<1>9. CASE ScanPciBusEnd
  BY <1>4, <1>9 DEF ScanPciBusEnd, Records, RmrrRecords, Tables
<1>10. CASE ScanPciBus
  <2>1. pc = "scan" /\ pc' \notin {"start", "policy"} /\ (pc' = "rmrr" => at' = 1) /\ UNCHANGED <<dmar, rmrr, lostRmrr>>
    BY <1>10 DEF ScanPciBus, Records, RmrrRecords, Tables, Fail
  <2> QED
    BY <2>1, <1>4
<1>11. CASE DeviceScope
  <2>1. pc = "scan" /\ pc' \notin {"start", "policy"} /\ (pc' = "rmrr" => at' = 1) /\ UNCHANGED <<dmar, rmrr, lostRmrr>>
    BY <1>11 DEF DeviceScope, Records, RmrrRecords, Tables, Fail
  <2> QED
    BY <2>1, <1>4
<1>12. CASE ProcessDhrdEnd
  BY <1>4, <1>12 DEF ProcessDhrdEnd, Records, RmrrRecords, Tables
<1>13. CASE NextRmrr
  <2>1. /\ pc = "rmrr" /\ UNCHANGED <<pci, dmar, printed, rmrr, lostRmrr>>
        /\ \/ at > Len(dmar) /\ pc' = "policy"
           \/ at <= Len(dmar) /\ dmar[at].type # "RMRR" /\ at' = at + 1 /\ pc' = "rmrr"
    BY <1>3, <1>13 DEF NextRmrr, Structure, Records, RmrrRecords, Tables
  <2>2. KnownRegions' = KnownRegions
    BY <2>1 DEF KnownRegions
  <2>3. CASE at > Len(dmar) /\ pc' = "policy"
    <3>1. RmrrUpTo(dmar, at) = RmrrUpTo(dmar, Len(dmar) + 1)
      BY <1>3, <2>3 DEF RmrrUpTo
    <3> QED
      BY <2>1, <2>2, <2>3, <3>1 DEF RmrrInv
  <2>4. CASE at <= Len(dmar) /\ dmar[at].type # "RMRR" /\ at' = at + 1 /\ pc' = "rmrr"
    <3>1. RmrrUpTo(dmar, at') = RmrrUpTo(dmar, at)
      BY <1>3, <2>4 DEF RmrrUpTo
    <3> QED
      BY <2>1, <2>2, <2>4, <3>1 DEF RmrrInv
  <2> QED
    BY <2>1, <2>3, <2>4
<1>14. CASE DumpExceptionRecord
  <2>1. pc = "policy" /\ UNCHANGED <<pc, pci, dmar, printed, rmrr, lostRmrr>>
    BY <1>14 DEF DumpExceptionRecord, RmrrRecords, Tables
  <2> QED
    BY <2>1 DEF RmrrInv, KnownRegions
<1>15. CASE EndOfPolicy \/ NoExceptionDeviceList
  <2>1. pc' = "done" /\ UNCHANGED <<dmar, rmrr>>
    BY <1>15 DEF EndOfPolicy, NoExceptionDeviceList, Records, RmrrRecords, Tables
  <2>2. pc = "policy"
    BY <1>15 DEF EndOfPolicy, NoExceptionDeviceList
  <2> QED
    BY <2>1, <2>2 DEF RmrrInv
<1>16. CASE Done
  BY <1>1, <1>16 DEF Done
<1> QED
  BY <1>1, <1>5, <1>6, <1>7, <1>8, <1>9, <1>10, <1>11, <1>12, <1>13, <1>14, <1>15, <1>16, ProcessRmrrStep DEF Next

(* The invariant about the records says what RmrrComplete asks.            *)
LEMMA RegionsAreRecorded == RmrrInv => RmrrComplete
<1> SUFFICES ASSUME RmrrInv, pc = "policy", printed # <<>>, Clean(dmar)
             PROVE  KnownRegions = UNION {RegionsOf(pci, dmar, n) : n \in {n \in 1..Len(dmar) : dmar[n].type = "RMRR"}}
  <2>1. IsSequence(rmrr) => Range(rmrr) = {rmrr[r] : r \in 1..Len(rmrr)}
    BY SeqIs
  <2> QED
    BY <2>1 DEF RmrrInv, RmrrComplete, Clean, KnownRegions, RegionsIn, RegionsOf
<1>1. RmrrUpTo(dmar, Len(dmar) + 1) = {n \in 1..Len(dmar) : dmar[n].type = "RMRR"}
  BY DEF RmrrUpTo
<1> QED
  BY <1>1 DEF RmrrInv

\* A structure with device scopes whose paths can be counted.
ScopesCount(s) == IsSequence(s.scopes) /\ \A k \in 1..Len(s.scopes) : IsSequence(s.scopes[k].path)

(* LengthUpTo adds the scopes' lengths up one by one.                      *)
LEMMA LengthsAdd ==
  ASSUME NEW s, ScopesCount(s)
  PROVE  /\ LengthUpTo(s, 0) = 0 /\ \A n \in 0..Len(s.scopes) : LengthUpTo(s, n) \in Nat
         /\ \A n \in 1..Len(s.scopes) : LengthUpTo(s, n - 1) < LengthUpTo(s, n)
<1> DEFINE m == Len(s.scopes)
           L(k) == ScopeLength(s.scopes[k])
           base == 0
           move == [n \in 1..m |-> [v \in Nat |-> v + L(n)]]
<1>1. m \in Nat /\ \A k \in 1..m : L(k) \in Nat /\ L(k) > 0
  <2>1. m \in Nat
    BY SeqIs DEF ScopesCount
  <2>2. ASSUME NEW k \in 1..m PROVE L(k) \in Nat /\ L(k) > 0
    <3>1. Len(s.scopes[k].path) \in Nat
      BY SeqIs DEF ScopesCount
    <3> QED
      BY <3>1 DEF ScopeLength
  <2> QED
    BY <2>1, <2>2
<1> HIDE DEF m, L
<1>2. \A n \in 1..m : move[n] \in [Nat -> Nat]
  BY <1>1
<1>3. \A n \in 1..m, v \in Nat : move[n][v] = v + L(n)
  OBVIOUS
<1> HIDE DEF move
<1>4. PICK f : IsRecursion(f, Nat, base, move, m)
  BY <1>1, <1>2, Recursion
<1>5. f \in [0..m -> Nat] /\ f[0] = 0 /\ \A n \in 1..m : f[n] = f[n - 1] + L(n)
  <2>1. f \in [0..m -> Nat] /\ f[0] = 0 /\ \A n \in 1..m : f[n] = move[n][f[n - 1]]
    BY <1>4 DEF IsRecursion
  <2>2. \A n \in 1..m : n - 1 \in 0..m
    BY <1>1
  <2> QED
    BY <1>3, <2>1, <2>2
<1>6. ASSUME NEW n \in 0..m PROVE LengthUpTo(s, n) = f[n]
  <2> DEFINE Is(g) == g = [k \in 0..n |-> IF k = 0 THEN 0 ELSE g[k - 1] + L(k)]
             F == CHOOSE g : Is(g)
             h == [k \in 0..n |-> f[k]]
  <2>1. n \in Nat /\ \A k \in 0..n : k \in 0..m /\ (k # 0 => k \in 1..m /\ k - 1 \in 0..n)
    BY <1>1
  <2>2. Is(h)
    <3>1. \A k \in 0..n : h[k] = IF k = 0 THEN 0 ELSE h[k - 1] + L(k)
      BY <1>5, <2>1
    <3> QED
      BY <3>1
  <2>3. Is(F)
    <3> HIDE DEF Is, h
    <3> QED
      BY <2>2
  <2>4. LengthUpTo(s, n) = F[n]
    BY DEF LengthUpTo, L
  <2> HIDE DEF F, h
  <2>5. \A k \in 0..n : F[k] = IF k = 0 THEN 0 ELSE F[k - 1] + L(k)
    BY <2>3
  <2> HIDE DEF Is
  <2> DEFINE S == {k \in Nat : k <= n => F[k] = f[k]}
  <2>6. 0 \in S
    <3>1. 0 \in 0..n
      BY <2>1
    <3> QED
      BY <1>5, <2>5, <3>1
  <2>7. ASSUME NEW k \in Nat, k \in S PROVE k + 1 \in S
    <3>1. SUFFICES ASSUME k + 1 <= n PROVE F[k + 1] = f[k + 1]
      OBVIOUS
    <3>2. k + 1 \in 0..n /\ k + 1 \in 1..m /\ (k + 1) - 1 = k /\ k + 1 # 0 /\ k <= n
      BY <1>1, <2>1, <3>1
    <3>3. F[k + 1] = F[k] + L(k + 1) /\ f[k + 1] = f[k] + L(k + 1) /\ F[k] = f[k]
      BY <1>5, <2>5, <2>7, <3>2
    <3> QED
      BY <3>3
  <2>8. Nat \subseteq S
    <3> HIDE DEF S
    <3> QED
      BY <2>6, <2>7, Induction
  <2>9. F[n] = f[n]
    BY <2>1, <2>8
  <2> QED
    BY <2>4, <2>9
<1>7. \A n \in 1..m : n \in 0..m /\ n - 1 \in 0..m
  BY <1>1
<1>8. ASSUME NEW n \in 1..m PROVE LengthUpTo(s, n - 1) < LengthUpTo(s, n)
  <2>1. f[n - 1] \in Nat /\ f[n] = f[n - 1] + L(n) /\ L(n) \in Nat /\ L(n) > 0
    BY <1>1, <1>5, <1>7
  <2>2. LengthUpTo(s, n - 1) = f[n - 1] /\ LengthUpTo(s, n) = f[n]
    BY <1>6, <1>7
  <2> QED
    BY <2>1, <2>2
<1>9. 0 \in 0..m
  BY <1>1
<1> QED
  BY <1>5, <1>6, <1>8, <1>9 DEF m

(* Each scope starts before the last one ends.                             *)
LEMMA LengthsGrow ==
  ASSUME NEW s, ScopesCount(s)
  PROVE  \A k \in 1..Len(s.scopes) : LengthUpTo(s, k - 1) < LengthUpTo(s, Len(s.scopes))
<1> DEFINE m == Len(s.scopes)
           L(n) == LengthUpTo(s, n)
           S == {j \in Nat : j <= m => \A k \in 1..j : L(k - 1) < L(j)}
<1>1. m \in Nat
  BY SeqIs DEF ScopesCount
<1>2. (\A n \in 0..m : L(n) \in Nat) /\ \A n \in 1..m : L(n - 1) < L(n)
  BY LengthsAdd
<1> HIDE DEF m, L
<1>3. 0 \in S
  <2>1. 1..0 = {}
    OBVIOUS
  <2> QED
    BY <2>1
<1>4. ASSUME NEW j \in Nat, j \in S PROVE j + 1 \in S
  <2>1. SUFFICES ASSUME j + 1 <= m, NEW k \in 1..(j + 1) PROVE L(k - 1) < L(j + 1)
    OBVIOUS
  <2>2. j + 1 \in 1..m /\ (j + 1) - 1 = j /\ j \in 0..m /\ j + 1 \in 0..m /\ k - 1 \in 0..m /\ j <= m
    BY <1>1, <2>1
  <2>3. L(j) < L(j + 1) /\ L(j) \in Nat /\ L(j + 1) \in Nat /\ L(k - 1) \in Nat
    BY <1>2, <2>2
  <2>4. CASE k = j + 1
    BY <2>2, <2>3, <2>4
  <2>5. CASE k \in 1..j
    <3>1. L(k - 1) < L(j)
      BY <1>4, <2>2, <2>5
    <3> QED
      BY <2>3, <3>1
  <2> QED
    BY <2>1, <2>4, <2>5
<1>5. Nat \subseteq S
  <2> HIDE DEF S
  <2> QED
    BY <1>3, <1>4, Induction
<1>6. \A k \in 1..m : L(k - 1) < L(m)
  BY <1>1, <1>5
<1> QED
  BY <1>6 DEF m, L

\* What is printed of a structure.
PrintedForm(s) ==
  [type |-> s.type,
   scopes |-> [k \in 1..Len(s.scopes) |-> [type |-> s.scopes[k].type, paths |-> Len(s.scopes[k].path)]]]
Printable == {"DRHD", "RMRR", "ATSR", "RHSA", "ANDD"}

(* The loop over the device scopes visits all of them.                     *)
LEMMA DumpScopesIs ==
  ASSUME NEW s, ScopesCount(s), NEW left, left = LengthUpTo(s, Len(s.scopes))
  PROVE  DumpScopes(s, left) = [k \in 1..Len(s.scopes) |-> [type |-> s.scopes[k].type, paths |-> Len(s.scopes[k].path)]]
<1> DEFINE m == Len(s.scopes)
<1>1. m \in Nat
  BY SeqIs DEF ScopesCount
<1>2. /\ \A k \in 1..m : LengthUpTo(s, k - 1) < LengthUpTo(s, m)
      /\ \A n \in 0..m : LengthUpTo(s, n) \in Nat
  BY LengthsAdd, LengthsGrow
<1>3. ASSUME NEW k \in 1..m PROVE left > LengthUpTo(s, k - 1)
  <2>1. k - 1 \in 0..m /\ m \in 0..m
    BY <1>1
  <2> QED
    BY <1>2, <2>1
<1>4. {k \in 1..m : left > LengthUpTo(s, k - 1)} = 1..m
  BY <1>3
<1>5. Cardinality(1..m) = m
  BY <1>1, FS_Interval
<1>6. DumpScopes(s, left) = [k \in 1..m |-> DumpDmarDeviceScopeEntry(s.scopes[k])]
  BY <1>4, <1>5 DEF DumpScopes
<1>7. ASSUME NEW k \in 1..m
      PROVE  DumpDmarDeviceScopeEntry(s.scopes[k]) = [type |-> s.scopes[k].type, paths |-> Len(s.scopes[k].path)]
  <2>1. Len(s.scopes[k].path) \in Nat
    BY SeqIs DEF ScopesCount
  <2>2. (ScopeLength(s.scopes[k]) - 6) \div 2 = Len(s.scopes[k].path)
    <3> DEFINE l == Len(s.scopes[k].path)
    <3>1. ScopeLength(s.scopes[k]) = 6 + 2 * l
      BY DEF ScopeLength
    <3> HIDE DEF l
    <3>2. l \in Nat
      BY <2>1 DEF l
    <3>3. (ScopeLength(s.scopes[k]) - 6) \div 2 = l
      BY <3>1, <3>2
    <3> QED
      BY <3>3 DEF l
  <2> QED
    BY <2>2 DEF DumpDmarDeviceScopeEntry
<1> QED
  BY <1>6, <1>7

(* A structure of a type that is printed gives its form, others nothing.   *)
LEMMA DumpedIs ==
  ASSUME NEW s, ScopesCount(s), s.type \in {"RHSA", "ANDD"} => s.scopes = <<>>
  PROVE  Dumped(s) = IF s.type \in Printable THEN <<PrintedForm(s)>> ELSE <<>>
<1> DEFINE m == Len(s.scopes)
           D == [k \in 1..m |-> [type |-> s.scopes[k].type, paths |-> Len(s.scopes[k].path)]]
           left == LengthUpTo(s, m)
<1>1. left \in Nat
  <2>1. m \in 0..m
    BY SeqIs DEF ScopesCount
  <2> QED
    BY <2>1, LengthsAdd
<1>2. DumpScopes(s, left) = D
  BY DumpScopesIs
<1>3. StructureLength(s) = HeaderSize(s.type) + left
  BY DEF StructureLength
<1>4. PrintedForm(s) = [type |-> s.type, scopes |-> D]
  BY DEF PrintedForm
<1>5. s.type \in {"RHSA", "ANDD"} => D = <<>>
  <2>1. ASSUME s.scopes = <<>> PROVE D = <<>>
    <3>1. m = 0 /\ 1..0 = {}
      BY <2>1
    <3> HIDE DEF m
    <3> QED
      BY <3>1
  <2> QED
    BY <2>1
<1> HIDE DEF D, left
<1>6. CASE s.type = "DRHD"
  <2>1. StructureLength(s) - HeaderSize("DRHD") = left
    BY <1>1, <1>3, <1>6 DEF HeaderSize
  <2> QED
    BY <1>2, <1>4, <1>6, <2>1 DEF Dumped, DumpDmarDrhd, Printable
<1>7. CASE s.type = "RMRR"
  <2>1. StructureLength(s) - HeaderSize("RMRR") = left
    BY <1>1, <1>3, <1>7 DEF HeaderSize
  <2> QED
    BY <1>2, <1>4, <1>7, <2>1 DEF Dumped, DumpDmarRmrr, Printable
<1>8. CASE s.type = "ATSR"
  <2>1. StructureLength(s) - HeaderSize("ATSR") = left
    BY <1>1, <1>3, <1>8 DEF HeaderSize
  <2> QED
    BY <1>2, <1>4, <1>8, <2>1 DEF Dumped, DumpDmarAtsr, Printable
<1>9. CASE s.type = "RHSA"
  BY <1>4, <1>5, <1>9 DEF Dumped, DumpDmarRhsa, Printable
<1>10. CASE s.type = "ANDD"
  BY <1>4, <1>5, <1>10 DEF Dumped, DumpDmarAndd, Printable
<1>11. CASE s.type \notin Printable
  BY <1>11 DEF Dumped, Printable
<1> QED
  BY <1>6, <1>7, <1>8, <1>9, <1>10, <1>11 DEF Printable

(* DumpAcpiDMAR prints the structures of the known types, in the table's   *)
(* order.                                                                  *)
LEMMA DumpAcpiDMARIs ==
  ASSUME dmar \in Dmars
  PROVE  LET known == OfTypes(dmar, Printable, Len(dmar)) IN
         DumpAcpiDMAR = [n \in 1..Len(known) |-> PrintedForm(known[n])]
<1> DEFINE d == dmar
           m == Len(d)
           T == {PrintedForm(d[k]) : k \in 1..m}
           K(n) == [k \in 1..n |-> Dumped(d[k])]
           J(n) == FlattenSeq(K(n))
           O(n) == OfTypes(d, Printable, n)
<1>1. IsSequence(d) /\ m \in Nat
  BY DrhdFacts
<1>2. ASSUME NEW k \in 1..m
      PROVE  Dumped(d[k]) = IF d[k].type \in Printable THEN <<PrintedForm(d[k])>> ELSE <<>>
  <2>1. ScopesCount(d[k]) /\ (d[k].type \in {"RHSA", "ANDD"} => d[k].scopes = <<>>)
    BY DmarAssumption DEF DmarForm, ScopesCount
  <2> QED
    BY <2>1, DumpedIs
<1>3. O(0) = <<>> /\ \A n \in 1..m : O(n) = IF d[n].type \in Printable THEN Append(O(n - 1), d[n]) ELSE O(n - 1)
  <2> DEFINE types == Printable
  <2> HIDE DEF types
  <2>1. OfTypes(d, types, 0) = <<>> /\ \A n \in 1..m : OfTypes(d, types, n) =
          IF d[n].type \in types THEN Append(OfTypes(d, types, n - 1), d[n]) ELSE OfTypes(d, types, n - 1)
    BY <1>1, OfTypesIs
  <2> QED
    BY <2>1 DEF types
<1>4. \A n \in 0..m : IsSequence(O(n))
  <2>1. \A n \in 0..m : OfTypes(d, Printable, n) \in Seq(Range(d))
    BY <1>1, OfTypesIs
  <2> QED
    BY <2>1, SeqOwn
<1> HIDE DEF O, d, T
<1>5. ASSUME NEW n \in 0..m PROVE K(n) \in Seq(Seq(T)) /\ Len(K(n)) = n
  <2>1. ASSUME NEW k \in 1..n PROVE Dumped(d[k]) \in Seq(T)
    <3>1. k \in 1..m
      BY <1>1
    <3>2. PrintedForm(d[k]) \in T
      BY <3>1 DEF T
    <3>3. <<>> \in Seq(T) /\ \A x \in T : <<x>> \in Seq(T)
      OBVIOUS
    <3> QED
      BY <1>2, <3>1, <3>2, <3>3
  <2>2. n \in Nat
    BY <1>1
  <2> QED
    BY <2>1, <2>2
<1>6. ASSUME NEW n \in 1..m PROVE J(n) = J(n - 1) \o Dumped(d[n])
  <2>1. n - 1 \in 0..m /\ n \in 0..m /\ n \in 1..n
    BY <1>1
  <2> DEFINE r == K(n - 1)
             s == K(n)
  <2>2. r \in Seq(Seq(T)) /\ s \in Seq(Seq(T)) /\ Len(r) = n - 1 /\ Len(s) = n /\ Len(s) = Len(r) + 1
    BY <1>5, <2>1
  <2>3. \A k \in 1..(n - 1) : r[k] = s[k]
    OBVIOUS
  <2>4. s[n] = Dumped(d[n])
    BY <2>1
  <2> HIDE DEF r, s
  <2>5. FlattenSeq(s) = FlattenSeq(r) \o s[Len(s)]
    BY <2>2, <2>3, FlattenStep
  <2> QED
    BY <2>2, <2>4, <2>5 DEF r, s
<1>7. J(0) = <<>>
  <2>1. 0 \in 0..m
    BY <1>1
  <2> HIDE DEF K
  <2> QED
    BY <1>5, <2>1, FlattenSeqs
<1>8. \A n \in 0..m : IsSequence(J(n))
  <2> HIDE DEF K
  <2>1. \A n \in 0..m : FlattenSeq(K(n)) \in Seq(T)
    BY <1>5, FlattenSeqs
  <2> QED
    BY <2>1, SeqOwn
<1> HIDE DEF J, K
<1> DEFINE Good(n) == Len(J(n)) = Len(O(n)) /\ \A i \in 1..Len(O(n)) : J(n)[i] = PrintedForm(O(n)[i])
           S == {n \in Nat : n <= m => Good(n)}
<1>9. 0 \in S
  <2>1. Len(J(0)) = 0 /\ Len(O(0)) = 0 /\ 1..0 = {}
    BY <1>3, <1>7
  <2> QED
    BY <2>1
<1>10. ASSUME NEW n \in Nat, n \in S PROVE n + 1 \in S
  <2>1. SUFFICES ASSUME n + 1 <= m PROVE Good(n + 1)
    OBVIOUS
  <2>2. n + 1 \in 1..m /\ (n + 1) - 1 = n /\ n \in 0..m /\ n + 1 \in 0..m /\ n <= m
    BY <1>1, <2>1
  <2> DEFINE x == d[n + 1]
             a == J(n)
             b == J(n + 1)
             u == O(n)
             v == O(n + 1)
             y == PrintedForm(x)
  <2>3. /\ Len(a) = Len(u) /\ \A i \in 1..Len(u) : a[i] = PrintedForm(u[i])
        /\ IsSequence(a) /\ IsSequence(u)
    BY <1>4, <1>8, <1>10, <2>2
  <2>4. b = a \o Dumped(x) /\ v = IF x.type \in Printable THEN Append(u, x) ELSE u
    BY <1>3, <1>6, <2>2
  <2>5. Dumped(x) = IF x.type \in Printable THEN <<y>> ELSE <<>>
    BY <1>2, <2>2
  <2> HIDE DEF a, b, u, v, x, y
  <2>6. Len(u) \in Nat /\ Len(a) \in Nat
    BY <2>3, SeqIs
  <2>7. CASE x.type \in Printable
    <3> DEFINE e == <<y>>
    <3>1. b = a \o e /\ v = Append(u, x)
      BY <2>4, <2>5, <2>7
    <3>2. IsSequence(e) /\ Len(e) = 1 /\ e[1] = y
      BY ShortSeqs
    <3> HIDE DEF e
    <3>0. b = a \o e /\ IsSequence(a) /\ IsSequence(e)
      BY <2>3, <3>1, <3>2
    <3>3. Len(b) = Len(a) + Len(e)
      BY ONLY <3>0, SeqConcat
    <3>4. \A i \in 1..Len(a) : b[i] = a[i]
      BY ONLY <3>0, SeqConcat
    <3>5. \A i \in 1..Len(e) : b[Len(a) + i] = e[i]
      BY ONLY <3>0, SeqConcat
    <3>6. Len(v) = Len(u) + 1 /\ v[Len(u) + 1] = x /\ \A i \in 1..Len(u) : v[i] = u[i]
      BY <2>3, <3>1, SeqAppend
    <3>7. b[Len(a) + 1] = y
      <4>1. 1 \in 1..Len(e)
        BY <3>2
      <4> QED
        BY <3>2, <3>5, <4>1
    <3>8. ASSUME NEW i \in 1..Len(v) PROVE b[i] = PrintedForm(v[i])
      <4>1. CASE i \in 1..Len(u)
        BY <2>3, <3>4, <3>6, <4>1
      <4>2. CASE i = Len(u) + 1
        BY <2>3, <3>6, <3>7, <4>2 DEF y
      <4> QED
        BY <2>6, <3>6, <4>1, <4>2
    <3>9. Len(b) = Len(v)
      BY <2>3, <3>2, <3>3, <3>6
    <3> QED
      BY <3>8, <3>9 DEF b, v
  <2>8. CASE x.type \notin Printable
    <3>1. b = a \o <<>> /\ v = u
      BY <2>4, <2>5, <2>8
    <3>2. b = a
      <4>1. a \in Seq(Range(a))
        BY <2>3 DEF IsSequence
      <4> QED
        BY <3>1, <4>1, ConcatEmptySeq
    <3> QED
      BY <2>3, <3>1, <3>2 DEF b, v
  <2> QED
    BY <2>7, <2>8
<1>11. Good(m)
  <2> HIDE DEF S
  <2>1. Nat \subseteq S
    BY <1>9, <1>10, Induction
  <2> QED
    BY <1>1, <2>1 DEF S
<1>12. DumpAcpiDMAR = J(m)
  BY DEF DumpAcpiDMAR, J, K, d
<1>13. J(m) = [i \in 1..Len(O(m)) |-> PrintedForm(O(m)[i])]
  <2>1. m \in 0..m
    BY <1>1
  <2>2. J(m) = [i \in 1..Len(J(m)) |-> J(m)[i]]
    BY <1>8, <2>1, SeqIs
  <2>3. Len(J(m)) = Len(O(m)) /\ \A i \in 1..Len(O(m)) : J(m)[i] = PrintedForm(O(m)[i])
    BY <1>11
  <2> HIDE DEF m, Good
  <2> QED
    BY <2>2, <2>3
<1> QED
  BY <1>12, <1>13 DEF O, d

\* The table has been printed as soon as it has been found.
PrintInv ==
  /\ pc = "start" => printed = <<>>
  /\ pc # "start" => printed = IF FindAcpiPtr(rsdp) THEN DumpAcpiDMAR ELSE <<>>

(* The table is printed once.                                              *)
LEMMA PrintStep == PrintInv /\ [Next]_vars => PrintInv'
<1> SUFFICES ASSUME PrintInv, [Next]_vars PROVE PrintInv'
  OBVIOUS
<1>1. CASE GetDmarAcpiTable
  BY <1>1 DEF GetDmarAcpiTable, PrintInv, DumpAcpiDMAR
<1>2. ASSUME UNCHANGED Tables, pc' = pc \/ (pc # "start" /\ pc' # "start") PROVE PrintInv'
  BY <1>2 DEF Tables, PrintInv, DumpAcpiDMAR
<1>3. CASE UNCHANGED vars
  BY <1>2, <1>3 DEF vars, Tables
<1>4. CASE ParseDmarAcpiTableDrhd \/ NextDrhd \/ ProcessDhrd \/ ScanPciBusEnd \/ ProcessDhrdEnd
  BY <1>2, <1>4 DEF ParseDmarAcpiTableDrhd, NextDrhd, ProcessDhrd, ScanPciBusEnd, ProcessDhrdEnd
<1>5. CASE ScanPciBus
  BY <1>2, <1>5 DEF ScanPciBus, Fail
<1>6. CASE DeviceScope
  BY <1>2, <1>6 DEF DeviceScope, Fail
<1>7. CASE ProcessRmrr \/ NextRmrr \/ DumpExceptionRecord \/ EndOfPolicy
  BY <1>2, <1>7 DEF ProcessRmrr, NextRmrr, DumpExceptionRecord, EndOfPolicy
<1>8. CASE NoExceptionDeviceList
  BY <1>8 DEF NoExceptionDeviceList, PrintInv, DumpAcpiDMAR
<1> QED
  BY <1>1, <1>3, <1>4, <1>5, <1>6, <1>7, <1>8 DEF Next, Done

(* A list that is missing has no DMAR table.                               *)
LEMMA FindAcpiPtrIs ==
  ASSUME NEW r
  PROVE  FindAcpiPtr(r) <=>
           \E l \in {r.rsdt} \cup (IF r.revision >= 2 THEN {r.xsdt} ELSE {}) : \E k \in 1..Len(l) : l[k] = "DMAR"
<1>1. ASSUME NEW l PROVE ScanTable(l) <=> \E k \in 1..Len(l) : l[k] = "DMAR"
  <2>1. ASSUME l = <<None>>, NEW k \in 1..Len(l), l[k] = "DMAR" PROVE FALSE
    <3>1. k = 1 /\ l[1] = None
      BY <2>1
    <3> QED
      BY <2>1, <3>1 DEF None
  <2> QED
    BY <2>1 DEF ScanTable
<1> QED
  BY <1>1 DEF FindAcpiPtr

(* All of the table is printed, if it is found.                            *)
LEMMA TableIsPrinted == CoreInv /\ PrintInv => TablePrinted
<1> SUFFICES ASSUME CoreInv, PrintInv, pc = "done" PROVE TablePrinted
  BY DEF TablePrinted
<1> DEFINE known == OfTypes(dmar, Printable, Len(dmar))
           found == \E l \in {rsdp.rsdt} \cup (IF rsdp.revision >= 2 THEN {rsdp.xsdt} ELSE {}) : \E k \in 1..Len(l) : l[k] = "DMAR"
<1>1. printed = IF FindAcpiPtr(rsdp) THEN DumpAcpiDMAR ELSE <<>>
  BY DEF PrintInv
<1>2. DumpAcpiDMAR = [n \in 1..Len(known) |-> PrintedForm(known[n])]
  BY DumpAcpiDMARIs DEF CoreInv, PhaseInv
<1>3. FindAcpiPtr(rsdp) <=> found
  BY FindAcpiPtrIs
<1> HIDE DEF found
<1>4. IF found THEN printed = [n \in 1..Len(known) |-> PrintedForm(known[n])] ELSE printed = <<>>
  BY <1>1, <1>2, <1>3
<1> QED
  BY <1>4 DEF TablePrinted, PrintedForm, Printable, found

(* The inductive invariant.                                                *)
VtdUnitsInv == CoreInv /\ PrintInv /\ RmrrInv /\ PolicyInv

(* The invariant holds in every reachable state.                           *)
THEOREM UnitsInvariant == Spec => []VtdUnitsInv
<1>1. Init => VtdUnitsInv
  BY CoreStarts, RmrrStarts, PolicyStarts DEF VtdUnitsInv, PrintInv, Init
<1>2. VtdUnitsInv /\ [Next]_vars => VtdUnitsInv'
  BY CoreStep, PrintStep, RmrrStep, PolicyStep DEF VtdUnitsInv
<1> QED
  BY <1>1, <1>2, PTL DEF Spec

(* What VtdDump knows of the units is always right.                        *)
THEOREM UnitsRightAlways == Spec => []UnitsRight
<1>1. VtdUnitsInv => UnitsRight
  BY TableIsPrinted, UnitsAreExact, UnitsAreDistinct, RecordsAreRight, RegionsAreRecorded DEF VtdUnitsInv, UnitsRight
<1> QED
  BY <1>1, UnitsInvariant, PTL
=============================================================================
