------------------------- MODULE SmmCoreReportProofs -------------------------
(***************************************************************************)
(* Proofs about the SmmCoreDump driver and SmmCoreDumpApp together, for    *)
(* lists of every length.  The records that the data pass writes are found *)
(* again by the walks (Written, Walking); where a walk is in the chain     *)
(* determines what the report holds so far (SystemInv); and on a platform  *)
(* whose image tables agree every address is named right (TableInv).       *)
(***************************************************************************)
EXTENDS SmmCoreDumpSystem, SmmCoreAgentProofs

-----------------------------------------------------------------------------
(* One function laid over another.                                         *)
LEMMA Overlay ==
  ASSUME NEW f, NEW g
  PROVE  /\ DOMAIN Over(f, g) = DOMAIN f \cup DOMAIN g
         /\ \A x \in DOMAIN f : Over(f, g)[x] = f[x]
         /\ \A x \in DOMAIN g : x \notin DOMAIN f => Over(f, g)[x] = g[x]
BY DEF Over

(* The quotient of a multiple.                                             *)
LEMMA Quotient == ASSUME NEW a \in Nat, NEW s \in Nat \ {0} PROVE (a * s) \div s = a
<1> DEFINE q == (a * s) \div s  r == (a * s) % s
<1>1. a * s \in Nat
  BY Product
<1>2. q \in Int /\ r \in 0..s - 1 /\ a * s = s * q + r
  BY <1>1
<1> HIDE DEF q, r
<1>3. s * (a - q) = r
  BY <1>2
<1>4. a - q = 0
  <2>1. a - q \in Int
    BY <1>2
  <2>2. ASSUME a - q >= 1 PROVE FALSE
    <3>1. s * (a - q) >= s
      BY <2>1, <2>2
    <3> QED BY <1>2, <1>3, <3>1
  <2>3. ASSUME a - q <= -1 PROVE FALSE
    <3>1. s * (a - q) <= -s
      BY <2>1, <2>3
    <3> QED BY <1>2, <1>3, <3>1
  <2> QED BY <2>1, <2>2, <2>3
<1> QED BY <1>2, <1>4 DEF q

(* The items of a group are written one behind the other.                  *)
LEMMA GroupWritten ==
  ASSUME NEW record, NEW g, NEW room \in Nat, record.len \in Nat, IsGroup(g), record.len + GroupSize(g) <= room,
         \A o \in DOMAIN record.cells : o \in Nat /\ o < record.len, NEW e, e = EmitGroup(record, g, room)
  PROVE  /\ e.counts = Append(record.counts, Len(g.items))
         /\ e.len = record.len + GroupSize(g)
         /\ \A o \in DOMAIN record.cells : o \in DOMAIN e.cells /\ e.cells[o] = record.cells[o]
         /\ \A o \in DOMAIN e.cells : o \in Nat /\ o < e.len /\ (o \in DOMAIN record.cells \/ record.len <= o)
         /\ \A i \in 1..Len(g.items) :
              LET o == record.len + (i - 1) * g.size IN o \in DOMAIN e.cells /\ e.cells[o] = g.items[i]
<1> DEFINE left == room - record.len  n == Len(g.items)  s == g.size
           fits == \A i \in 1..n : (i - 1) * s < left /\ s <= left - (i - 1) * s
           at == {record.len + (i - 1) * s : i \in 1..n}
           items == [o \in at |-> g.items[((o - record.len) \div s) + 1]]
<1>1. n \in Nat /\ s \in Nat /\ s # 0 /\ left \in Int /\ n * s \in Nat
  BY Product DEF IsGroup
<1>2. n * s <= left
  BY <1>1 DEF GroupSize
<1>3. fits
  <2> HIDE DEF left, n, s
  <2>1. ASSUME NEW i \in 1..n PROVE (i - 1) * s < left /\ s <= left - (i - 1) * s
    <3>1. (i - 1) * s + s <= n * s /\ (i - 1) * s \in Nat
      BY <1>1, ProductGrows
    <3> QED
      BY <1>1, <1>2, <3>1
  <2> QED
    BY <2>1
<1>4. e = [len |-> record.len + n * s, counts |-> Append(record.counts, n), cells |-> Over(record.cells, items)]
  BY <1>3, Zenon DEF EmitGroup
<1> HIDE DEF fits, left, items
<1>5. e.len = record.len + n * s /\ e.counts = Append(record.counts, n) /\ e.cells = Over(record.cells, items)
  BY <1>4
<1>6. DOMAIN items = at /\ \A o \in at : items[o] = g.items[((o - record.len) \div s) + 1]
  BY DEF items
<1>7. \A i \in 1..n : (i - 1) * s + s <= n * s /\ (i - 1) * s \in Nat
  BY <1>1, ProductGrows
<1>8. \A o \in at : o \in Nat /\ record.len <= o /\ o < record.len + n * s
  <2> SUFFICES ASSUME NEW i \in 1..n
               PROVE  LET o == record.len + (i - 1) * s
                      IN  o \in Nat /\ record.len <= o /\ o < record.len + n * s
    OBVIOUS
  <2>1. (i - 1) * s + s <= n * s /\ (i - 1) * s \in Nat
    BY <1>7
  <2> DEFINE x == (i - 1) * s
  <2>2. x \in Nat /\ x + s <= n * s
    BY <2>1
  <2> HIDE DEF x, n, s
  <2>3. LET o == record.len + x IN o \in Nat /\ record.len <= o /\ o < record.len + n * s
    BY <1>1, <2>2
  <2> QED BY <2>3 DEF x, s, n
<1>9. \A i \in 1..n : items[record.len + (i - 1) * s] = g.items[i]
  <2>1. ASSUME NEW i \in 1..n PROVE items[record.len + (i - 1) * s] = g.items[i]
    <3> DEFINE o == record.len + (i - 1) * s
    <3>1. o \in at
      OBVIOUS
    <3>2. o - record.len = (i - 1) * s
      BY <1>7
    <3>3. (o - record.len) \div s + 1 = i
      BY SMTT(30), <1>1, <3>2, Quotient
    <3> QED BY <1>6, <3>1, <3>3
  <2> QED BY <2>1
<1>10. /\ DOMAIN e.cells = DOMAIN record.cells \cup at
       /\ \A o \in DOMAIN record.cells : e.cells[o] = record.cells[o]
       /\ \A o \in at : o \notin DOMAIN record.cells => e.cells[o] = items[o]
  <2> DEFINE c == record.cells  ov == Over(c, items)
  <2>1. /\ DOMAIN ov = DOMAIN c \cup DOMAIN items /\ \A x \in DOMAIN c : ov[x] = c[x]
        /\ \A x \in DOMAIN items : x \notin DOMAIN c => ov[x] = items[x]
    BY Overlay
  <2> HIDE DEF at, ov
  <2>2. e.cells = ov /\ DOMAIN items = at
    BY <1>5, <1>6 DEF ov
  <2> QED BY <2>1, <2>2
<1>11. \A o \in at : o \notin DOMAIN record.cells
  BY <1>8
<1>12. \A i \in 1..n : record.len + (i - 1) * s \in at
  OBVIOUS
<1> HIDE DEF at
<1>13. \A o \in DOMAIN e.cells : o \in Nat /\ o < e.len /\ (o \in DOMAIN record.cells \/ record.len <= o)
  BY <1>1, <1>5, <1>8, <1>10
<1>14. \A i \in 1..n : LET o == record.len + (i - 1) * s IN o \in DOMAIN e.cells /\ e.cells[o] = g.items[i]
  BY <1>9, <1>10, <1>11, <1>12
<1> QED BY <1>5, <1>10, <1>13, <1>14 DEF GroupSize
-----------------------------------------------------------------------------
(* What a record puts in the buffer: its header with Length and counts     *)
(* filled in, and its items; an image has no items.                        *)
Size(r) == IF r.groups = <<>> THEN r.size ELSE RecordSize(r)
Counts(r) == [g \in 1..Len(r.groups) |-> Len(r.groups[g].items)]
Cell(r) == [r.header EXCEPT !.len = Size(r), !.counts = Counts(r)]
ItemAt(r, g, i) == r.size + (IF g = 2 THEN GroupSize(r.groups[1]) ELSE 0) + (i - 1) * r.groups[g].size

IsHeader(h) == \E sig, key, root : h = Header(sig, key, root)
IsPiece(r) == IsHeader(r.header) /\ (IsRecord(r) \/ (r.groups = <<>> /\ r.size \in Nat \ {0}))

Written(m, b, r) ==
  /\ b \in DOMAIN m /\ m[b] = Cell(r)
  /\ \A g \in 1..Len(r.groups) : \A i \in 1..Len(r.groups[g].items) :
       b + ItemAt(r, g, i) \in DOMAIN m /\ m[b + ItemAt(r, g, i)] = r.groups[g].items[i]

Within(m, lo, hi) == \A o \in DOMAIN m : o \in Nat /\ lo <= o /\ o < hi

(* A record lies in the bytes its header counts.                           *)
LEMMA PieceSize == ASSUME NEW r, IsPiece(r) PROVE Size(r) \in Nat /\ Size(r) > 0 /\ Len(r.groups) \in 0..2
<1>1. CASE r.groups = <<>>
  <2>1. Len(r.groups) = 0 /\ Size(r) = r.size
    BY <1>1 DEF Size
  <2>2. r.size \in Nat \ {0}
    BY DEF IsPiece, IsRecord
  <2> QED BY <2>1, <2>2
<1>2. CASE r.groups # <<>>
  <2>1. IsRecord(r) /\ Size(r) = RecordSize(r)
    BY <1>2 DEF IsPiece, Size
  <2> QED BY <2>1, RecordSizeNat DEF IsRecord
<1> QED BY <1>1, <1>2

(* The items of a record lie behind its header and before its end.         *)
LEMMA ItemInside ==
  ASSUME NEW r, IsPiece(r), NEW g \in 1..Len(r.groups), NEW i \in 1..Len(r.groups[g].items)
  PROVE  ItemAt(r, g, i) \in Nat /\ 0 < ItemAt(r, g, i) /\ ItemAt(r, g, i) < Size(r)
<1>1. r.groups # <<>> /\ IsRecord(r) /\ Size(r) = RecordSize(r)
  <2>1. r.groups # <<>>
    OBVIOUS
  <2> QED BY <2>1 DEF IsPiece, Size
<1>2. Len(r.groups) \in {1, 2} /\ r.size \in Nat \ {0} /\ g \in {1, 2}
  BY <1>1 DEF IsRecord
<1>3. IsGroup(r.groups[g]) /\ IsGroup(r.groups[1])
  BY <1>1, <1>2 DEF IsRecord
<1> DEFINE x == (i - 1) * r.groups[g].size  s == r.groups[g].size  n == Len(r.groups[g].items)
<1>4. s \in Nat \ {0} /\ n \in Nat
  BY <1>3 DEF IsGroup
<1>5. x + s <= n * s /\ x \in Nat /\ n * s = GroupSize(r.groups[g])
  BY <1>4, ProductGrows DEF GroupSize
<1>6. GroupSize(r.groups[1]) \in Nat /\ GroupSize(r.groups[g]) \in Nat
  BY <1>3, GroupSizeNat
<1>7. ItemAt(r, g, i) = r.size + (IF g = 2 THEN GroupSize(r.groups[1]) ELSE 0) + x
  BY DEF ItemAt
<1> HIDE DEF x, s, n
<1>8. CASE g = 1
  <2>1. Len(r.groups) = 2 => GroupSize(r.groups[2]) \in Nat
    BY <1>1, GroupSizeNat DEF IsRecord
  <2>2. RecordSize(r) >= r.size + GroupSize(r.groups[1])
    BY <1>2, <1>6, <2>1 DEF RecordSize
  <2>3. ItemAt(r, g, i) = r.size + x
    BY <1>2, <1>5, <1>7, <1>8
  <2>4. x < GroupSize(r.groups[1])
    BY <1>4, <1>5, <1>6, <1>8
  <2> QED BY <1>1, <1>2, <1>5, <1>6, <2>2, <2>3, <2>4, PieceSize
<1>9. CASE g = 2
  <2>1. RecordSize(r) = r.size + GroupSize(r.groups[1]) + GroupSize(r.groups[2])
    BY <1>2, <1>9 DEF RecordSize
  <2>2. ItemAt(r, g, i) = r.size + GroupSize(r.groups[1]) + x
    BY <1>2, <1>5, <1>7, <1>9
  <2>3. x < GroupSize(r.groups[2])
    BY <1>4, <1>5, <1>6, <1>9
  <2> QED BY <1>1, <1>2, <1>5, <1>6, <1>9, <2>1, <2>2, <2>3
<1> QED BY <1>2, <1>8, <1>9

(* Moving a piece of memory moves the records in it.                       *)
LEMMA WrittenAt ==
  ASSUME NEW m, NEW lo \in Nat, NEW hi \in Nat, Within(m, lo, hi), NEW b \in Nat
  PROVE  /\ Within(At(b, m), b + lo, b + hi)
         /\ \A r, o : IsPiece(r) /\ o \in Nat /\ Written(m, o, r) => Written(At(b, m), b + o, r)
<1> DEFINE a == At(b, m)
<1>1. DOMAIN a = {b + c : c \in DOMAIN m} /\ \A o \in DOMAIN a : a[o] = m[o - b]
  BY DEF At
<1>2. \A c \in DOMAIN m : c \in Nat /\ lo <= c /\ c < hi
  BY DEF Within
<1> HIDE DEF a
<1>3. \A c \in DOMAIN m : b + c \in DOMAIN a /\ a[b + c] = m[c]
  BY <1>1, <1>2
<1>4. Within(a, b + lo, b + hi)
  BY <1>1, <1>2 DEF Within
<1>5. ASSUME NEW r, NEW o \in Nat, IsPiece(r), Written(m, o, r) PROVE Written(a, b + o, r)
  <2>1. b + o \in DOMAIN a /\ a[b + o] = Cell(r)
    BY <1>3, <1>5 DEF Written
  <2>2. ASSUME NEW g \in 1..Len(r.groups), NEW i \in 1..Len(r.groups[g].items)
        PROVE  (b + o) + ItemAt(r, g, i) \in DOMAIN a /\ a[(b + o) + ItemAt(r, g, i)] = r.groups[g].items[i]
    <3>1. o + ItemAt(r, g, i) \in DOMAIN m /\ m[o + ItemAt(r, g, i)] = r.groups[g].items[i]
      BY <1>5 DEF Written
    <3>2. ItemAt(r, g, i) \in Nat
      BY <1>5, ItemInside
    <3>3. (b + o) + ItemAt(r, g, i) = b + (o + ItemAt(r, g, i))
      BY <3>2
    <3> QED BY <1>3, <3>1, <3>3
  <2> QED BY <2>1, <2>2 DEF Written
<1> QED BY <1>4, <1>5 DEF a

(* Two pieces of memory one behind the other keep the records of both.     *)
LEMMA WrittenOver ==
  ASSUME NEW m, NEW n, NEW lo \in Nat, NEW mid \in Nat, NEW hi \in Nat, lo <= mid, mid <= hi,
         Within(m, lo, mid), Within(n, mid, hi)
  PROVE  /\ Within(Over(m, n), lo, hi)
         /\ \A r, o : Written(m, o, r) \/ Written(n, o, r) => Written(Over(m, n), o, r)
<1> DEFINE a == Over(m, n)
<1>1. /\ DOMAIN a = DOMAIN m \cup DOMAIN n /\ \A x \in DOMAIN m : a[x] = m[x]
      /\ \A x \in DOMAIN n : x \notin DOMAIN m => a[x] = n[x]
  BY Overlay
<1>2. \A x \in DOMAIN n : x \notin DOMAIN m
  BY DEF Within
<1> HIDE DEF a
<1>3. Within(a, lo, hi)
  BY <1>1 DEF Within
<1>4. ASSUME NEW r, NEW o, Written(m, o, r) PROVE Written(a, o, r)
  BY <1>1, <1>4 DEF Written
<1>5. ASSUME NEW r, NEW o, Written(n, o, r) PROVE Written(a, o, r)
  BY <1>1, <1>2, <1>5 DEF Written
<1> QED BY <1>3, <1>4, <1>5 DEF a

(* The groups of a record, where they belong.                              *)
Filled(r, e) ==
  /\ e.len = RecordSize(r) /\ e.counts = Counts(r)
  /\ \A o \in DOMAIN e.cells : o \in Nat /\ r.size <= o /\ o < e.len
  /\ \A g \in 1..Len(r.groups) : \A i \in 1..Len(r.groups[g].items) :
       ItemAt(r, g, i) \in DOMAIN e.cells /\ e.cells[ItemAt(r, g, i)] = r.groups[g].items[i]

(* The groups of a record are written where they belong.                   *)
LEMMA GroupsWritten ==
  ASSUME NEW r, IsRecord(r), NEW room \in Nat, RecordSize(r) <= room,
         NEW start, start.len = r.size, start.counts = <<>>, start.cells = EmptyMem,
         NEW e, e = EmitGroups(start, r.groups, room)
  PROVE  Filled(r, e)
<1> DEFINE g1 == r.groups[1]  g2 == r.groups[2]
           first == EmitGroup(start, g1, room)
           second == EmitGroup(first, g2, room)
           a == GroupSize(g1)
<1>1. /\ r.size \in Nat \ {0} /\ RecordSize(r) \in Nat /\ a \in Nat /\ IsGroup(g1) /\ Len(r.groups) \in {1, 2}
      /\ (Len(r.groups) = 2 => GroupSize(g2) \in Nat /\ IsGroup(g2))
  BY RecordSizeNat, GroupSizeNat DEF IsRecord
<1>2. RecordSize(r) = r.size + a + IF Len(r.groups) = 1 THEN 0 ELSE GroupSize(g2)
  BY DEF RecordSize
<1>3. start.len = r.size /\ start.counts = <<>> /\ DOMAIN start.cells = {}
  BY DEF EmptyMem
<1>4. e = IF Len(r.groups) = 1 THEN first ELSE second
  BY DEF EmitGroups
<1> HIDE DEF a, g1, g2
<1>5. r.size + a <= room
  BY <1>1, <1>2
<1>6. /\ first.counts = Append(start.counts, Len(g1.items)) /\ first.len = start.len + a
      /\ \A o \in DOMAIN first.cells : o \in Nat /\ o < first.len /\ start.len <= o
      /\ \A i \in 1..Len(g1.items) :
           LET o == start.len + (i - 1) * g1.size IN o \in DOMAIN first.cells /\ first.cells[o] = g1.items[i]
  BY <1>1, <1>3, <1>5, GroupWritten DEF a
<1> HIDE DEF first
<1>7. first.counts = <<Len(g1.items)>> /\ first.len = r.size + a
  BY <1>3, <1>6
<1>8. \A i \in 1..Len(g1.items) :
        ItemAt(r, 1, i) \in DOMAIN first.cells /\ first.cells[ItemAt(r, 1, i)] = g1.items[i]
  <2> SUFFICES ASSUME NEW i \in 1..Len(g1.items)
               PROVE  ItemAt(r, 1, i) \in DOMAIN first.cells /\ first.cells[ItemAt(r, 1, i)] = g1.items[i]
    OBVIOUS
  <2>1. (i - 1) * g1.size \in Nat
    BY <1>1, Product DEF IsGroup
  <2>2. ItemAt(r, 1, i) = start.len + (i - 1) * g1.size
    BY <1>1, <1>3, <2>1 DEF ItemAt, g1
  <2> QED BY <1>6, <2>2
<1>9. CASE Len(r.groups) = 1
  <2>1. Counts(r) = [g \in 1..1 |-> Len(g1.items)]
    BY <1>9 DEF Counts, g1
  <2>2. e = first /\ e.len = RecordSize(r) /\ e.counts = Counts(r)
    BY <1>1, <1>2, <1>4, <1>7, <1>9, <2>1
  <2>3. \A g \in 1..Len(r.groups) : g = 1
    BY <1>9
  <2> QED BY <1>3, <1>6, <1>8, <2>2, <2>3 DEF g1, Filled
<1>10. CASE Len(r.groups) = 2
  <2>1. first.len + GroupSize(g2) <= room /\ first.len \in Nat /\ \A o \in DOMAIN first.cells : o \in Nat /\ o < first.len
    BY <1>1, <1>2, <1>6, <1>7, <1>10
  <2>2. /\ second.counts = Append(first.counts, Len(g2.items)) /\ second.len = first.len + GroupSize(g2)
        /\ \A o \in DOMAIN first.cells : o \in DOMAIN second.cells /\ second.cells[o] = first.cells[o]
        /\ \A o \in DOMAIN second.cells : o \in Nat /\ o < second.len /\ (o \in DOMAIN first.cells \/ first.len <= o)
        /\ \A i \in 1..Len(g2.items) :
             LET o == first.len + (i - 1) * g2.size IN o \in DOMAIN second.cells /\ second.cells[o] = g2.items[i]
    BY <1>1, <1>10, <2>1, GroupWritten
  <2> HIDE DEF second
  <2>3. Counts(r) = [g \in 1..2 |-> IF g = 1 THEN Len(g1.items) ELSE Len(g2.items)]
    BY <1>10 DEF Counts, g1, g2
  <2>4. e = second /\ e.len = RecordSize(r)
    BY <1>1, <1>2, <1>4, <1>7, <1>10, <2>2
  <2>5. e.counts = Counts(r)
    <3>1. Len(g1.items) \in Nat /\ Len(g2.items) \in Nat
      BY <1>1, <1>10 DEF IsGroup
    <3> DEFINE c == second.counts
    <3>2. first.counts \in Seq(Nat) /\ Len(first.counts) = 1 /\ first.counts[1] = Len(g1.items)
      BY <1>7, <3>1
    <3>3. c = Append(first.counts, Len(g2.items))
      BY <2>2
    <3> HIDE DEF c
    <3>4. c \in Seq(Nat) /\ Len(c) = 2 /\ c[1] = Len(g1.items) /\ c[2] = Len(g2.items)
      BY <3>1, <3>2, <3>3
    <3>5. c = [g \in 1..2 |-> c[g]]
      BY <3>4
    <3>6. c = Counts(r)
      BY <2>3, <3>4, <3>5
    <3> QED BY <2>4, <3>6 DEF c
  <2>6. \A o \in DOMAIN second.cells : o \in Nat /\ r.size <= o /\ o < second.len
    BY <1>1, <1>3, <1>6, <1>7, <2>2
  <2>7. \A i \in 1..Len(g1.items) :
          ItemAt(r, 1, i) \in DOMAIN second.cells /\ second.cells[ItemAt(r, 1, i)] = g1.items[i]
    BY <1>8, <2>2
  <2>8. \A i \in 1..Len(g2.items) :
          ItemAt(r, 2, i) \in DOMAIN second.cells /\ second.cells[ItemAt(r, 2, i)] = g2.items[i]
    <3> SUFFICES ASSUME NEW i \in 1..Len(g2.items)
                 PROVE  ItemAt(r, 2, i) \in DOMAIN second.cells /\ second.cells[ItemAt(r, 2, i)] = g2.items[i]
      OBVIOUS
    <3>1. ItemAt(r, 2, i) = first.len + (i - 1) * g2.size
      BY <1>7 DEF ItemAt, a, g1, g2
    <3> QED BY <2>2, <3>1
  <2>9. \A g \in 1..Len(r.groups) : g \in {1, 2}
    BY <1>10
  <2> QED BY <2>4, <2>5, <2>6, <2>7, <2>8, <2>9 DEF g1, g2, Filled
<1> QED BY <1>1, <1>9, <1>10

(* A record with room for it is written behind what was there.             *)
LEMMA RecordWritten ==
  ASSUME NEW section, NEW r, IsPiece(r), IsRecord(r), NEW expected \in Nat, section.ok, section.size \in Nat,
         section.size + RecordSize(r) <= expected, Within(section.mem, 0, section.size),
         NEW e, e = EmitRecord(section, r, expected)
  PROVE  /\ e.ok /\ e.size = section.size + Size(r)
         /\ Within(e.mem, 0, e.size) /\ Written(e.mem, section.size, r)
         /\ \A q, o : Written(section.mem, o, q) => Written(e.mem, o, q)
<1> DEFINE start == [len |-> r.size, counts |-> <<>>, cells |-> EmptyMem]
           room == expected - section.size
           w == EmitGroups(start, r.groups, room)
           top == [o \in {0} |-> [r.header EXCEPT !.len = w.len, !.counts = w.counts]]
           cells == Over(top, w.cells)
           filled == Over(section.mem, At(section.size, cells))
<1>1. room \in Nat /\ RecordSize(r) <= room /\ r.size \in Nat \ {0} /\ RecordSize(r) \in Nat /\ RecordSize(r) >= r.size
  BY RecordSizeNat DEF IsRecord
<1>2. e = [size |-> section.size + w.len, mem |-> filled, ok |-> TRUE]
  <2>1. ~(~section.ok \/ section.size >= expected \/ r.size > expected - section.size)
    BY <1>1
  <2> QED BY <2>1, Zenon DEF EmitRecord
<1>3. Size(r) = RecordSize(r)
  <2>1. r.groups # <<>>
    BY DEF IsRecord
  <2> QED BY <2>1 DEF Size
<1> HIDE DEF room
<1>4. /\ w.len = Size(r) /\ w.counts = Counts(r)
      /\ \A o \in DOMAIN w.cells : o \in Nat /\ r.size <= o /\ o < w.len
      /\ \A g \in 1..Len(r.groups) : \A i \in 1..Len(r.groups[g].items) :
           ItemAt(r, g, i) \in DOMAIN w.cells /\ w.cells[ItemAt(r, g, i)] = r.groups[g].items[i]
  <2>1. start.len = r.size /\ start.counts = <<>> /\ start.cells = EmptyMem /\ w = EmitGroups(start, r.groups, room)
    OBVIOUS
  <2> HIDE DEF w, start
  <2>2. room \in Nat /\ RecordSize(r) <= room /\ IsRecord(r)
    BY <1>1
  <2>3. Filled(r, w)
    BY <2>1, <2>2, GroupsWritten
  <2> QED BY <1>3, <2>3 DEF Filled
<1> HIDE DEF w
<1>5. DOMAIN top = {0} /\ top[0] = Cell(r)
  BY <1>4 DEF Cell
<1> HIDE DEF top
<1>6. /\ DOMAIN cells = {0} \cup DOMAIN w.cells /\ cells[0] = Cell(r)
      /\ \A o \in DOMAIN w.cells : o # 0 => cells[o] = w.cells[o]
  <2> DEFINE c == w.cells
  <2>1. /\ DOMAIN cells = DOMAIN top \cup DOMAIN c /\ \A x \in DOMAIN top : cells[x] = top[x]
        /\ \A x \in DOMAIN c : x \notin DOMAIN top => cells[x] = c[x]
    BY Overlay
  <2> HIDE DEF cells
  <2> QED BY <1>5, <2>1
<1> HIDE DEF cells
<1>7. Within(cells, 0, Size(r))
  <2>1. Size(r) \in Nat /\ Size(r) > 0
    BY PieceSize
  <2> QED BY <1>1, <1>4, <1>6, <2>1 DEF Within
<1>8. Written(cells, 0, r)
  <2>1. ASSUME NEW g \in 1..Len(r.groups), NEW i \in 1..Len(r.groups[g].items)
        PROVE  0 + ItemAt(r, g, i) \in DOMAIN cells /\ cells[0 + ItemAt(r, g, i)] = r.groups[g].items[i]
    <3>1. ItemAt(r, g, i) \in Nat /\ 0 < ItemAt(r, g, i)
      BY ItemInside
    <3>2. 0 + ItemAt(r, g, i) = ItemAt(r, g, i) /\ ItemAt(r, g, i) # 0
      BY <3>1
    <3> QED BY <1>4, <1>6, <3>2
  <2> QED BY <1>6, <2>1 DEF Written
<1>9. /\ Within(At(section.size, cells), section.size, section.size + Size(r))
      /\ Written(At(section.size, cells), section.size, r)
  <2>1. Size(r) \in Nat /\ 0 \in Nat /\ section.size + 0 = section.size
    BY PieceSize
  <2> QED BY <1>7, <1>8, <2>1, WrittenAt
<1>10. /\ Within(filled, 0, section.size + Size(r)) /\ Written(filled, section.size, r)
       /\ \A q, o : Written(section.mem, o, q) => Written(filled, o, q)
  <2> DEFINE n == At(section.size, cells)
  <2>1. 0 <= section.size /\ section.size <= section.size + Size(r) /\ section.size + Size(r) \in Nat
    BY PieceSize
  <2>2. Within(n, section.size, section.size + Size(r)) /\ Written(n, section.size, r)
    BY <1>9
  <2> HIDE DEF n
  <2>3. /\ Within(Over(section.mem, n), 0, section.size + Size(r))
        /\ \A q, o : Written(section.mem, o, q) \/ Written(n, o, q) => Written(Over(section.mem, n), o, q)
    BY <2>1, <2>2, WrittenOver
  <2> QED BY <2>2, <2>3 DEF n
<1> HIDE DEF filled
<1>11. e.ok /\ e.size = section.size + Size(r) /\ e.mem = filled
  BY <1>2, <1>4
<1> QED BY <1>10, <1>11

-----------------------------------------------------------------------------
(* Records one behind the other from lo to hi, and nothing else.           *)
IsChain(m, recs, at, lo, hi) ==
  /\ at \in [1..Len(recs) + 1 -> Nat] /\ at[1] = lo /\ at[Len(recs) + 1] = hi
  /\ \A k \in 1..Len(recs) : at[k + 1] = at[k] + Size(recs[k]) /\ Written(m, at[k], recs[k])

Chain(m, recs, lo, hi) ==
  /\ lo \in Nat /\ hi \in Nat /\ lo <= hi /\ Within(m, lo, hi)
  /\ IsList(recs) /\ \A k \in 1..Len(recs) : IsPiece(recs[k])
  /\ \E at : IsChain(m, recs, at, lo, hi)

(* A chain can be moved.                                                   *)
LEMMA ChainAt ==
  ASSUME NEW m, NEW recs, NEW hi, Chain(m, recs, 0, hi), NEW b \in Nat
  PROVE  Chain(At(b, m), recs, b, b + hi)
<1>1. /\ hi \in Nat /\ Within(m, 0, hi) /\ IsList(recs) /\ \A k \in 1..Len(recs) : IsPiece(recs[k])
  BY DEF Chain
<1>2. PICK at : IsChain(m, recs, at, 0, hi)
  BY DEF Chain
<1> DEFINE n == Len(recs)  a == At(b, m)
           moved == [k \in 1..n + 1 |-> b + at[k]]
<1>3. n \in Nat
  BY <1>1, ListIs
<1>4. /\ Within(a, b, b + hi)
      /\ \A r, o : IsPiece(r) /\ o \in Nat /\ Written(m, o, r) => Written(a, b + o, r)
  <2>1. Within(a, b, b + hi)
    <3> DEFINE z == b + 0
    <3>1. 0 \in Nat /\ z = b
      OBVIOUS
    <3> HIDE DEF z
    <3>2. Within(a, b + 0, b + hi)
      BY <1>1, <3>1, WrittenAt, Zenon
    <3> QED BY <3>1, <3>2 DEF z
  <2>2. \A r, o : IsPiece(r) /\ o \in Nat /\ Written(m, o, r) => Written(a, b + o, r)
    BY <1>1, WrittenAt
  <2> QED BY <2>1, <2>2
<1> HIDE DEF a
<1>5. IsChain(a, recs, moved, b, b + hi)
  <2>1. /\ at \in [1..n + 1 -> Nat] /\ at[1] = 0 /\ at[n + 1] = hi
        /\ \A k \in 1..n : at[k + 1] = at[k] + Size(recs[k]) /\ Written(m, at[k], recs[k])
    BY <1>2 DEF IsChain
  <2>2. \A k \in 1..n : Size(recs[k]) \in Nat /\ k \in 1..n + 1 /\ k + 1 \in 1..n + 1
    BY <1>1, <1>3, PieceSize
  <2>3. moved \in [1..n + 1 -> Nat] /\ moved[1] = b /\ moved[n + 1] = b + hi
    BY <1>3, <2>1
  <2>4. ASSUME NEW k \in 1..n PROVE moved[k + 1] = moved[k] + Size(recs[k]) /\ Written(a, moved[k], recs[k])
    <3>1. moved[k] = b + at[k] /\ moved[k + 1] = b + at[k + 1] /\ at[k] \in Nat
      BY <1>3, <2>1, <2>2
    <3> QED BY <1>1, <1>4, <2>1, <2>2, <3>1
  <2> HIDE DEF moved
  <2> QED BY <2>3, <2>4 DEF IsChain
<1> QED BY <1>1, <1>4, <1>5 DEF Chain, a

(* Lists joined have the elements of both.                                 *)
LEMMA JoinIs ==
  ASSUME NEW s, NEW t, IsList(s), IsList(t)
  PROVE  /\ IsList(s \o t) /\ Len(s) \in Nat /\ Len(t) \in Nat /\ Len(s \o t) = Len(s) + Len(t)
         /\ \A i \in 1..Len(s) : (s \o t)[i] = s[i]
         /\ \A i \in 1..Len(t) : (s \o t)[Len(s) + i] = t[i]
<1> DEFINE S == {s[i] : i \in 1..Len(s)}  T == {t[i] : i \in 1..Len(t)}
<1>1. s \in Seq(S) /\ t \in Seq(T)
  BY DEF IsList
<1> HIDE DEF S, T
<1>2. s \in Seq(S \cup T) /\ t \in Seq(S \cup T)
  BY <1>1
<1> HIDE DEF S, T
<1>3. /\ Len(s) \in Nat /\ Len(t) \in Nat /\ Len(s \o t) = Len(s) + Len(t)
      /\ \A i \in 1..Len(s) + Len(t) : (s \o t)[i] = IF i <= Len(s) THEN s[i] ELSE t[i - Len(s)]
  BY <1>2
<1>4. \A i \in 1..Len(s) : (s \o t)[i] = s[i]
  BY <1>3
<1>5. ASSUME NEW i \in 1..Len(t) PROVE (s \o t)[Len(s) + i] = t[i]
  <2>1. Len(s) + i \in 1..Len(s) + Len(t) /\ ~(Len(s) + i <= Len(s)) /\ (Len(s) + i) - Len(s) = i
    BY <1>3
  <2> QED BY <1>3, <2>1
<1> QED BY <1>3, <1>4, <1>5, ListsJoin

(* Two chains one behind the other are one.                                *)
LEMMA ChainJoin ==
  ASSUME NEW m, NEW n, NEW r, NEW q, NEW lo, NEW mid, NEW hi, Chain(m, r, lo, mid), Chain(n, q, mid, hi)
  PROVE  Chain(Over(m, n), r \o q, lo, hi)
<1> DEFINE x == Len(r)  y == Len(q)  rq == r \o q  a == Over(m, n)
<1>1. /\ lo \in Nat /\ mid \in Nat /\ hi \in Nat /\ lo <= mid /\ mid <= hi
      /\ Within(m, lo, mid) /\ Within(n, mid, hi) /\ IsList(r) /\ IsList(q)
      /\ (\A k \in 1..x : IsPiece(r[k])) /\ (\A k \in 1..y : IsPiece(q[k]))
  BY DEF Chain
<1>2. PICK at : IsChain(m, r, at, lo, mid)
  BY DEF Chain
<1>3. PICK bt : IsChain(n, q, bt, mid, hi)
  BY DEF Chain
<1>4. /\ IsList(rq) /\ x \in Nat /\ y \in Nat /\ Len(rq) = x + y
      /\ \A i \in 1..x : rq[i] = r[i]
      /\ \A i \in 1..y : rq[x + i] = q[i]
  BY <1>1, JoinIs
<1>5. /\ Within(a, lo, hi)
      /\ \A p, o : Written(m, o, p) \/ Written(n, o, p) => Written(a, o, p)
  BY <1>1, WrittenOver
<1>6. /\ at \in [1..x + 1 -> Nat] /\ at[1] = lo /\ at[x + 1] = mid
      /\ \A k \in 1..x : at[k + 1] = at[k] + Size(r[k]) /\ Written(m, at[k], r[k])
  BY <1>2 DEF IsChain
<1>7. /\ bt \in [1..y + 1 -> Nat] /\ bt[1] = mid /\ bt[y + 1] = hi
      /\ \A k \in 1..y : bt[k + 1] = bt[k] + Size(q[k]) /\ Written(n, bt[k], q[k])
  BY <1>3 DEF IsChain
<1> HIDE DEF a, rq, x, y
<1> DEFINE ct == [k \in 1..(x + y) + 1 |-> IF k <= x THEN at[k] ELSE bt[k - x]]
<1>8. ct \in [1..(x + y) + 1 -> Nat]
  <2>1. ASSUME NEW k \in 1..(x + y) + 1 PROVE (IF k <= x THEN at[k] ELSE bt[k - x]) \in Nat
    <3>1. CASE k <= x
      <4>1. k \in 1..x + 1
        BY <1>4, <3>1
      <4> QED BY <1>6, <3>1, <4>1
    <3>2. CASE ~(k <= x)
      <4>1. k - x \in 1..y + 1
        BY <1>4, <3>2
      <4> QED BY <1>7, <3>2, <4>1
    <3> QED BY <3>1, <3>2
  <2> QED BY <2>1
<1>9. ct[1] = lo /\ ct[(x + y) + 1] = hi
  <2>1. 1 \in 1..(x + y) + 1 /\ (x + y) + 1 \in 1..(x + y) + 1 /\ ~((x + y) + 1 <= x) /\ ((x + y) + 1) - x = y + 1
    BY <1>4
  <2>2. ct[(x + y) + 1] = hi
    BY <1>7, <2>1
  <2>3. CASE x = 0
    <3>1. ~(1 <= x) /\ 1 - x = 1 /\ x + 1 = 1
      BY <2>3
    <3> QED BY <1>6, <1>7, <2>1, <2>2, <3>1
  <2>4. CASE x # 0
    <3>1. 1 <= x
      BY <1>4, <2>4
    <3> QED BY <1>6, <2>1, <2>2, <3>1
  <2> QED BY <2>3, <2>4
<1>10. ASSUME NEW k \in 1..x + y
       PROVE  ct[k + 1] = ct[k] + Size(rq[k]) /\ Written(a, ct[k], rq[k])
  <2>1. k \in 1..(x + y) + 1 /\ k + 1 \in 1..(x + y) + 1
    BY <1>4
  <2>2. CASE k <= x
    <3>1. k \in 1..x /\ rq[k] = r[k]
      BY <1>4, <2>2
    <3>2. ct[k] = at[k]
      BY <2>1, <2>2
    <3>3. ct[k + 1] = at[k + 1]
      <4>1. CASE k + 1 <= x
        BY <2>1, <4>1
      <4>2. CASE ~(k + 1 <= x)
        <5>1. k = x /\ (k + 1) - x = 1
          BY <1>4, <2>2, <4>2
        <5> QED BY <1>6, <1>7, <2>1, <4>2, <5>1
      <4> QED BY <4>1, <4>2
    <3> QED BY <1>5, <1>6, <3>1, <3>2, <3>3
  <2>3. CASE ~(k <= x)
    <3> DEFINE j == k - x
    <3>1. j \in 1..y /\ x + j = k /\ (k + 1) - x = j + 1 /\ ~(k + 1 <= x)
      BY <1>4, <2>3
    <3>2. rq[k] = q[j] /\ ct[k] = bt[j] /\ ct[k + 1] = bt[j + 1]
      BY <1>4, <2>1, <2>3, <3>1
    <3> QED BY <1>5, <1>7, <3>1, <3>2
  <2> QED BY <2>2, <2>3
<1> HIDE DEF ct
<1>11. IsChain(a, rq, ct, lo, hi)
  BY <1>4, <1>8, <1>9, <1>10 DEF IsChain
<1>12. \A k \in 1..x + y : IsPiece(rq[k])
  <2>1. ASSUME NEW k \in 1..x + y PROVE IsPiece(rq[k])
    <3>1. CASE k <= x
      BY <1>1, <1>4, <3>1 DEF x
    <3>2. CASE ~(k <= x)
      <4>1. k - x \in 1..y /\ x + (k - x) = k
        BY <1>4, <3>2
      <4> QED BY <1>1, <1>4, <4>1 DEF y
    <3> QED BY <3>1, <3>2
  <2> QED BY <2>1
<1> QED BY <1>1, <1>4, <1>5, <1>11, <1>12 DEF Chain, a, rq

-----------------------------------------------------------------------------
(* A section that is allocated what its records measure is their chain.    *)
LEMMA SectionChain ==
  ASSUME NEW records, NEW size, Measured(records, size), IsList(records),
         \A k \in 1..Len(records) : IsPiece(records[k]), NEW section, section = Section(records, size)
  PROVE  section.ok /\ section.size = size /\ Chain(section.mem, records, 0, size)
<1>1. PICK bytes \in Seq(Nat) : /\ Len(bytes) = Len(records) /\ size = SumOf(bytes)
                               /\ \A n \in 1..Len(records) : bytes[n] = RecordSize(records[n])
  BY DEF Measured
<1> DEFINE t == Sections(records, size)  u == Sums(bytes)  m == Len(records)
           Ahead(n) == /\ t[n].ok /\ t[n].size = u[n] /\ Within(t[n].mem, 0, u[n])
                       /\ \A k \in 1..n : Written(t[n].mem, u[k - 1], records[k])
           S == {n \in Nat : n <= m => Ahead(n)}
<1>2. m \in Nat /\ \A n \in 1..m : IsRecord(records[n]) /\ IsPiece(records[n]) /\ Size(records[n]) = RecordSize(records[n])
  <2>1. m \in Nat /\ \A n \in 1..m : IsRecord(records[n])
    BY DEF Measured
  <2>2. \A n \in 1..m : records[n].groups # <<>>
    BY <2>1 DEF IsRecord
  <2> QED BY <2>1, <2>2 DEF Size
<1>3. u[0] = 0 /\ \A n \in 1..m : u[n] = u[n - 1] + Size(records[n])
  BY <1>1, <1>2, SumsAre
<1>4. (\A n \in 0..m : u[n] \in Nat /\ u[n] <= size) /\ size = u[m]
  BY <1>1, SumsGrow DEF SumOf
<1>5. t[0] = Section0 /\ \A n \in 1..m : t[n] = EmitRecord(t[n - 1], records[n], size)
  BY <1>2, SectionsAre
<1>6. section = t[m]
  BY DEF Section
<1> HIDE DEF t, u, m
<1>7. 0 \in S
  <2>1. Within(t[0].mem, 0, u[0])
    BY <1>3, <1>5 DEF Section0, EmptyMem, Within
  <2> QED BY <1>3, <1>5, <2>1 DEF Section0
<1>8. ASSUME NEW n \in Nat, n \in S PROVE n + 1 \in S
  <2>1. SUFFICES ASSUME n + 1 <= m PROVE Ahead(n + 1)
    OBVIOUS
  <2>2. n + 1 \in 1..m /\ n <= m /\ (n + 1) - 1 = n /\ n \in 0..m /\ n + 1 \in 0..m
    BY <1>2, <2>1
  <2>3. Ahead(n)
    BY <1>8, <2>2
  <2> DEFINE r == records[n + 1]  e == t[n + 1]  s == t[n]
  <2>4. e = EmitRecord(s, r, size) /\ u[n + 1] = u[n] + Size(r) /\ IsRecord(r) /\ IsPiece(r) /\ Size(r) = RecordSize(r)
    BY <1>2, <1>3, <1>5, <2>2
  <2>5. s.ok /\ s.size = u[n] /\ u[n] \in Nat /\ u[n + 1] \in Nat /\ u[n + 1] <= size /\ size \in Nat
    BY <1>2, <1>4, <2>2, <2>3
  <2>6. Within(s.mem, 0, s.size) /\ s.size \in Nat /\ s.size + RecordSize(r) <= size
    BY <2>3, <2>4, <2>5
  <2>7. \A k \in 1..n : Written(s.mem, u[k - 1], records[k])
    BY <2>3
  <2> HIDE DEF r, e, s, Ahead
  <2>8. /\ e.ok /\ e.size = s.size + Size(r) /\ Within(e.mem, 0, e.size) /\ Written(e.mem, s.size, r)
        /\ \A q, o : Written(s.mem, o, q) => Written(e.mem, o, q)
    BY <2>4, <2>5, <2>6, RecordWritten
  <2>9. \A k \in 1..n + 1 : Written(e.mem, u[k - 1], records[k])
    <3>1. ASSUME NEW k \in 1..n + 1 PROVE Written(e.mem, u[k - 1], records[k])
      <4>1. CASE k = n + 1
        <5>1. u[k - 1] = s.size /\ records[k] = r
          BY <2>2, <2>5, <4>1 DEF r
        <5> QED BY <2>8, <5>1
      <4>2. CASE k # n + 1
        <5>1. k \in 1..n
          BY <4>2
        <5> QED BY <2>7, <2>8, <5>1
      <4> QED BY <4>1, <4>2
    <3> QED BY <3>1
  <2>10. e.ok /\ e.size = u[n + 1] /\ Within(e.mem, 0, u[n + 1])
    BY <2>4, <2>5, <2>8
  <2> QED BY <2>9, <2>10 DEF Ahead, e
<1>9. Nat \subseteq S
  <2> HIDE DEF S
  <2> QED
    BY <1>7, <1>8, Induction
<1>10. Ahead(m)
  BY <1>2, <1>9
<1> DEFINE at == [k \in 1..m + 1 |-> u[k - 1]]
<1>11. IsChain(section.mem, records, at, 0, size)
  <2>1. \A k \in 1..m + 1 : k - 1 \in 0..m
    BY <1>2
  <2>2. at \in [1..m + 1 -> Nat]
    BY <1>4, <2>1
  <2>3. at[1] = 0 /\ at[m + 1] = size
    BY <1>2, <1>3, <1>4
  <2>4. ASSUME NEW k \in 1..m PROVE at[k + 1] = at[k] + Size(records[k]) /\ Written(section.mem, at[k], records[k])
    <3>1. k \in 1..m + 1 /\ k + 1 \in 1..m + 1 /\ (k + 1) - 1 = k
      BY <1>2
    <3>2. at[k] = u[k - 1] /\ at[k + 1] = u[k]
      BY <3>1
    <3> HIDE DEF at
    <3> QED BY <1>3, <1>6, <1>10, <3>2
  <2> HIDE DEF at
  <2> QED BY <2>2, <2>3, <2>4 DEF IsChain, m
<1> HIDE DEF at
<1>12. size \in Nat /\ Within(section.mem, 0, size) /\ section.ok /\ section.size = size
  BY <1>2, <1>4, <1>6, <1>10
<1> QED BY <1>11, <1>12 DEF Chain

(* So is a section of one record.                                          *)
LEMMA OneChain ==
  ASSUME NEW r, IsPiece(r), IsRecord(r), NEW section, section = EmitRecord(Section0, r, RecordSize(r))
  PROVE  section.size = RecordSize(r) /\ section.ok /\ Chain(section.mem, <<r>>, 0, RecordSize(r))
<1> DEFINE size == RecordSize(r)  recs == <<r>>  at == [k \in 1..2 |-> IF k = 1 THEN 0 ELSE size]
<1>1. size \in Nat /\ Size(r) = size /\ Size(r) > 0
  <2>1. r.groups # <<>>
    BY DEF IsRecord
  <2> QED BY <2>1, PieceSize DEF Size
<1>2. Section0.ok /\ Section0.size = 0 /\ Within(Section0.mem, 0, 0)
  BY DEF Section0, EmptyMem, Within
<1> HIDE DEF size
<1>3. Section0.size + RecordSize(r) <= size /\ Section0.size \in Nat /\ section = EmitRecord(Section0, r, size)
  BY <1>1, <1>2 DEF size
<1>4. /\ section.ok /\ section.size = Section0.size + Size(r)
      /\ Within(section.mem, 0, section.size) /\ Written(section.mem, Section0.size, r)
  BY <1>1, <1>2, <1>3, RecordWritten
<1>5. Len(recs) = 1 /\ recs[1] = r /\ IsList(recs)
  <2>1. recs \in Seq({r}) /\ Len(recs) = 1 /\ recs[1] = r
    OBVIOUS
  <2> HIDE DEF recs
  <2> QED BY <2>1, SeqIsList
<1> HIDE DEF recs
<1>6. IsChain(section.mem, recs, at, 0, size)
  <2>1. at \in [1..2 -> Nat] /\ at[1] = 0 /\ at[2] = size
    BY <1>1
  <2> HIDE DEF at
  <2>2. at[1 + 1] = at[1] + Size(recs[1]) /\ Written(section.mem, at[1], recs[1])
    BY <1>1, <1>2, <1>4, <1>5, <2>1
  <2>3. Len(recs) + 1 = 2 /\ \A k \in 1..Len(recs) : k = 1
    BY <1>5
  <2> QED BY <2>1, <2>2, <2>3 DEF IsChain
<1> HIDE DEF at
<1>7. Within(section.mem, 0, size) /\ section.size = size
  BY <1>1, <1>2, <1>4
<1>8. Chain(section.mem, recs, 0, size)
  <2>1. \A k \in 1..Len(recs) : IsPiece(recs[k])
    BY <1>5
  <2> QED BY <1>1, <1>5, <1>6, <1>7, <2>1 DEF Chain
<1> QED BY <1>4, <1>7, <1>8 DEF size, recs

-----------------------------------------------------------------------------
(* An image of the table is a record without items.                        *)
ImageRecord(image) == Record(Header("SCID", image, FALSE), SizeOf.image, <<>>)
ImageRecords(imgs) == [i \in 1..Len(imgs) |-> ImageRecord(imgs[i])]

(* A field that gets its own value.                                        *)
LEMMA Same ==
  ASSUME NEW a, a = [x \in DOMAIN a |-> a[x]], NEW c, a.counts = c
  PROVE  [a EXCEPT !.counts = c] = a
OBVIOUS

(* What an image writes.                                                   *)
LEMMA ImagePiece ==
  ASSUME NEW image
  PROVE  /\ IsPiece(ImageRecord(image)) /\ Size(ImageRecord(image)) = 132 /\ ImageRecord(image).groups = <<>>
         /\ Cell(ImageRecord(image)) = [Header("SCID", image, FALSE) EXCEPT !.len = SizeOf.image]
<1> DEFINE h == Header("SCID", image, FALSE)  r == ImageRecord(image)
<1>1. IsHeader(h)
  BY DEF IsHeader
<1>2. h = [sig |-> "SCID", key |-> image, root |-> FALSE, len |-> 0, counts |-> <<>>]
  BY DEF Header
<1>3. r.header = h /\ r.size = 132 /\ r.groups = <<>>
  BY SizesAre DEF ImageRecord, Record
<1> HIDE DEF r, h
<1>4. Size(r) = 132 /\ Counts(r) = <<>>
  BY <1>3 DEF Size, Counts
<1>5. [h EXCEPT !.len = 132, !.counts = <<>>] = [h EXCEPT !.len = 132]
  <2> DEFINE a == [h EXCEPT !.len = 132]
  <2>1. h.counts = <<>>
    BY <1>2
  <2>2. a = [x \in DOMAIN a |-> a[x]] /\ a.counts = <<>>
    BY <2>1
  <2>3. [a EXCEPT !.counts = <<>>] = a
    <3> HIDE DEF a
    <3> QED BY <2>2, Same
  <2> QED BY <2>3
<1>6. Cell(r) = [h EXCEPT !.len = SizeOf.image]
  BY <1>3, <1>4, <1>5, SizesAre DEF Cell
<1>7. IsPiece(r)
  BY <1>1, <1>3 DEF IsPiece
<1> QED BY <1>3, <1>4, <1>6, <1>7 DEF r, h

(* The section of the images is their chain.                               *)
LEMMA ImageChain ==
  ASSUME NEW imgs, IsList(imgs), NEW size, size = GetSmmImageDatabaseSize(imgs),
         NEW data, data = GetSmmImageDatabaseData(imgs, size)
  PROVE  Chain(data.mem, ImageRecords(imgs), 0, size)
<1> DEFINE n == Len(imgs)  recs == ImageRecords(imgs)  m == data.mem
           at == [k \in 1..n + 1 |-> 132 * (k - 1)]
           offsets == {132 * (i - 1) : i \in 1..n}
           Struct(i) == [Header("SCID", imgs[i], FALSE) EXCEPT !.len = SizeOf.image]
<1>1. n \in Nat /\ size = 132 * n /\ size \in Nat
  BY ListIs, SizesAre DEF GetSmmImageDatabaseSize
<1>2. size \div SizeOf.image = Len(imgs)
  BY <1>1, SizesAre
<1>3. m = [o \in offsets |-> Struct((o \div 132) + 1)]
  BY <1>2, SizesAre DEF GetSmmImageDatabaseData
<1>4. \A i \in 1..n : (132 * (i - 1)) \div 132 + 1 = i /\ 132 * (i - 1) \in Nat
  BY <1>1
<1>5. recs \in [1..n -> {ImageRecord(imgs[i]) : i \in 1..n}] /\ \A i \in 1..n : recs[i] = ImageRecord(imgs[i])
  BY DEF ImageRecords
<1>6. IsList(recs) /\ Len(recs) = n
  <2> HIDE DEF recs
  <2> QED BY <1>1, <1>5, FunctionIsSeq, SeqIsList
<1>7. \A i \in 1..n : IsPiece(recs[i]) /\ Size(recs[i]) = 132 /\ recs[i].groups = <<>> /\ Cell(recs[i]) = Struct(i)
  <2>1. ASSUME NEW i \in 1..n
        PROVE  IsPiece(recs[i]) /\ Size(recs[i]) = 132 /\ recs[i].groups = <<>> /\ Cell(recs[i]) = Struct(i)
    <3>1. recs[i] = ImageRecord(imgs[i])
      BY <1>5
    <3>2. /\ IsPiece(ImageRecord(imgs[i])) /\ Size(ImageRecord(imgs[i])) = 132 /\ ImageRecord(imgs[i]).groups = <<>>
          /\ Cell(ImageRecord(imgs[i])) = Struct(i)
      BY ImagePiece
    <3> HIDE DEF recs, Struct
    <3> QED BY <3>1, <3>2
  <2> QED BY <2>1
<1> HIDE DEF recs, Struct, m
<1>8. \A i \in 1..n : 132 * (i - 1) \in DOMAIN m /\ m[132 * (i - 1)] = Struct(i)
  BY <1>3, <1>4
<1>9. Within(m, 0, size)
  <2>1. \A i \in 1..n : 132 * (i - 1) \in Nat /\ 0 <= 132 * (i - 1) /\ 132 * (i - 1) < size
    BY <1>1
  <2>2. DOMAIN m = offsets
    BY <1>3
  <2> QED BY <2>1, <2>2 DEF Within
<1>10. IsChain(m, recs, at, 0, size)
  <2>1. at \in [1..n + 1 -> Nat] /\ at[1] = 0 /\ at[n + 1] = size
    BY <1>1
  <2>2. ASSUME NEW k \in 1..n PROVE at[k + 1] = at[k] + Size(recs[k]) /\ Written(m, at[k], recs[k])
    <3>1. at[k] = 132 * (k - 1) /\ at[k + 1] = at[k] + 132
      BY <1>1
    <3> HIDE DEF at
    <3>2. Len(recs[k].groups) = 0
      BY <1>7
    <3>3. Written(m, at[k], recs[k])
      BY <1>7, <1>8, <3>1, <3>2 DEF Written
    <3> QED BY <1>7, <3>1, <3>3
  <2> HIDE DEF at
  <2> QED BY <1>6, <2>1, <2>2 DEF IsChain
<1> HIDE DEF at
<1> QED BY <1>1, <1>6, <1>7, <1>9, <1>10 DEF Chain, m, recs

(* Nothing is the chain of no records.                                     *)
LEMMA NoChain == ASSUME NEW b \in Nat PROVE Chain(EmptyMem, <<>>, b, b)
<1> DEFINE at == [k \in 1..1 |-> b]
<1>1. IsChain(EmptyMem, <<>>, at, b, b)
  <2>1. at \in [1..1 -> Nat] /\ at[1] = b
    OBVIOUS
  <2> HIDE DEF at
  <2>2. Len(<<>>) + 1 = 1 /\ 1..Len(<<>>) = {}
    OBVIOUS
  <2> QED BY <2>1, <2>2 DEF IsChain
<1> HIDE DEF at
<1>2. IsList(<<>>) /\ Within(EmptyMem, b, b)
  BY DEF IsList, EmptyMem, Within
<1>3. \A k \in 1..Len(<<>>) : IsPiece(<<>>[k])
  OBVIOUS
<1> QED BY <1>1, <1>2, <1>3 DEF Chain

(* The record of the child callbacks.                                      *)
LEMMA ChildRecordIs ==
  ASSUME NEW imgs, NEW child, Len(child.callbacks) \in Nat
  PROVE  /\ IsRecord(ChildRecord(imgs, child))
         /\ RecordSize(ChildRecord(imgs, child)) = SizeOf.child + Len(child.callbacks) * SizeOf.childSw
<1> DEFINE header == Header("CDSD", SwGuid, FALSE)  items == AddressItems(imgs, child.callbacks)
<1>1. SizeOf.child = 36 /\ SizeOf.childSw = 32
  BY DEF SizeOf
<1>2. ChildRecord(imgs, child) = Record(header, 36, <<Group(items, 32)>>)
  BY <1>1 DEF ChildRecord
<1>3. Len(items) \in Nat /\ Len(items) = Len(child.callbacks)
  BY ItemsAre
<1> HIDE DEF header, items
<1>4. IsRecord(Record(header, 36, <<Group(items, 32)>>)) /\ RecordSize(Record(header, 36, <<Group(items, 32)>>)) = 36 + Len(items) * 32
  <2>1. 36 \in Nat \ {0} /\ 32 \in Nat \ {0}
    OBVIOUS
  <2> QED BY <1>3, <2>1, OneGroup
<1> QED BY <1>1, <1>2, <1>3, <1>4

-----------------------------------------------------------------------------
(* The records of the whole database, in the order in which it holds them. *)
ChildRecords(imgs, child) == IF child.lib = "Null" THEN <<>> ELSE <<ChildRecord(imgs, child)>>

RestRecords(imgs, c, child) ==
  HandleRecords(imgs, c.handles) \o (ProtocolRecords(imgs, UpToOwn(c.protocols)) \o
  (SmiRecords(imgs, c.smis) \o (<<RootRecord(imgs, c.roots)>> \o ChildRecords(imgs, child))))

AllRecords(imgs, c, child) == ImageRecords(imgs) \o RestRecords(imgs, c, child)

(* Lists that the passes can follow.                                       *)
Followed(imgs, c, child) ==
  /\ IsList(imgs)
  /\ Len(c.handles) \in Nat /\ \A i \in 1..Len(c.handles) : Len(c.handles[i].interfaces) \in Nat
  /\ Len(UpToOwn(c.protocols)) \in Nat
  /\ \A i \in 1..Len(UpToOwn(c.protocols)) :
       Len(UpToOwn(c.protocols)[i].interfaces) \in Nat /\ Len(UpToOwn(c.protocols)[i].notifies) \in Nat
  /\ Len(c.smis) \in Nat /\ \A i \in 1..Len(c.smis) : Len(c.smis[i].handlers) \in Nat
  /\ Len(c.roots) \in Nat /\ Len(child.callbacks) \in Nat

(* What is built from a list is a list.                                    *)
LEMMA BuiltIsList == ASSUME NEW n \in Nat, NEW T, NEW f \in [1..n -> T] PROVE IsList(f) /\ Len(f) = n
BY FunctionIsSeq, SeqIsList

(* The header of each record is one.                                       *)
LEMMA RecordHeaders ==
  ASSUME NEW imgs, NEW x
  PROVE  /\ IsHeader(HandleRecord(imgs, x).header) /\ IsHeader(ProtocolRecord(imgs, x).header)
         /\ IsHeader(SmiRecord(imgs, x).header) /\ IsHeader(RootRecord(imgs, x).header)
         /\ IsHeader(ChildRecord(imgs, x).header)
<1>1. HandleRecord(imgs, x).header = Header("SCHD", x.id, FALSE)
  BY DEF HandleRecord, Record
<1>2. ProtocolRecord(imgs, x).header = Header("SCPD", x.guid, FALSE)
  BY DEF ProtocolRecord, Record
<1>3. SmiRecord(imgs, x).header = Header("SCSD", x.type, FALSE)
  BY DEF SmiRecord, Record
<1>4. RootRecord(imgs, x).header = Header("SCSD", "zero", TRUE)
  BY DEF RootRecord, Record
<1>5. ChildRecord(imgs, x).header = Header("CDSD", SwGuid, FALSE)
  BY DEF ChildRecord, Record
<1>6. \A sig, key, root : IsHeader(Header(sig, key, root))
  BY DEF IsHeader
<1> QED BY <1>1, <1>2, <1>3, <1>4, <1>5, <1>6, Zenon

(* The sections of the handles, the protocols and the SMI entries.         *)
LEMMA HandleChain ==
  ASSUME NEW imgs, NEW handles, Len(handles) \in Nat, \A i \in 1..Len(handles) : Len(handles[i].interfaces) \in Nat,
         NEW size, size = GetSmmHandlerDatabaseSize(handles)
  PROVE  Chain(GetSmmHandlerDatabaseData(imgs, handles, size).mem, HandleRecords(imgs, handles), 0, size)
<1> DEFINE recs == HandleRecords(imgs, handles)  n == Len(handles)  section == Section(recs, size)
<1>1. IsList(recs) /\ Len(recs) = n /\ \A i \in 1..n : recs[i] = HandleRecord(imgs, handles[i])
  <2>1. recs \in [1..n -> {HandleRecord(imgs, handles[i]) : i \in 1..n}] /\ \A i \in 1..n : recs[i] = HandleRecord(imgs, handles[i])
    BY DEF HandleRecords
  <2> HIDE DEF recs
  <2> QED BY <2>1, BuiltIsList
<1>2. Measured(recs, size)
  BY HandlesMeasured
<1>3. \A i \in 1..n : IsPiece(recs[i])
  BY <1>1, <1>2, RecordHeaders DEF IsPiece, Measured
<1>4. GetSmmHandlerDatabaseData(imgs, handles, size).mem = section.mem
  BY DEF GetSmmHandlerDatabaseData, Closed
<1> HIDE DEF recs, section
<1>5. Chain(section.mem, recs, 0, size)
  BY <1>1, <1>2, <1>3, SectionChain DEF section
<1> QED BY <1>4, <1>5 DEF recs

(* That of the protocols.                                                  *)
LEMMA ProtocolChain ==
  ASSUME NEW imgs, NEW all, NEW protocols, protocols = UpToOwn(all), Len(protocols) \in Nat,
         \A i \in 1..Len(protocols) : Len(protocols[i].interfaces) \in Nat /\ Len(protocols[i].notifies) \in Nat,
         NEW size, size = GetSmmProtocolDatabaseSize(all)
  PROVE  Chain(GetSmmProtocolDatabaseData(imgs, all, size).mem, ProtocolRecords(imgs, protocols), 0, size)
<1> DEFINE recs == ProtocolRecords(imgs, protocols)  n == Len(protocols)  section == Section(recs, size)
<1>1. IsList(recs) /\ Len(recs) = n /\ \A i \in 1..n : recs[i] = ProtocolRecord(imgs, protocols[i])
  <2>1. recs \in [1..n -> {ProtocolRecord(imgs, protocols[i]) : i \in 1..n}] /\ \A i \in 1..n : recs[i] = ProtocolRecord(imgs, protocols[i])
    BY DEF ProtocolRecords
  <2> HIDE DEF recs
  <2> QED BY <2>1, BuiltIsList
<1>2. Measured(recs, size)
  BY ProtocolsMeasured
<1>3. \A i \in 1..n : IsPiece(recs[i])
  BY <1>1, <1>2, RecordHeaders DEF IsPiece, Measured
<1>4. GetSmmProtocolDatabaseData(imgs, all, size).mem = section.mem
  BY DEF GetSmmProtocolDatabaseData, Closed
<1> HIDE DEF recs, section
<1>5. Chain(section.mem, recs, 0, size)
  BY <1>1, <1>2, <1>3, SectionChain DEF section
<1> QED BY <1>4, <1>5 DEF recs

(* That of the SMI entries.                                                *)
LEMMA SmiChain ==
  ASSUME NEW imgs, NEW smis, Len(smis) \in Nat, \A i \in 1..Len(smis) : Len(smis[i].handlers) \in Nat,
         NEW size, size = GetSmmSmiDatabaseSize(smis)
  PROVE  Chain(GetSmmSmiDatabaseData(imgs, smis, size).mem, SmiRecords(imgs, smis), 0, size)
<1> DEFINE recs == SmiRecords(imgs, smis)  n == Len(smis)  section == Section(recs, size)
<1>1. IsList(recs) /\ Len(recs) = n /\ \A i \in 1..n : recs[i] = SmiRecord(imgs, smis[i])
  <2>1. recs \in [1..n -> {SmiRecord(imgs, smis[i]) : i \in 1..n}] /\ \A i \in 1..n : recs[i] = SmiRecord(imgs, smis[i])
    BY DEF SmiRecords
  <2> HIDE DEF recs
  <2> QED BY <2>1, BuiltIsList
<1>2. Measured(recs, size)
  BY SmisMeasured
<1>3. \A i \in 1..n : IsPiece(recs[i])
  BY <1>1, <1>2, RecordHeaders DEF IsPiece, Measured
<1>4. GetSmmSmiDatabaseData(imgs, smis, size).mem = section.mem
  BY DEF GetSmmSmiDatabaseData, Closed
<1> HIDE DEF recs, section
<1>5. Chain(section.mem, recs, 0, size)
  BY <1>1, <1>2, <1>3, SectionChain DEF section
<1> QED BY <1>4, <1>5 DEF recs

(* The root handlers are a section of one record, the child callbacks one  *)
(* or, without a library, none.                                            *)
LEMMA RootChain ==
  ASSUME NEW imgs, NEW roots, Len(roots) \in Nat, NEW size, size = GetSmmRootSmiDatabaseSize(roots)
  PROVE  Chain(GetSmmRootSmiDatabaseData(imgs, roots, size).mem, <<RootRecord(imgs, roots)>>, 0, size)
<1> DEFINE r == RootRecord(imgs, roots)  section == EmitRecord(Section0, r, size)
<1>1. IsRecord(r) /\ RecordSize(r) = size
  BY RootRecordIs
<1>2. IsPiece(r)
  BY <1>1, RecordHeaders DEF IsPiece
<1>3. GetSmmRootSmiDatabaseData(imgs, roots, size).mem = section.mem
  BY DEF GetSmmRootSmiDatabaseData, Closed
<1> HIDE DEF r
<1>4. section = EmitRecord(Section0, r, RecordSize(r))
  BY <1>1
<1> HIDE DEF section
<1> QED BY <1>1, <1>2, <1>3, <1>4, OneChain DEF r

(* The child section, where there is a library.                            *)
LEMMA ChildChain ==
  ASSUME NEW imgs, NEW child, Len(child.callbacks) \in Nat, NEW size, size = SmmChildGetDataSize(child), NEW b \in Nat
  PROVE  Chain(IF size # 0 THEN At(b, SmmChildGetData(imgs, child, size).mem) ELSE EmptyMem,
               ChildRecords(imgs, child), b, b + size)
<1>1. CASE child.lib = "Null"
  <2>1. size = 0 /\ ChildRecords(imgs, child) = <<>> /\ b + 0 = b
    BY <1>1 DEF SmmChildGetDataSize, ChildRecords
  <2> QED BY <2>1, NoChain
<1>2. CASE child.lib # "Null"
  <2> DEFINE r == ChildRecord(imgs, child)  section == EmitRecord(Section0, r, size)
  <2>1. IsRecord(r) /\ RecordSize(r) = size
    BY <1>2, ChildRecordIs DEF SmmChildGetDataSize
  <2>2. IsPiece(r)
    BY <2>1, RecordHeaders DEF IsPiece
  <2>3. SmmChildGetData(imgs, child, size) = section /\ ChildRecords(imgs, child) = <<r>>
    BY <1>2 DEF SmmChildGetData, ChildRecords
  <2> HIDE DEF r
  <2>4. section = EmitRecord(Section0, r, RecordSize(r))
    BY <2>1
  <2> HIDE DEF section
  <2>5. Chain(section.mem, <<r>>, 0, size)
    BY <2>1, <2>2, <2>4, OneChain
  <2>6. size # 0
    <3>1. Size(r) = RecordSize(r)
      BY <2>1 DEF IsRecord, Size
    <3> QED BY <2>1, <2>2, <3>1, PieceSize
  <2>7. Chain(At(b, section.mem), <<r>>, b, b + size)
    BY <2>5, ChainAt
  <2> QED BY <2>3, <2>6, <2>7
<1> QED BY <1>1, <1>2

(* So the database is the chain of all its records.                        *)
LEMMA DatabaseChain ==
  ASSUME NEW imgs, NEW c, NEW child, Followed(imgs, c, child), NEW z, z = GetSmmCoreDatabaseSize(imgs, c, child)
  PROVE  Chain(GetSmmCoreDatabaseData(imgs, c, child, z).mem, AllRecords(imgs, c, child), 0, TotalSize(z))
<1> DEFINE m1 == GetSmmImageDatabaseData(imgs, z.image).mem
           m2 == GetSmmHandlerDatabaseData(imgs, c.handles, z.handle).mem
           m3 == GetSmmProtocolDatabaseData(imgs, c.protocols, z.protocol).mem
           m4 == GetSmmSmiDatabaseData(imgs, c.smis, z.smi).mem
           m5 == GetSmmRootSmiDatabaseData(imgs, c.roots, z.root).mem
           b1 == z.image  b2 == b1 + z.handle  b3 == b2 + z.protocol  b4 == b3 + z.smi  b5 == b4 + z.root
           m6 == IF z.child # 0 THEN At(b5, SmmChildGetData(imgs, child, z.child).mem) ELSE EmptyMem
           r1 == ImageRecords(imgs)  r2 == HandleRecords(imgs, c.handles)  r3 == ProtocolRecords(imgs, UpToOwn(c.protocols))
           r4 == SmiRecords(imgs, c.smis)  r5 == <<RootRecord(imgs, c.roots)>>  r6 == ChildRecords(imgs, child)
<1>1. /\ z.image = GetSmmImageDatabaseSize(imgs) /\ z.handle = GetSmmHandlerDatabaseSize(c.handles)
      /\ z.protocol = GetSmmProtocolDatabaseSize(c.protocols) /\ z.smi = GetSmmSmiDatabaseSize(c.smis)
      /\ z.root = GetSmmRootSmiDatabaseSize(c.roots) /\ z.child = SmmChildGetDataSize(child)
  BY DEF GetSmmCoreDatabaseSize
<1>2. Chain(m1, r1, 0, b1)
  BY <1>1, ImageChain DEF Followed
<1>3. Chain(m2, r2, 0, z.handle)
  BY <1>1, HandleChain DEF Followed
<1>4. Chain(m3, r3, 0, z.protocol)
  <2> DEFINE p == UpToOwn(c.protocols)
  <2>1. /\ Len(p) \in Nat /\ p = UpToOwn(c.protocols)
        /\ \A i \in 1..Len(p) : Len(p[i].interfaces) \in Nat /\ Len(p[i].notifies) \in Nat
    BY DEF Followed
  <2> HIDE DEF p
  <2> QED BY <1>1, <2>1, ProtocolChain
<1>5. Chain(m4, r4, 0, z.smi)
  BY <1>1, SmiChain DEF Followed
<1>6. Chain(m5, r5, 0, z.root)
  BY <1>1, RootChain DEF Followed
<1>7. GetSmmCoreDatabaseData(imgs, c, child, z).mem =
        Over(m1, Over(At(b1, m2), Over(At(b2, m3), Over(At(b3, m4), Over(At(b4, m5), m6)))))
  BY DEF GetSmmCoreDatabaseData
<1>8. AllRecords(imgs, c, child) = r1 \o (r2 \o (r3 \o (r4 \o (r5 \o r6))))
  BY DEF AllRecords, RestRecords
<1>9. b1 \in Nat /\ z.handle \in Nat /\ z.protocol \in Nat /\ z.smi \in Nat /\ z.root \in Nat
  BY <1>2, <1>3, <1>4, <1>5, <1>6 DEF Chain
<1>10. b2 \in Nat /\ b3 \in Nat /\ b4 \in Nat /\ b5 \in Nat /\ TotalSize(z) = b5 + z.child
  BY <1>9 DEF TotalSize
<1>11. Chain(m6, r6, b5, b5 + z.child)
  <2> HIDE DEF b5
  <2> QED BY <1>1, <1>10, ChildChain DEF Followed
<1> HIDE DEF m1, m2, m3, m4, m5, m6, r1, r2, r3, r4, r5, r6
<1>12. /\ Chain(At(b1, m2), r2, b1, b2) /\ Chain(At(b2, m3), r3, b2, b3) /\ Chain(At(b3, m4), r4, b3, b4)
       /\ Chain(At(b4, m5), r5, b4, b5)
  <2>1. Chain(At(b1, m2), r2, b1, b1 + z.handle)
    BY <1>3, <1>9, ChainAt
  <2>2. Chain(At(b2, m3), r3, b2, b2 + z.protocol)
    <3> HIDE DEF b2
    <3> QED BY <1>4, <1>10, ChainAt
  <2>3. Chain(At(b3, m4), r4, b3, b3 + z.smi)
    <3> HIDE DEF b3
    <3> QED BY <1>5, <1>10, ChainAt
  <2>4. Chain(At(b4, m5), r5, b4, b4 + z.root)
    <3> HIDE DEF b4
    <3> QED BY <1>6, <1>10, ChainAt
  <2> QED BY <2>1, <2>2, <2>3, <2>4
<1> HIDE DEF b1, b2, b3, b4, b5
<1>13. Chain(Over(At(b4, m5), m6), r5 \o r6, b4, b5 + z.child)
  BY <1>11, <1>12, ChainJoin
<1>14. Chain(Over(At(b3, m4), Over(At(b4, m5), m6)), r4 \o (r5 \o r6), b3, b5 + z.child)
  BY <1>12, <1>13, ChainJoin
<1>15. Chain(Over(At(b2, m3), Over(At(b3, m4), Over(At(b4, m5), m6))), r3 \o (r4 \o (r5 \o r6)), b2, b5 + z.child)
  BY <1>12, <1>14, ChainJoin
<1>16. Chain(Over(At(b1, m2), Over(At(b2, m3), Over(At(b3, m4), Over(At(b4, m5), m6)))),
             r2 \o (r3 \o (r4 \o (r5 \o r6))), b1, b5 + z.child)
  BY <1>12, <1>15, ChainJoin
<1>17. Chain(Over(m1, Over(At(b1, m2), Over(At(b2, m3), Over(At(b3, m4), Over(At(b4, m5), m6))))),
             r1 \o (r2 \o (r3 \o (r4 \o (r5 \o r6)))), 0, b5 + z.child)
  BY <1>2, <1>16, ChainJoin
<1> QED BY <1>7, <1>8, <1>10, <1>17

-----------------------------------------------------------------------------
(* The walk that prints a record, and the place of that walk.              *)
WalkOf(r) ==
  IF r.header.sig = "SCID" THEN "image" ELSE IF r.header.sig = "SCHD" THEN "handle"
  ELSE IF r.header.sig = "SCPD" THEN "protocol" ELSE IF r.header.sig = "CDSD" THEN "child"
  ELSE IF r.header.root THEN "root" ELSE "smi"

Rank == [count |-> 0, image |-> 1, handle |-> 2, protocol |-> 3, smi |-> 4, root |-> 5, child |-> 6, end |-> 7]

(* A record whose items lie where its walk looks for them.                 *)
Fits(r) ==
  /\ IsPiece(r)
  /\ r.header.sig \in {"SCID", "SCHD", "SCPD", "SCSD", "CDSD"}
  /\ r.size = HeaderSize(WalkOf(r)) /\ Len(r.groups) = Len(GroupSizes(WalkOf(r)))
  /\ \A g \in 1..Len(r.groups) : r.groups[g].size = GroupSizes(WalkOf(r))[g]

(* The walks, and what follows each of them.                               *)
LEMMA WalksAre ==
  /\ Walks = {"count", "image", "handle", "protocol", "smi", "root", "child"}
  /\ After["count"] = "image" /\ After["image"] = "handle" /\ After["handle"] = "protocol" /\ After["protocol"] = "smi"
  /\ After["smi"] = "root" /\ After["root"] = "child" /\ After["child"] = "end"
BY DEF Walks, After

(* The places of the walks.                                                *)
LEMMA RanksAre ==
  /\ Rank["count"] = 0 /\ Rank["image"] = 1 /\ Rank["handle"] = 2 /\ Rank["protocol"] = 3 /\ Rank["smi"] = 4
  /\ Rank["root"] = 5 /\ Rank["child"] = 6 /\ Rank["end"] = 7
BY DEF Rank

(* The fields of the header in the buffer.                                 *)
LEMMA CellIs ==
  ASSUME NEW r, IsHeader(r.header), NEW c, c = Cell(r)
  PROVE  /\ "sig" \in DOMAIN c /\ c.sig = r.header.sig /\ c.key = r.header.key /\ c.root = r.header.root
         /\ c.len = Size(r) /\ c.counts = Counts(r)
<1> DEFINE h == r.header  n == Size(r)  k == Counts(r)
<1>1. PICK sig, key, root : h = Header(sig, key, root)
  BY DEF IsHeader
<1>2. c = [h EXCEPT !.len = n, !.counts = k]
  BY DEF Cell
<1> HIDE DEF h, n, k
<1>3. DOMAIN h = {"sig", "key", "root", "len", "counts"}
  BY <1>1 DEF Header
<1> QED BY <1>2, <1>3 DEF h, n, k

(* A walk prints the records of its own.                                   *)
LEMMA PrintedIs ==
  ASSUME NEW r, Fits(r), NEW c, c = Cell(r), NEW v \in Walks
  PROVE  Printed(v, c) <=> v = WalkOf(r) \/ (v = "count" /\ WalkOf(r) = "image")
<1>1. c.sig = r.header.sig /\ c.root = r.header.root
  BY CellIs DEF Fits, IsPiece
<1>2. v \in {"count", "image", "handle", "protocol", "smi", "root", "child"}
  BY WalksAre
<1>3. r.header.sig \in {"SCID", "SCHD", "SCPD", "SCSD", "CDSD"}
  BY DEF Fits
<1> QED BY <1>1, <1>2, <1>3 DEF Printed, WalkOf

(* What a walk finds behind the header.                                    *)
LEMMA ItemPlace ==
  ASSUME NEW r, Fits(r), NEW c, c = Cell(r), NEW w, w = WalkOf(r), NEW g \in 1..Len(r.groups),
         NEW i \in 1..Len(r.groups[g].items)
  PROVE  /\ GroupStart(w, c, g) \in Nat /\ (i - 1) * GroupSizes(w)[g] \in Nat
         /\ GroupStart(w, c, g) + (i - 1) * GroupSizes(w)[g] = ItemAt(r, g, i)
<1>1. r.size = HeaderSize(w) /\ r.groups[g].size = GroupSizes(w)[g] /\ Len(r.groups) \in 0..2 /\ IsRecord(r)
  <2>1. r.groups # <<>>
    OBVIOUS
  <2> QED BY <2>1, PieceSize DEF Fits, IsPiece
<1>2. IsGroup(r.groups[g]) /\ IsGroup(r.groups[1]) /\ r.size \in Nat /\ g \in {1, 2}
  BY <1>1 DEF IsRecord
<1>3. g = 2 => c.counts[1] * GroupSizes(w)[1] = GroupSize(r.groups[1])
  <2>1. c.counts = Counts(r)
    BY CellIs DEF Fits, IsPiece
  <2>2. ASSUME g = 2 PROVE 1 \in 1..Len(r.groups) /\ Counts(r)[1] = Len(r.groups[1].items)
    BY <2>2 DEF Counts
  <2> QED BY <2>1, <2>2 DEF Fits, GroupSize
<1> DEFINE x == (i - 1) * r.groups[g].size  y == IF g = 2 THEN GroupSize(r.groups[1]) ELSE 0
<1>4. x \in Nat /\ y \in Nat
  BY SMTT(30), <1>2, Product, GroupSizeNat DEF IsGroup
<1>5. GroupStart(w, c, g) = r.size + y
  BY <1>1, <1>3 DEF GroupStart
<1>6. ItemAt(r, g, i) = r.size + y + x
  BY DEF ItemAt
<1>7. (i - 1) * GroupSizes(w)[g] = x
  BY <1>1
<1> HIDE DEF x, y
<1> QED BY <1>2, <1>4, <1>5, <1>6, <1>7

-----------------------------------------------------------------------------
(* The line of a record, with the names of an image table.                 *)
NameOf(ns, max, ref) == IF ref = NoRef \/ ref >= max THEN UNKNOWN_NAME ELSE ns[ref + 1]

LineOf(r, ns, max) ==
  [walk |-> WalkOf(r), key |-> r.header.key,
   items |-> [g \in 1..Len(r.groups) |-> [i \in 1..Len(r.groups[g].items) |->
                [addr |-> r.groups[g].items[i].addr, name |-> NameOf(ns, max, r.groups[g].items[i].ref)]]]]

(* On a record of the database, a walk is where it should be, and prints   *)
(* the line of that record.                                                *)
LEMMA HereIs ==
  ASSUME NEW r, Fits(r), Written(db.mem, cursor, r), cursor \in Nat, walk \in Walks
  PROVE  /\ OnRecord /\ db.mem[cursor] = Cell(r)
         /\ walk = WalkOf(r) => Line(walk, db.mem[cursor]) = LineOf(r, names, namesMax)
<1> DEFINE c == db.mem[cursor]  w == WalkOf(r)
<1>1. cursor \in DOMAIN db.mem /\ c = Cell(r)
  BY DEF Written
<1>2. /\ "sig" \in DOMAIN c /\ c.sig = r.header.sig /\ c.key = r.header.key /\ c.root = r.header.root
      /\ c.len = Size(r) /\ c.counts = Counts(r) /\ Size(r) > 0
  BY <1>1, CellIs, PieceSize DEF Fits, IsPiece
<1>3. Len(GroupSizes(w)) = Len(r.groups) /\ \A g \in 1..Len(r.groups) : c.counts[g] = Len(r.groups[g].items)
  BY <1>2 DEF Counts, Fits
<1>4. ASSUME NEW g \in 1..Len(r.groups), NEW i \in 1..Len(r.groups[g].items)
      PROVE  LET o == cursor + GroupStart(w, c, g) + (i - 1) * GroupSizes(w)[g]
             IN  o \in DOMAIN db.mem /\ db.mem[o] = r.groups[g].items[i]
  <2> DEFINE o == cursor + GroupStart(w, c, g) + (i - 1) * GroupSizes(w)[g]
  <2>1. o = cursor + ItemAt(r, g, i)
    <3>1. c = Cell(r) /\ w = WalkOf(r)
      BY <1>1
    <3> HIDE DEF c, w
    <3>2. /\ GroupStart(w, c, g) \in Nat /\ (i - 1) * GroupSizes(w)[g] \in Nat
          /\ GroupStart(w, c, g) + (i - 1) * GroupSizes(w)[g] = ItemAt(r, g, i)
      BY <3>1, ItemPlace
    <3> DEFINE x == (i - 1) * GroupSizes(w)[g]  y == GroupStart(w, c, g)
    <3>3. x \in Nat /\ y \in Nat /\ y + x = ItemAt(r, g, i) /\ o = cursor + y + x
      BY <3>2
    <3> HIDE DEF x, y, o
    <3> QED BY <3>3
  <2> HIDE DEF o
  <2>2. o \in DOMAIN db.mem /\ db.mem[o] = r.groups[g].items[i]
    BY <2>1 DEF Written
  <2> QED BY <2>2 DEF o
<1> HIDE DEF c, w
<1>5. Printed(walk, c) => walk = w \/ (walk = "count" /\ w = "image")
  BY <1>1, PrintedIs DEF w
<1>6. Printed(walk, c) => ItemOffsets(walk, c) \subseteq DOMAIN db.mem
  <2>1. CASE walk = w
    BY <1>3, <1>4, <2>1 DEF ItemOffsets
  <2>2. CASE walk = "count"
    BY <2>2 DEF ItemOffsets, GroupSizes
  <2> QED BY <1>5, <2>1, <2>2
<1>7. OnRecord
  BY <1>1, <1>2, <1>6 DEF OnRecord, c
<1>8. Line(w, c) = LineOf(r, names, namesMax)
  <2> DEFINE L(g, i) == LET item == db.mem[cursor + GroupStart(w, c, g) + (i - 1) * GroupSizes(w)[g]]
                        IN  [addr |-> item.addr, name |-> GetImageRefName(item.ref)]
             M(g, i) == [addr |-> r.groups[g].items[i].addr, name |-> NameOf(names, namesMax, r.groups[g].items[i].ref)]
  <2>1. Line(w, c) = [walk |-> w, key |-> c.key,
                      items |-> [g \in 1..Len(GroupSizes(w)) |-> [i \in 1..c.counts[g] |-> L(g, i)]]]
    BY Zenon DEF Line
  <2>2. LineOf(r, names, namesMax) = [walk |-> w, key |-> r.header.key,
                      items |-> [g \in 1..Len(r.groups) |-> [i \in 1..Len(r.groups[g].items) |-> M(g, i)]]]
    BY Zenon DEF LineOf, w
  <2>3. ASSUME NEW g \in 1..Len(r.groups), NEW i \in 1..Len(r.groups[g].items) PROVE L(g, i) = M(g, i)
    BY <1>4 DEF GetImageRefName, NameOf
  <2> HIDE DEF L, M
  <2>4. ASSUME NEW g \in 1..Len(r.groups)
        PROVE  [i \in 1..c.counts[g] |-> L(g, i)] = [i \in 1..Len(r.groups[g].items) |-> M(g, i)]
    BY <1>3, <2>3
  <2>5. [g \in 1..Len(GroupSizes(w)) |-> [i \in 1..c.counts[g] |-> L(g, i)]] =
        [g \in 1..Len(r.groups) |-> [i \in 1..Len(r.groups[g].items) |-> M(g, i)]]
    BY <1>3, <2>4
  <2> QED BY <1>2, <2>1, <2>2, <2>5
<1> QED BY <1>1, <1>7, <1>8 DEF c, w

-----------------------------------------------------------------------------
(* What the walks expect of their records.                                 *)
LEMMA ShapesAre ==
  /\ HeaderSize("image") = 132 /\ HeaderSize("handle") = 28 /\ HeaderSize("protocol") = 44
  /\ HeaderSize("smi") = 40 /\ HeaderSize("root") = 40 /\ HeaderSize("child") = 36
  /\ GroupSizes("image") = <<>> /\ GroupSizes("handle") = <<32>> /\ GroupSizes("protocol") = <<16, 16>>
  /\ GroupSizes("smi") = <<24>> /\ GroupSizes("root") = <<24>> /\ GroupSizes("child") = <<32>>
BY DEF HeaderSize, GroupSizes, SizeOf

(* A header is of its signature.                                           *)
LEMMA HeaderHas ==
  ASSUME NEW sig, NEW key, NEW root
  PROVE  /\ Header(sig, key, root).sig = sig /\ Header(sig, key, root).key = key /\ Header(sig, key, root).root = root
         /\ IsHeader(Header(sig, key, root))
BY DEF Header, IsHeader

(* A record of one group fits where its walk has one group.                *)
LEMMA OneFits ==
  ASSUME NEW d, d.sig \in {"SCHD", "SCSD", "CDSD"}, IsHeader(d), NEW items, Len(items) \in Nat,
         NEW size \in Nat \ {0}, NEW s \in Nat \ {0}, NEW r, r = Record(d, size, <<Group(items, s)>>),
         HeaderSize(WalkOf(r)) = size, GroupSizes(WalkOf(r)) = <<s>>
  PROVE  Fits(r)
<1>1. r.header = d /\ r.size = size /\ r.groups = <<Group(items, s)>> /\ Group(items, s).size = s
  BY DEF Record, Group
<1>2. IsRecord(r)
  BY OneGroup
<1> DEFINE G == GroupSizes(WalkOf(r))
<1>3. Len(r.groups) = 1 /\ r.groups[1].size = s /\ Len(G) = 1 /\ G[1] = s
  BY <1>1
<1> HIDE DEF G
<1>4. Len(r.groups) = Len(G) /\ \A g \in 1..Len(r.groups) : r.groups[g].size = G[g]
  BY <1>3
<1>5. IsPiece(r)
  BY <1>1, <1>2 DEF IsPiece
<1> QED BY <1>1, <1>4, <1>5 DEF Fits, G

(* The records of the database fit.                                        *)
LEMMA ImageFits == ASSUME NEW image PROVE Fits(ImageRecord(image)) /\ WalkOf(ImageRecord(image)) = "image"
<1> DEFINE r == ImageRecord(image)  h == Header("SCID", image, FALSE)
<1>1. h.sig = "SCID" /\ h.root = FALSE
  BY DEF Header, IsHeader
<1>2. r.header = h /\ r.size = 132 /\ r.groups = <<>>
  BY SizesAre DEF ImageRecord, Record
<1> HIDE DEF h
<1>3. WalkOf(r) = "image"
  BY <1>1, <1>2 DEF WalkOf
<1>4. IsPiece(r)
  BY ImagePiece
<1> HIDE DEF r
<1>5. Len(r.groups) = 0 /\ Len(GroupSizes("image")) = 0 /\ \A g \in 1..Len(r.groups) : FALSE
  BY <1>2, ShapesAre
<1> QED BY <1>1, <1>2, <1>3, <1>4, <1>5, ShapesAre DEF Fits, r

(* A record of the handle database.                                        *)
LEMMA HandleFits ==
  ASSUME NEW imgs, NEW h, Len(h.interfaces) \in Nat
  PROVE  Fits(HandleRecord(imgs, h)) /\ WalkOf(HandleRecord(imgs, h)) = "handle"
<1> DEFINE r == HandleRecord(imgs, h)  items == InterfaceItems(imgs, h.interfaces)  d == Header("SCHD", h.id, FALSE)
<1>1. d.sig = "SCHD" /\ d.root = FALSE /\ IsHeader(d)
  BY DEF Header, IsHeader
<1>2. r = Record(d, 28, <<Group(items, 32)>>) /\ r.header = d
  BY SizesAre DEF HandleRecord, Record
<1>3. Len(items) \in Nat
  BY ItemsAre
<1> HIDE DEF r, items, d
<1>4. WalkOf(r) = "handle"
  BY <1>1, <1>2 DEF WalkOf
<1>5. Fits(r)
  <2>1. HeaderSize(WalkOf(r)) = 28 /\ GroupSizes(WalkOf(r)) = <<32>> /\ 28 \in Nat \ {0} /\ 32 \in Nat \ {0}
    BY <1>4, ShapesAre
  <2>2. d.sig \in {"SCHD", "SCSD", "CDSD"} /\ IsHeader(d) /\ r = Record(d, 28, <<Group(items, 32)>>)
    BY <1>1, <1>2
  <2> QED BY <1>3, <2>1, <2>2, OneFits
<1> QED BY <1>4, <1>5 DEF r

(* A record of the database of the SMI entries.                            *)
LEMMA SmiFits ==
  ASSUME NEW imgs, NEW s, Len(s.handlers) \in Nat
  PROVE  Fits(SmiRecord(imgs, s)) /\ WalkOf(SmiRecord(imgs, s)) = "smi"
<1> DEFINE r == SmiRecord(imgs, s)  items == AddressItems(imgs, s.handlers)  d == Header("SCSD", s.type, FALSE)
<1>1. d.sig = "SCSD" /\ d.root = FALSE /\ IsHeader(d)
  BY DEF Header, IsHeader
<1>2. r = Record(d, 40, <<Group(items, 24)>>) /\ r.header = d
  BY SizesAre DEF SmiRecord, Record
<1>3. Len(items) \in Nat
  BY ItemsAre
<1> HIDE DEF r, items, d
<1>4. WalkOf(r) = "smi"
  BY <1>1, <1>2 DEF WalkOf
<1>5. Fits(r)
  <2>1. HeaderSize(WalkOf(r)) = 40 /\ GroupSizes(WalkOf(r)) = <<24>> /\ 40 \in Nat \ {0} /\ 24 \in Nat \ {0}
    BY <1>4, ShapesAre
  <2>2. d.sig \in {"SCHD", "SCSD", "CDSD"} /\ IsHeader(d) /\ r = Record(d, 40, <<Group(items, 24)>>)
    BY <1>1, <1>2
  <2> QED BY <1>3, <2>1, <2>2, OneFits
<1> QED BY <1>4, <1>5 DEF r

(* The record of the root handlers.                                        *)
LEMMA RootFits ==
  ASSUME NEW imgs, NEW roots, Len(roots) \in Nat
  PROVE  Fits(RootRecord(imgs, roots)) /\ WalkOf(RootRecord(imgs, roots)) = "root"
<1> DEFINE r == RootRecord(imgs, roots)  items == AddressItems(imgs, roots)  d == Header("SCSD", "zero", TRUE)
<1>1. d.sig = "SCSD" /\ d.root = TRUE /\ IsHeader(d)
  BY DEF Header, IsHeader
<1>2. r = Record(d, 40, <<Group(items, 24)>>) /\ r.header = d
  BY SizesAre DEF RootRecord, Record
<1>3. Len(items) \in Nat
  BY ItemsAre
<1> HIDE DEF r, items, d
<1>4. WalkOf(r) = "root"
  BY <1>1, <1>2 DEF WalkOf
<1>5. Fits(r)
  <2>1. HeaderSize(WalkOf(r)) = 40 /\ GroupSizes(WalkOf(r)) = <<24>> /\ 40 \in Nat \ {0} /\ 24 \in Nat \ {0}
    BY <1>4, ShapesAre
  <2>2. d.sig \in {"SCHD", "SCSD", "CDSD"} /\ IsHeader(d) /\ r = Record(d, 40, <<Group(items, 24)>>)
    BY <1>1, <1>2
  <2> QED BY <1>3, <2>1, <2>2, OneFits
<1> QED BY <1>4, <1>5 DEF r

(* The record of the child callbacks.                                      *)
LEMMA ChildFits ==
  ASSUME NEW imgs, NEW child, Len(child.callbacks) \in Nat
  PROVE  Fits(ChildRecord(imgs, child)) /\ WalkOf(ChildRecord(imgs, child)) = "child"
<1> DEFINE r == ChildRecord(imgs, child)  items == AddressItems(imgs, child.callbacks)  d == Header("CDSD", SwGuid, FALSE)
<1>1. d.sig = "CDSD" /\ d.root = FALSE /\ IsHeader(d)
  BY DEF Header, IsHeader
<1>2. r = Record(d, 36, <<Group(items, 32)>>) /\ r.header = d
  BY DEF ChildRecord, Record, SizeOf
<1>3. Len(items) \in Nat
  BY ItemsAre
<1> HIDE DEF r, items, d
<1>4. WalkOf(r) = "child"
  BY <1>1, <1>2 DEF WalkOf
<1>5. Fits(r)
  <2>1. HeaderSize(WalkOf(r)) = 36 /\ GroupSizes(WalkOf(r)) = <<32>> /\ 36 \in Nat \ {0} /\ 32 \in Nat \ {0}
    BY <1>4, ShapesAre
  <2>2. d.sig \in {"SCHD", "SCSD", "CDSD"} /\ IsHeader(d) /\ r = Record(d, 36, <<Group(items, 32)>>)
    BY <1>1, <1>2
  <2> QED BY <1>3, <2>1, <2>2, OneFits
<1> QED BY <1>4, <1>5 DEF r

(* A record of the protocol database.                                      *)
LEMMA ProtocolFits ==
  ASSUME NEW imgs, NEW p, Len(p.interfaces) \in Nat, Len(p.notifies) \in Nat
  PROVE  Fits(ProtocolRecord(imgs, p)) /\ WalkOf(ProtocolRecord(imgs, p)) = "protocol"
<1> DEFINE r == ProtocolRecord(imgs, p)  d == Header("SCPD", p.guid, FALSE)
           g1 == Group(InterfaceItems(imgs, p.interfaces), 16)  g2 == Group(AddressItems(imgs, p.notifies), 16)
<1>1. d.sig = "SCPD" /\ d.root = FALSE /\ IsHeader(d)
  BY DEF Header, IsHeader
<1>2. r.size = 44 /\ r.header = d /\ r.groups = <<g1, g2>> /\ g1.size = 16 /\ g2.size = 16
  BY SizesAre DEF ProtocolRecord, Record, Group
<1>3. IsRecord(r)
  BY ProtocolRecordIs
<1> HIDE DEF r, d, g1, g2
<1>4. WalkOf(r) = "protocol" /\ IsPiece(r)
  BY <1>1, <1>2, <1>3 DEF WalkOf, IsPiece
<1> DEFINE G == GroupSizes("protocol")
<1>5. Len(r.groups) = 2 /\ r.groups[1].size = 16 /\ r.groups[2].size = 16
  BY <1>2
<1>6. Len(G) = 2 /\ G[1] = 16 /\ G[2] = 16
  BY ShapesAre
<1> HIDE DEF G
<1>7. Len(r.groups) = Len(G) /\ \A g \in 1..Len(r.groups) : r.groups[g].size = G[g]
  BY <1>5, <1>6
<1> QED BY <1>1, <1>2, <1>4, <1>7, ShapesAre DEF Fits, r, G

-----------------------------------------------------------------------------
(* Records that fit, in the order of the walks.                            *)
Ranked(recs, lo, hi) ==
  /\ IsList(recs)
  /\ \A i \in 1..Len(recs) : Fits(recs[i]) /\ Rank[WalkOf(recs[i])] \in lo..hi
  /\ \A i, j \in 1..Len(recs) : i <= j => Rank[WalkOf(recs[i])] <= Rank[WalkOf(recs[j])]

(* The records of one walk.                                                *)
LEMMA RankedOne ==
  ASSUME NEW recs, IsList(recs), NEW w, NEW k \in Nat, Rank[w] = k,
         \A i \in 1..Len(recs) : Fits(recs[i]) /\ WalkOf(recs[i]) = w
  PROVE  Ranked(recs, k, k)
BY DEF Ranked

(* Records of later walks behind them.                                     *)
LEMMA RankedJoin ==
  ASSUME NEW r, NEW q, NEW lo \in Nat, NEW mid \in Nat, NEW next \in Nat, NEW hi \in Nat, lo <= mid, mid <= next, next <= hi,
         Ranked(r, lo, mid), Ranked(q, next, hi)
  PROVE  Ranked(r \o q, lo, hi)
<1> DEFINE a == r \o q  x == Len(r)  y == Len(q)
           K(s, i) == Rank[WalkOf(s[i])]
<1>1. /\ IsList(r) /\ IsList(q)
      /\ \A i \in 1..x : Fits(r[i]) /\ K(r, i) \in lo..mid
      /\ \A i \in 1..y : Fits(q[i]) /\ K(q, i) \in next..hi
      /\ \A i, j \in 1..x : i <= j => K(r, i) <= K(r, j)
      /\ \A i, j \in 1..y : i <= j => K(q, i) <= K(q, j)
  BY DEF Ranked
<1>2. /\ IsList(a) /\ x \in Nat /\ y \in Nat /\ Len(a) = x + y
      /\ (\A i \in 1..x : a[i] = r[i]) /\ (\A i \in 1..y : a[x + i] = q[i])
  BY <1>1, JoinIs
<1> HIDE DEF x, y, a
<1>3. \A i \in 1..x + y : \/ i \in 1..x /\ a[i] = r[i] /\ K(a, i) = K(r, i)
                          \/ ~(i <= x) /\ i - x \in 1..y /\ a[i] = q[i - x] /\ K(a, i) = K(q, i - x)
  <2>1. ASSUME NEW i \in 1..x + y, ~(i <= x) PROVE i - x \in 1..y /\ a[i] = q[i - x]
    <3>1. i - x \in 1..y /\ x + (i - x) = i
      BY <1>2, <2>1
    <3> QED BY <1>2, <3>1
  <2>2. ASSUME NEW i \in 1..x + y, i <= x PROVE i \in 1..x /\ a[i] = r[i]
    BY <1>2, <2>2
  <2> QED BY <2>1, <2>2
<1>4. \A i \in 1..x + y : Fits(a[i]) /\ K(a, i) \in lo..hi
  <2>1. ASSUME NEW i \in 1..x + y PROVE Fits(a[i]) /\ K(a, i) \in lo..hi
    <3> HIDE DEF K
    <3>1. CASE i \in 1..x /\ a[i] = r[i] /\ K(a, i) = K(r, i)
      BY <1>1, <3>1
    <3>2. CASE ~(i <= x) /\ i - x \in 1..y /\ a[i] = q[i - x] /\ K(a, i) = K(q, i - x)
      BY <1>1, <3>2
    <3> QED BY <1>3, <3>1, <3>2
  <2> QED BY <2>1
<1>5. \A i, j \in 1..x + y : i <= j => K(a, i) <= K(a, j)
  <2>1. ASSUME NEW i \in 1..x + y, NEW j \in 1..x + y, i <= j PROVE K(a, i) <= K(a, j)
    <3> HIDE DEF K
    <3>1. CASE i \in 1..x /\ K(a, i) = K(r, i)
      <4>1. CASE j \in 1..x /\ K(a, j) = K(r, j)
        BY <1>1, <2>1, <3>1, <4>1
      <4>2. CASE j - x \in 1..y /\ K(a, j) = K(q, j - x)
        <5>1. K(r, i) \in lo..mid /\ K(q, j - x) \in next..hi
          BY <1>1, <3>1, <4>2
        <5> QED BY <3>1, <4>2, <5>1
      <4> QED BY <1>3, <4>1, <4>2
    <3>2. CASE ~(i <= x) /\ i - x \in 1..y /\ K(a, i) = K(q, i - x)
      <4>1. ~(j <= x) /\ i - x <= j - x
        BY <1>2, <2>1, <3>2
      <4>2. j - x \in 1..y /\ K(a, j) = K(q, j - x)
        BY <1>3, <4>1
      <4> QED BY <1>1, <3>2, <4>1, <4>2
    <3> QED BY <1>3, <3>1, <3>2
  <2> QED BY <2>1
<1> QED BY <1>2, <1>4, <1>5 DEF Ranked, a, K

(* A list of one.                                                          *)
LEMMA OneIsList == ASSUME NEW e PROVE IsList(<<e>>) /\ Len(<<e>>) = 1 /\ <<e>>[1] = e
<1> DEFINE s == <<e>>
<1>1. s \in Seq({e}) /\ Len(s) = 1 /\ s[1] = e
  OBVIOUS
<1> HIDE DEF s
<1>2. IsList(s)
  BY <1>1, SeqIsList
<1> QED BY <1>1, <1>2 DEF s

(* The sections of the database, each with the place of its walk.          *)
LEMMA SectionsRanked ==
  ASSUME NEW imgs, NEW c, NEW child, Followed(imgs, c, child)
  PROVE  /\ Ranked(ImageRecords(imgs), 1, 1) /\ Len(ImageRecords(imgs)) = Len(imgs)
         /\ \A i \in 1..Len(imgs) : ImageRecords(imgs)[i] = ImageRecord(imgs[i])
         /\ Ranked(HandleRecords(imgs, c.handles), 2, 2) /\ Ranked(ProtocolRecords(imgs, UpToOwn(c.protocols)), 3, 3)
         /\ Ranked(SmiRecords(imgs, c.smis), 4, 4) /\ Ranked(<<RootRecord(imgs, c.roots)>>, 5, 5)
         /\ Ranked(ChildRecords(imgs, child), 6, 6)
<1>1. /\ Ranked(ImageRecords(imgs), 1, 1) /\ Len(ImageRecords(imgs)) = Len(imgs)
      /\ \A i \in 1..Len(imgs) : ImageRecords(imgs)[i] = ImageRecord(imgs[i])
  <2> DEFINE recs == ImageRecords(imgs)  n == Len(imgs)
  <2>1. recs \in [1..n -> {ImageRecord(imgs[i]) : i \in 1..n}] /\ \A i \in 1..n : recs[i] = ImageRecord(imgs[i])
    BY DEF ImageRecords
  <2>2. n \in Nat
    BY ListIs DEF Followed
  <2> HIDE DEF recs, n
  <2>3. IsList(recs) /\ Len(recs) = n /\ \A i \in 1..n : Fits(recs[i]) /\ WalkOf(recs[i]) = "image"
    BY <2>1, <2>2, BuiltIsList, ImageFits
  <2> QED BY <2>1, <2>3, RankedOne, RanksAre DEF recs, n
<1>2. Ranked(HandleRecords(imgs, c.handles), 2, 2)
  <2> DEFINE s == c.handles  recs == HandleRecords(imgs, s)  n == Len(s)
  <2>1. recs \in [1..n -> {HandleRecord(imgs, s[i]) : i \in 1..n}] /\ \A i \in 1..n : recs[i] = HandleRecord(imgs, s[i])
    BY DEF HandleRecords
  <2>2. n \in Nat /\ \A i \in 1..n : Len(s[i].interfaces) \in Nat
    BY DEF Followed
  <2> HIDE DEF recs, s, n
  <2>3. IsList(recs) /\ Len(recs) = n /\ \A i \in 1..n : Fits(recs[i]) /\ WalkOf(recs[i]) = "handle"
    BY <2>1, <2>2, BuiltIsList, HandleFits
  <2> QED BY <2>3, RankedOne, RanksAre DEF recs, s
<1>3. Ranked(ProtocolRecords(imgs, UpToOwn(c.protocols)), 3, 3)
  <2> DEFINE s == UpToOwn(c.protocols)  recs == ProtocolRecords(imgs, s)  n == Len(s)
  <2>1. recs \in [1..n -> {ProtocolRecord(imgs, s[i]) : i \in 1..n}] /\ \A i \in 1..n : recs[i] = ProtocolRecord(imgs, s[i])
    BY DEF ProtocolRecords
  <2>2. n \in Nat /\ \A i \in 1..n : Len(s[i].interfaces) \in Nat /\ Len(s[i].notifies) \in Nat
    BY DEF Followed
  <2> HIDE DEF recs, s, n
  <2>3. IsList(recs) /\ Len(recs) = n /\ \A i \in 1..n : Fits(recs[i]) /\ WalkOf(recs[i]) = "protocol"
    BY ZenonT(60), <2>1, <2>2, BuiltIsList, ProtocolFits
  <2> QED BY <2>3, RankedOne, RanksAre DEF recs, s
<1>4. Ranked(SmiRecords(imgs, c.smis), 4, 4)
  <2> DEFINE s == c.smis  recs == SmiRecords(imgs, s)  n == Len(s)
  <2>1. recs \in [1..n -> {SmiRecord(imgs, s[i]) : i \in 1..n}] /\ \A i \in 1..n : recs[i] = SmiRecord(imgs, s[i])
    BY DEF SmiRecords
  <2>2. n \in Nat /\ \A i \in 1..n : Len(s[i].handlers) \in Nat
    BY DEF Followed
  <2> HIDE DEF recs, s, n
  <2>3. IsList(recs) /\ Len(recs) = n /\ \A i \in 1..n : Fits(recs[i]) /\ WalkOf(recs[i]) = "smi"
    BY <2>1, <2>2, BuiltIsList, SmiFits
  <2> QED BY <2>3, RankedOne, RanksAre DEF recs, s
<1>5. Ranked(<<RootRecord(imgs, c.roots)>>, 5, 5)
  <2> DEFINE r == RootRecord(imgs, c.roots)  recs == <<r>>
  <2>1. Fits(r) /\ WalkOf(r) = "root"
    BY RootFits DEF Followed
  <2> HIDE DEF r
  <2>2. IsList(recs) /\ Len(recs) = 1 /\ recs[1] = r
    BY OneIsList
  <2> HIDE DEF recs
  <2>3. \A i \in 1..Len(recs) : Fits(recs[i]) /\ WalkOf(recs[i]) = "root"
    BY <2>1, <2>2
  <2> QED BY <2>2, <2>3, RankedOne, RanksAre DEF recs, r
<1>6. Ranked(ChildRecords(imgs, child), 6, 6)
  <2>1. CASE child.lib = "Null"
    <3>1. ChildRecords(imgs, child) = <<>> /\ IsList(<<>>) /\ \A i \in 1..Len(<<>>) : FALSE
      BY <2>1 DEF ChildRecords, IsList
    <3> QED BY <3>1 DEF Ranked
  <2>2. CASE child.lib # "Null"
    <3> DEFINE r == ChildRecord(imgs, child)  recs == <<r>>
    <3>1. Fits(r) /\ WalkOf(r) = "child"
      BY ChildFits DEF Followed
    <3>2. ChildRecords(imgs, child) = recs
      BY <2>2 DEF ChildRecords
    <3> HIDE DEF r
    <3>3. IsList(recs) /\ Len(recs) = 1 /\ recs[1] = r
      BY OneIsList
    <3> HIDE DEF recs
    <3>4. \A i \in 1..Len(recs) : Fits(recs[i]) /\ WalkOf(recs[i]) = "child"
      BY <3>1, <3>3
    <3> QED BY <3>2, <3>3, <3>4, RankedOne, RanksAre
  <2> QED BY <2>1, <2>2
<1> QED BY <1>1, <1>2, <1>3, <1>4, <1>5, <1>6

(* The records of the database are in the order of the walks, those of the *)
(* images in front.                                                        *)
LEMMA RecordsRanked ==
  ASSUME NEW imgs, NEW c, NEW child, Followed(imgs, c, child), NEW recs, recs = AllRecords(imgs, c, child)
  PROVE  /\ Ranked(recs, 1, 6) /\ Len(recs) \in Nat /\ Len(imgs) \in 0..Len(recs)
         /\ \A i \in 1..Len(recs) : Rank[WalkOf(recs[i])] = 1 <=> i <= Len(imgs)
         /\ \A i \in 1..Len(imgs) : recs[i] = ImageRecord(imgs[i])
<1> DEFINE r1 == ImageRecords(imgs)  r2 == HandleRecords(imgs, c.handles)  r3 == ProtocolRecords(imgs, UpToOwn(c.protocols))
           r4 == SmiRecords(imgs, c.smis)  r5 == <<RootRecord(imgs, c.roots)>>  r6 == ChildRecords(imgs, child)
           rest == RestRecords(imgs, c, child)
<1>1. /\ Ranked(r1, 1, 1) /\ Ranked(r2, 2, 2) /\ Ranked(r3, 3, 3) /\ Ranked(r4, 4, 4) /\ Ranked(r5, 5, 5) /\ Ranked(r6, 6, 6)
      /\ Len(r1) = Len(imgs) /\ \A i \in 1..Len(imgs) : r1[i] = ImageRecord(imgs[i])
  BY SectionsRanked
<1>2. rest = r2 \o (r3 \o (r4 \o (r5 \o r6))) /\ recs = r1 \o rest
  BY DEF AllRecords, RestRecords
<1> HIDE DEF r1, r2, r3, r4, r5, r6, rest
<1>3. Ranked(r5 \o r6, 5, 6)
  BY <1>1, RankedJoin
<1>4. Ranked(r4 \o (r5 \o r6), 4, 6)
  BY <1>1, <1>3, RankedJoin
<1>5. Ranked(r3 \o (r4 \o (r5 \o r6)), 3, 6)
  BY <1>1, <1>4, RankedJoin
<1>6. Ranked(rest, 2, 6)
  BY <1>1, <1>2, <1>5, RankedJoin
<1>7. Ranked(recs, 1, 6)
  BY <1>1, <1>2, <1>6, RankedJoin
<1>8. /\ Len(r1) \in Nat /\ Len(rest) \in Nat /\ Len(recs) = Len(r1) + Len(rest)
      /\ (\A i \in 1..Len(r1) : recs[i] = r1[i]) /\ (\A i \in 1..Len(rest) : recs[Len(r1) + i] = rest[i])
  <2>1. IsList(r1) /\ IsList(rest)
    BY <1>1, <1>6 DEF Ranked
  <2>2. Len(r1) \in Nat /\ Len(rest) \in Nat /\ Len(r1 \o rest) = Len(r1) + Len(rest)
    BY SMT, <2>1, JoinIs
  <2>3. \A i \in 1..Len(r1) : (r1 \o rest)[i] = r1[i]
    BY SMT, <2>1, JoinIs
  <2>4. \A i \in 1..Len(rest) : (r1 \o rest)[Len(r1) + i] = rest[i]
    BY SMT, <2>1, JoinIs
  <2> QED BY <1>2, <2>2, <2>3, <2>4, Zenon
<1>9. ASSUME NEW i \in 1..Len(recs) PROVE Rank[WalkOf(recs[i])] = 1 <=> i <= Len(imgs)
  <2>1. CASE i <= Len(r1)
    <3>1. Rank[WalkOf(recs[i])] = 1
      BY <1>1, <1>8, <2>1 DEF Ranked
    <3> QED BY <1>1, <2>1, <3>1
  <2>2. CASE ~(i <= Len(r1))
    <3>1. i - Len(r1) \in 1..Len(rest) /\ Len(r1) + (i - Len(r1)) = i
      BY <1>8, <2>2
    <3>2. Rank[WalkOf(rest[i - Len(r1)])] \in 2..6 /\ recs[i] = rest[i - Len(r1)]
      BY <1>6, <1>8, <3>1 DEF Ranked
    <3> QED BY <1>1, <2>2, <3>2
  <2> QED BY <2>1, <2>2
<1>10. \A i \in 1..Len(imgs) : recs[i] = ImageRecord(imgs[i])
  BY <1>1, <1>8
<1>11. Len(imgs) \in 0..Len(recs) /\ Len(recs) \in Nat
  BY <1>1, <1>8
<1> QED BY <1>7, <1>9, <1>10, <1>11

-----------------------------------------------------------------------------
(* p records are those of the walks before k, and of walk k those among    *)
(* the first j of the buffer.                                              *)
Passed(recs, p, k, j) ==
  /\ p \in 0..Len(recs)
  /\ \A i \in 1..Len(recs) : i <= p <=> Rank[WalkOf(recs[i])] < k \/ (Rank[WalkOf(recs[i])] = k /\ i <= j)

(* One record further.                                                     *)
LEMMA PassedStep ==
  ASSUME NEW recs, Ranked(recs, 1, 6), Len(recs) \in Nat, NEW k \in Nat, NEW j \in Nat, j < Len(recs), NEW p, Passed(recs, p, k, j)
  PROVE  /\ Rank[WalkOf(recs[j + 1])] = k => p = j /\ Passed(recs, j + 1, k, j + 1)
         /\ Rank[WalkOf(recs[j + 1])] # k => Passed(recs, p, k, j + 1)
<1> DEFINE R(i) == Rank[WalkOf(recs[i])]  n == Len(recs)
<1>1. /\ n \in Nat /\ (\A i \in 1..n : R(i) \in 1..6) /\ \A i, l \in 1..n : i <= l => R(i) <= R(l)
  BY DEF Ranked
<1>2. p \in 0..n /\ \A i \in 1..n : i <= p <=> R(i) < k \/ (R(i) = k /\ i <= j)
  BY DEF Passed
<1> HIDE DEF R, n
<1>3. j + 1 \in 1..n
  BY <1>1 DEF n
<1>4. ASSUME R(j + 1) = k PROVE p = j /\ Passed(recs, j + 1, k, j + 1)
  <2>1. \A i \in 1..n : i <= j => R(i) <= k
    BY <1>1, <1>3, <1>4
  <2>2. \A i \in 1..n : i <= j => i <= p
    BY <1>1, <1>2, <1>3, <2>1
  <2>3. ~(j + 1 <= p)
    BY <1>1, <1>2, <1>3, <1>4
  <2>4. p = j
    <3>1. j = 0 \/ j \in 1..n
      BY <1>1, <1>3
    <3>2. j <= p
      BY <1>2, <2>2, <3>1
    <3> QED BY <1>2, <2>3, <3>2
  <2>5. \A i \in 1..n : i <= j + 1 <=> R(i) < k \/ (R(i) = k /\ i <= j + 1)
    <3>1. ASSUME NEW i \in 1..n PROVE i <= j + 1 <=> R(i) < k \/ (R(i) = k /\ i <= j + 1)
      <4>1. CASE i = j + 1
        BY <1>4, <4>1
      <4>2. CASE i <= j
        BY <1>2, <2>4, <4>2
      <4>3. CASE ~(i <= j + 1)
        <5>1. k <= R(i) /\ ~(i <= p) /\ R(i) \in 1..6
          BY <1>1, <1>3, <1>4, <2>4, <4>3
        <5> QED BY <4>3, <5>1
      <4> QED BY <1>1, <4>1, <4>2, <4>3
    <3> QED BY <3>1
  <2>6. j + 1 \in 0..n
    BY <1>3
  <2> QED BY <2>4, <2>5, <2>6 DEF Passed, n, R
<1>5. ASSUME R(j + 1) # k PROVE Passed(recs, p, k, j + 1)
  <2>1. ASSUME NEW i \in 1..n PROVE i <= p <=> R(i) < k \/ (R(i) = k /\ i <= j + 1)
    <3>1. CASE i = j + 1
      BY <1>2, <1>5, <3>1
    <3>2. CASE i # j + 1
      BY <1>2, <3>2
    <3> QED BY <3>1, <3>2
  <2> QED BY <1>2, <2>1 DEF Passed, n, R
<1> QED BY <1>4, <1>5 DEF R

(* The next walk.                                                          *)
LEMMA PassedOn ==
  ASSUME NEW recs, Ranked(recs, 1, 6), Len(recs) \in Nat, NEW k \in Nat, NEW p, Passed(recs, p, k, Len(recs))
  PROVE  Passed(recs, p, k + 1, 0)
<1>1. ASSUME NEW i \in 1..Len(recs)
      PROVE  i <= p <=> Rank[WalkOf(recs[i])] < k + 1 \/ (Rank[WalkOf(recs[i])] = k + 1 /\ i <= 0)
  <2>1. Rank[WalkOf(recs[i])] \in 1..6
    BY DEF Ranked
  <2> QED BY <2>1 DEF Passed
<1> QED BY <1>1 DEF Passed

(* Before the first walk, and its end.                                     *)
LEMMA PassedFirst ==
  ASSUME NEW recs, Ranked(recs, 1, 6), Len(recs) \in Nat
  PROVE  Passed(recs, 0, 1, 0)
<1>1. ASSUME NEW i \in 1..Len(recs)
      PROVE  i <= 0 <=> Rank[WalkOf(recs[i])] < 1 \/ (Rank[WalkOf(recs[i])] = 1 /\ i <= 0)
  <2>1. Rank[WalkOf(recs[i])] \in 1..6
    BY DEF Ranked
  <2> QED BY <2>1
<1> QED BY <1>1 DEF Passed

(* The number is the only one, and grows with j.                           *)
LEMMA PassedGrows ==
  ASSUME NEW recs, Len(recs) \in Nat, NEW k \in Nat, NEW j \in Nat, NEW l \in Nat, j <= l, NEW p, NEW q,
         Passed(recs, p, k, j), Passed(recs, q, k, l)
  PROVE  p <= q /\ (j = l => p = q)
<1> DEFINE R(i) == Rank[WalkOf(recs[i])]  n == Len(recs)
<1>1. /\ p \in 0..n /\ \A i \in 1..n : i <= p <=> R(i) < k \/ (R(i) = k /\ i <= j)
      /\ q \in 0..n /\ \A i \in 1..n : i <= q <=> R(i) < k \/ (R(i) = k /\ i <= l)
  BY DEF Passed
<1> HIDE DEF R, n
<1>2. n \in Nat
  BY DEF n
<1>3. p <= q
  <2>1. CASE p = 0
    BY <1>1, <1>2, <2>1
  <2>2. CASE p # 0
    <3>1. p \in 1..n /\ p <= p
      BY <1>1, <1>2, <2>2
    <3>2. R(p) < k \/ (R(p) = k /\ p <= l)
      BY <1>1, <3>1
    <3> QED BY <1>1, <3>1, <3>2
  <2> QED BY <2>1, <2>2
<1>4. ASSUME j = l PROVE q <= p
  <2>1. CASE q = 0
    BY <1>1, <1>2, <2>1
  <2>2. CASE q # 0
    <3>1. q \in 1..n /\ q <= q
      BY <1>1, <1>2, <2>2
    <3>2. R(q) < k \/ (R(q) = k /\ q <= j)
      BY <1>1, <1>4, <3>1
    <3> QED BY <1>1, <3>1, <3>2
  <2> QED BY <2>1, <2>2
<1> QED BY <1>1, <1>2, <1>3, <1>4

-----------------------------------------------------------------------------
(* The names of the images among the first j records.                      *)
Named(recs, j) ==
  /\ IsList(names) /\ Passed(recs, Len(names), 1, j)
  /\ \A i \in 1..Len(names) : names[i] = recs[i].header.key.name

(* The report has the lines of the records passed, in their order; the     *)
(* first `skip' records are left out.                                      *)
Reported(recs, skip, j) ==
  /\ IsList(report) /\ skip \in Nat /\ Passed(recs, skip + Len(report), Rank[walk], j)
  /\ \A i \in 1..Len(report) : report[i] = LineOf(recs[skip + i], names, namesMax)

Counting(recs, j) == walk = "count" /\ names = <<>> /\ report = <<>> /\ Passed(recs, namesMax, 1, j)
Imaging(recs, j) == walk = "image" /\ Passed(recs, namesMax, 1, Len(recs)) /\ Named(recs, j) /\ Reported(recs, 0, j)
Naming(recs, j) ==
  /\ walk \notin {"count", "image"} /\ Passed(recs, namesMax, 1, Len(recs)) /\ Named(recs, Len(recs))
  /\ Reported(recs, 0, j)
Nameful(recs, j) == Counting(recs, j) \/ Imaging(recs, j) \/ Naming(recs, j)
Unnamed(recs, j) ==
  /\ walk \notin {"count", "image"} /\ namesMax = 0 /\ names = <<>>
  /\ \E skip : Passed(recs, skip, 1, Len(recs)) /\ Reported(recs, skip, j)

(* The cursor is behind the first j records of the database.               *)
Placed(recs, at, j) ==
  /\ Ranked(recs, 1, 6) /\ db.size \in Nat /\ Within(db.mem, 0, db.size) /\ IsChain(db.mem, recs, at, 0, db.size)
  /\ j \in 0..Len(recs) /\ cursor = at[j + 1]

Walking(recs, at, j) ==
  /\ Placed(recs, at, j) /\ walk \in Walks \cup {"end"}
  /\ Nameful(recs, j) \/ Unnamed(recs, j)

(* Where the cursor is.                                                    *)
LEMMA CursorAt ==
  ASSUME NEW recs, NEW at, NEW j, Placed(recs, at, j)
  PROVE  /\ Len(recs) \in Nat /\ j \in Nat /\ cursor \in Nat /\ cursor <= db.size /\ (cursor < db.size <=> j < Len(recs))
         /\ j < Len(recs) => /\ Written(db.mem, cursor, recs[j + 1]) /\ Fits(recs[j + 1]) /\ j + 1 \in 1..Len(recs)
                            /\ at[(j + 1) + 1] = cursor + Size(recs[j + 1])
<1> DEFINE n == Len(recs)
<1>1. IsList(recs) /\ n \in Nat /\ \A i \in 1..n : Fits(recs[i])
  BY ListIs DEF Placed, Ranked
<1>2. /\ at \in [1..n + 1 -> Nat] /\ at[n + 1] = db.size
      /\ \A k \in 1..n : at[k + 1] = at[k] + Size(recs[k]) /\ Written(db.mem, at[k], recs[k])
  BY DEF Placed, IsChain
<1>3. j \in 0..n /\ cursor = at[j + 1] /\ db.size \in Nat /\ Within(db.mem, 0, db.size)
  BY DEF Placed
<1> HIDE DEF n
<1>4. CASE j = n
  <2>1. cursor = db.size /\ ~(j < n)
    BY <1>1, <1>2, <1>3, <1>4
  <2> QED BY <1>1, <1>3, <1>4, <2>1 DEF n
<1>5. CASE j # n
  <2>1. j < n /\ j + 1 \in 1..n /\ j + 1 \in 1..n + 1
    BY <1>1, <1>3, <1>5
  <2>2. /\ cursor \in Nat /\ Written(db.mem, cursor, recs[j + 1]) /\ Fits(recs[j + 1])
        /\ at[(j + 1) + 1] = cursor + Size(recs[j + 1])
    BY <1>1, <1>2, <1>3, <2>1
  <2>3. cursor < db.size
    BY <1>3, <2>2 DEF Written, Within
  <2> QED BY <1>1, <1>3, <2>1, <2>2, <2>3 DEF n
<1> QED BY <1>4, <1>5

(* A walk that has not ended is on a record, and does with it what it is   *)
(* for.                                                                    *)
LEMMA VisitHere ==
  ASSUME NEW recs, NEW at, NEW j, Placed(recs, at, j), walk \in Walks, cursor < db.size, NEW r, r = recs[j + 1]
  PROVE  /\ OnRecord /\ Fits(r) /\ cursor + db.mem[cursor].len = at[(j + 1) + 1] /\ db.mem[cursor].key = r.header.key
         /\ Printed(walk, db.mem[cursor]) <=> Rank[WalkOf(r)] = IF walk = "count" THEN 1 ELSE Rank[walk]
         /\ walk # "count" /\ Printed(walk, db.mem[cursor]) => Line(walk, db.mem[cursor]) = LineOf(r, names, namesMax)
<1>1. /\ cursor \in Nat /\ Written(db.mem, cursor, r) /\ Fits(r) /\ at[(j + 1) + 1] = cursor + Size(r)
  BY CursorAt
<1>2. /\ OnRecord /\ db.mem[cursor] = Cell(r)
      /\ walk = WalkOf(r) => Line(walk, db.mem[cursor]) = LineOf(r, names, namesMax)
  BY <1>1, HereIs
<1>3. db.mem[cursor].len = Size(r) /\ db.mem[cursor].key = r.header.key
  BY <1>1, <1>2, CellIs DEF Fits, IsPiece
<1>4. Printed(walk, db.mem[cursor]) <=> walk = WalkOf(r) \/ (walk = "count" /\ WalkOf(r) = "image")
  BY <1>1, <1>2, PrintedIs
<1>5. WalkOf(r) \in {"image", "handle", "protocol", "smi", "root", "child"}
  BY DEF WalkOf
<1>6. walk \in {"count", "image", "handle", "protocol", "smi", "root", "child"}
  BY WalksAre
<1>7. Printed(walk, db.mem[cursor]) <=> Rank[WalkOf(r)] = IF walk = "count" THEN 1 ELSE Rank[walk]
  BY <1>4, <1>5, <1>6, RanksAre
<1>8. walk # "count" /\ Printed(walk, db.mem[cursor]) => Line(walk, db.mem[cursor]) = LineOf(r, names, namesMax)
  BY <1>2, <1>4
<1> QED BY <1>1, <1>2, <1>3, <1>7, <1>8

-----------------------------------------------------------------------------
(* A record of an image has no items, so no names.                         *)
LEMMA ImageLine ==
  ASSUME NEW r, Fits(r), Rank[WalkOf(r)] = 1, NEW ns, NEW max, NEW ms, NEW most
  PROVE  LineOf(r, ns, max) = LineOf(r, ms, most)
<1>1. WalkOf(r) = "image"
  <2>1. WalkOf(r) \in {"image", "handle", "protocol", "smi", "root", "child"}
    BY DEF WalkOf
  <2> QED BY <2>1, RanksAre
<1> DEFINE n == Len(r.groups)
<1>2. n = 0
  BY <1>1, ShapesAre DEF Fits
<1>3. \A g \in 1..n : FALSE
  BY <1>2
<1> QED BY <1>3 DEF LineOf

(* A list with one more behind it is a list.                               *)
LEMMA AppendedIsList == ASSUME NEW s, IsList(s), NEW e PROVE IsList(Append(s, e))
<1> DEFINE S == {s[i] : i \in 1..Len(s)}
<1>1. s \in Seq(S)
  BY DEF IsList
<1> HIDE DEF S
<1>2. Append(s, e) \in Seq(S \cup {e})
  BY <1>1
<1> QED BY <1>2, SeqIsList

(* A line printed for the record that the walk is on.                      *)
LEMMA LinePrinted ==
  ASSUME NEW recs, Ranked(recs, 1, 6), Len(recs) \in Nat, NEW skip, NEW j \in Nat, j < Len(recs), Reported(recs, skip, j),
         Rank[walk] \in Nat, walk' = walk, names' = names, namesMax' = namesMax,
         IF Rank[WalkOf(recs[j + 1])] = Rank[walk]
         THEN report' = Append(report, LineOf(recs[j + 1], names, namesMax)) ELSE report' = report
  PROVE  Reported(recs, skip, j + 1)'
<1> DEFINE n == Len(report)  k == Rank[walk]
<1>1. /\ IsList(report) /\ n \in Nat /\ skip \in Nat /\ Passed(recs, skip + n, k, j)
      /\ \A i \in 1..n : report[i] = LineOf(recs[skip + i], names, namesMax)
  BY ListIs DEF Reported
<1>2. Rank[walk'] = k
  OBVIOUS
<1> HIDE DEF k
<1>3. CASE Rank[WalkOf(recs[j + 1])] # k
  <2>1. report' = report /\ Passed(recs, skip + n, k, j + 1)
    BY <1>1, <1>3, PassedStep DEF k
  <2> QED BY <1>1, <1>2, <2>1 DEF Reported
<1>4. CASE Rank[WalkOf(recs[j + 1])] = k
  <2>1. skip + n = j /\ Passed(recs, j + 1, k, j + 1)
    BY <1>1, <1>4, PassedStep DEF k
  <2> DEFINE l == LineOf(recs[j + 1], names, namesMax)
  <2>2. report' = Append(report, l)
    BY <1>4 DEF k
  <2> HIDE DEF l
  <2>3. /\ IsList(report') /\ Len(report') = n + 1 /\ report'[n + 1] = l
        /\ \A i \in 1..n : report'[i] = report[i]
    BY <1>1, <2>2, AppendIs, AppendedIsList
  <2>4. \A i \in 1..n + 1 : report'[i] = LineOf(recs[skip + i], names, namesMax)
    <3>1. ASSUME NEW i \in 1..n + 1 PROVE report'[i] = LineOf(recs[skip + i], names, namesMax)
      <4>1. CASE i = n + 1
        <5>1. skip + i = j + 1
          BY <1>1, <2>1, <4>1
        <5> QED BY <2>3, <4>1, <5>1 DEF l
      <4>2. CASE i # n + 1
        <5>1. i \in 1..n
          BY <1>1, <4>2
        <5> QED BY <1>1, <2>3, <5>1
      <4> QED BY <4>1, <4>2
    <3> QED BY <3>1
  <2>5. skip + Len(report') = j + 1
    BY <1>1, <2>1, <2>3
  <2> HIDE DEF n
  <2>6. \A i \in 1..Len(report') : report'[i] = LineOf(recs[skip + i], names', namesMax')
    BY <2>3, <2>4
  <2>7. Passed(recs, skip + Len(report'), Rank[walk'], j + 1)
    BY <1>2, <2>1, <2>5
  <2> QED BY <1>1, <2>3, <2>6, <2>7 DEF Reported
<1> QED BY <1>3, <1>4

(* Counting, one record further.                                           *)
LEMMA CountingStep ==
  ASSUME NEW recs, Ranked(recs, 1, 6), Len(recs) \in Nat, NEW j \in Nat, j < Len(recs), Counting(recs, j),
         walk' = walk, names' = names, report' = report,
         namesMax' = IF Rank[WalkOf(recs[j + 1])] = 1 THEN namesMax + 1 ELSE namesMax
  PROVE  Counting(recs, j + 1)'
<1>1. walk = "count" /\ names = <<>> /\ report = <<>> /\ Passed(recs, namesMax, 1, j)
  BY DEF Counting
<1>2. Passed(recs, namesMax', 1, j + 1)
  BY <1>1, PassedStep
<1> QED BY <1>1, <1>2 DEF Counting

(* Collecting the names of the images, one record further.                 *)
LEMMA ImagingStep ==
  ASSUME NEW recs, Ranked(recs, 1, 6), Len(recs) \in Nat, NEW j \in Nat, j < Len(recs), Imaging(recs, j),
         walk' = walk, namesMax' = namesMax, NEW r, r = recs[j + 1], Fits(r),
         names' = IF Rank[WalkOf(r)] = 1 /\ Len(names) < namesMax THEN Append(names, r.header.key.name) ELSE names,
         report' = IF Rank[WalkOf(r)] = 1 THEN Append(report, LineOf(r, names, namesMax)) ELSE report
  PROVE  Imaging(recs, j + 1)'
<1>1. walk = "image" /\ Rank[walk] = 1 /\ Passed(recs, namesMax, 1, Len(recs)) /\ Named(recs, j) /\ Reported(recs, 0, j)
  BY RanksAre DEF Imaging
<1> DEFINE n == Len(names)  m == Len(report)
<1>2. /\ IsList(names) /\ n \in Nat /\ Passed(recs, n, 1, j) /\ \A i \in 1..n : names[i] = recs[i].header.key.name
      /\ IsList(report) /\ m \in Nat /\ Passed(recs, m, 1, j)
      /\ \A i \in 1..m : report[i] = LineOf(recs[i], names, namesMax)
  <2>1. \A i \in 1..m : report[i] = LineOf(recs[0 + i], names, namesMax)
    BY <1>1 DEF Reported
  <2>2. m \in Nat /\ n \in Nat /\ \A i \in 1..m : 0 + i = i
    BY <1>1, ListIs DEF Reported, Named
  <2>3. Passed(recs, 0 + m, 1, j) /\ 0 + m = m
    BY <1>1, <2>2 DEF Reported
  <2>4. IsList(names) /\ Passed(recs, n, 1, j) /\ IsList(report) /\ \A i \in 1..n : names[i] = recs[i].header.key.name
    BY <1>1 DEF Reported, Named
  <2> QED BY <2>1, <2>2, <2>3, <2>4
<1>3. CASE Rank[WalkOf(r)] # 1
  <2>1. names' = names /\ report' = report
    BY <1>3
  <2>2. Passed(recs, n, 1, j + 1) /\ Passed(recs, m, 1, j + 1)
    BY <1>2, <1>3, PassedStep
  <2>3. Named(recs, j + 1)'
    BY <1>2, <2>1, <2>2 DEF Named
  <2>4. Reported(recs, 0, j + 1)'
    <3>1. 0 + m = m /\ \A i \in 1..m : 0 + i = i
      BY <1>2
    <3>2. Passed(recs, 0 + m, Rank[walk'], j + 1) /\ \A i \in 1..m : report[i] = LineOf(recs[0 + i], names, namesMax)
      BY <1>1, <1>2, <2>2, <3>1
    <3> QED BY <1>2, <2>1, <3>2 DEF Reported
  <2> QED BY <1>1, <2>3, <2>4 DEF Imaging
<1>4. CASE Rank[WalkOf(r)] = 1
  <2>1. n = j /\ m = j /\ Passed(recs, j + 1, 1, j + 1)
    BY <1>2, <1>4, PassedStep
  <2>2. j < namesMax
    <3>1. j + 1 \in 1..Len(recs) /\ namesMax \in 0..Len(recs) /\ j + 1 <= namesMax
      BY <1>1, <1>4 DEF Passed
    <3> QED BY <3>1
  <2> DEFINE name == r.header.key.name  l == LineOf(r, names, namesMax)
  <2>3. names' = Append(names, name) /\ report' = Append(report, l)
    BY <1>4, <2>1, <2>2
  <2> HIDE DEF name, l
  <2>4. /\ IsList(names') /\ Len(names') = j + 1 /\ names'[j + 1] = name /\ \A i \in 1..j : names'[i] = names[i]
        /\ IsList(report') /\ Len(report') = j + 1 /\ report'[j + 1] = l /\ \A i \in 1..j : report'[i] = report[i]
    BY <1>2, <2>1, <2>3, AppendIs, AppendedIsList
  <2> HIDE DEF n, m
  <2>5. \A i \in 1..j + 1 : names'[i] = recs[i].header.key.name
    <3>1. \A i \in 1..j + 1 : i = j + 1 \/ i \in 1..j
      OBVIOUS
    <3>2. \A i \in 1..j : names'[i] = recs[i].header.key.name
      BY <1>2, <2>1, <2>4 DEF n
    <3> QED BY <2>4, <3>1, <3>2 DEF name
  <2>6. \A i \in 1..j + 1 : report'[i] = LineOf(recs[i], names', namesMax')
    <3>1. ASSUME NEW i \in 1..j + 1 PROVE report'[i] = LineOf(recs[i], names', namesMax')
      <4>1. i \in 1..Len(recs) /\ Fits(recs[i]) /\ Rank[WalkOf(recs[i])] = 1
        <5>1. i \in 1..Len(recs)
          OBVIOUS
        <5>2. Rank[WalkOf(recs[i])] \in 1..6
          BY <5>1 DEF Ranked
        <5> QED BY <2>1, <5>1, <5>2 DEF Passed, Ranked
      <4>2. report'[i] = LineOf(recs[i], names, namesMax)
        <5>1. CASE i = j + 1
          BY <2>4, <5>1 DEF l
        <5>2. CASE i # j + 1
          <6>1. i \in 1..j
            BY <5>2
          <6> QED BY <1>2, <2>1, <2>4, <6>1 DEF m
        <5> QED BY <5>1, <5>2
      <4> QED BY ZenonT(60), <4>1, <4>2, ImageLine
    <3> QED BY <3>1
  <2>7. Named(recs, j + 1)'
    BY <2>1, <2>4, <2>5 DEF Named
  <2>8. Reported(recs, 0, j + 1)'
    <3>1. 0 + Len(report') = j + 1 /\ \A i \in 1..j + 1 : 0 + i = i
      BY <2>4
    <3>2. Passed(recs, 0 + Len(report'), Rank[walk'], j + 1)
      BY <1>1, <2>1, <3>1
    <3>3. \A i \in 1..Len(report') : report'[i] = LineOf(recs[0 + i], names', namesMax')
      BY <2>4, <2>6, <3>1
    <3> QED BY <2>4, <3>2, <3>3 DEF Reported
  <2> QED BY <1>1, <2>7, <2>8 DEF Imaging
<1> QED BY <1>3, <1>4

(* Each turn of a walk keeps the report that of the records passed.        *)
LEMMA VisitStep ==
  ASSUME NEW recs, NEW at, NEW j, Walking(recs, at, j), Visit
  PROVE  j + 1 \in 0..Len(recs) /\ Walking(recs, at, j + 1)'
<1> DEFINE r == recs[j + 1]  c == db.mem[cursor]  L == Line(walk, c)
<1>1. Placed(recs, at, j) /\ (Nameful(recs, j) \/ Unnamed(recs, j))
  BY DEF Walking
<1>2. /\ walk \in Walks /\ cursor < db.size /\ walk' = walk /\ db' = db
      /\ namesMax' = IF walk = "count" /\ Printed(walk, c) THEN namesMax + 1 ELSE namesMax
      /\ names' = IF walk = "image" /\ Printed(walk, c) /\ Len(names) < namesMax THEN Append(names, c.key.name) ELSE names
      /\ report' = IF walk # "count" /\ Printed(walk, c) THEN Append(report, L) ELSE report
      /\ cursor' = cursor + c.len
  BY DEF Visit
<1>3. Len(recs) \in Nat /\ j \in Nat /\ j < Len(recs) /\ j + 1 \in 0..Len(recs) /\ Ranked(recs, 1, 6)
  <2>1. Len(recs) \in Nat /\ j \in 0..Len(recs) /\ Ranked(recs, 1, 6)
    BY <1>1 DEF Placed
  <2>2. j < Len(recs)
    BY <1>1, <1>2, CursorAt
  <2> QED BY <2>1, <2>2
<1>4. /\ Fits(r) /\ cursor' = at[(j + 1) + 1] /\ c.key = r.header.key
      /\ Printed(walk, c) <=> Rank[WalkOf(r)] = IF walk = "count" THEN 1 ELSE Rank[walk]
      /\ walk # "count" /\ Printed(walk, c) => L = LineOf(r, names, namesMax)
  BY <1>1, <1>2, VisitHere
<1> HIDE DEF r, c, L
<1>5. Placed(recs, at, j + 1)'
  BY <1>1, <1>2, <1>3, <1>4 DEF Placed
<1>6. Rank[walk] \in Nat
  BY <1>2, WalksAre, RanksAre
<1>7. CASE Counting(recs, j)
  <2>1. walk = "count"
    BY <1>7 DEF Counting
  <2>2. Counting(recs, j + 1)'
    BY <1>2, <1>3, <1>4, <1>7, <2>1, CountingStep DEF r
  <2> QED BY <1>2, <1>3, <1>5, <2>2 DEF Walking, Nameful
<1>8. CASE Imaging(recs, j)
  <2>1. walk = "image" /\ Rank[walk] = 1
    BY <1>8, RanksAre DEF Imaging
  <2>2. Printed(walk, c) <=> Rank[WalkOf(r)] = 1
    BY <1>4, <2>1
  <2>3. /\ names' = IF Rank[WalkOf(r)] = 1 /\ Len(names) < namesMax THEN Append(names, r.header.key.name) ELSE names
        /\ report' = IF Rank[WalkOf(r)] = 1 THEN Append(report, LineOf(r, names, namesMax)) ELSE report
        /\ namesMax' = namesMax
    BY <1>2, <1>4, <2>1, <2>2
  <2>4. Imaging(recs, j + 1)'
    BY <1>2, <1>3, <1>4, <1>8, <2>3, ImagingStep DEF r
  <2> QED BY <1>2, <1>3, <1>5, <2>4 DEF Walking, Nameful
<1>9. ASSUME walk \notin {"count", "image"}
      PROVE  /\ names' = names /\ namesMax' = namesMax
             /\ \A skip : Reported(recs, skip, j) => Reported(recs, skip, j + 1)'
  <2>1. names' = names /\ namesMax' = namesMax
    BY <1>2, <1>9
  <2>2. IF Rank[WalkOf(recs[j + 1])] = Rank[walk]
        THEN report' = Append(report, LineOf(recs[j + 1], names, namesMax)) ELSE report' = report
    BY <1>2, <1>4, <1>9 DEF r
  <2> QED BY <1>2, <1>3, <1>6, <2>1, <2>2, LinePrinted
<1>10. CASE Naming(recs, j)
  <2>1. Naming(recs, j + 1)'
    BY <1>2, <1>9, <1>10 DEF Naming, Named
  <2> QED BY <1>2, <1>3, <1>5, <2>1 DEF Walking, Nameful
<1>11. CASE Unnamed(recs, j)
  <2>1. Unnamed(recs, j + 1)'
    BY <1>2, <1>9, <1>11 DEF Unnamed
  <2> QED BY <1>2, <1>3, <1>5, <2>1 DEF Walking
<1> QED BY <1>1, <1>7, <1>8, <1>10, <1>11 DEF Nameful

(* The empty list.                                                         *)
LEMMA EmptyIsList == IsList(<<>>) /\ Len(<<>>) = 0
BY DEF IsList

(* The report goes on in the next walk.                                    *)
LEMMA ReportedOn ==
  ASSUME NEW recs, Ranked(recs, 1, 6), Len(recs) \in Nat, NEW skip, Reported(recs, skip, Len(recs)),
         Rank[walk] \in Nat, Rank[walk'] = Rank[walk] + 1, UNCHANGED <<names, namesMax, report>>
  PROVE  Reported(recs, skip, 0)'
<1>1. /\ IsList(report) /\ skip \in Nat /\ Passed(recs, skip + Len(report), Rank[walk], Len(recs))
      /\ \A i \in 1..Len(report) : report[i] = LineOf(recs[skip + i], names, namesMax)
  BY DEF Reported
<1>2. Passed(recs, skip + Len(report), Rank[walk'], 0)
  BY <1>1, PassedOn
<1> QED BY <1>1, <1>2 DEF Reported

(* At the end of a walk, the next one begins at the start of the buffer.   *)
LEMMA WalkEndsStep ==
  ASSUME NEW recs, NEW at, NEW j, Walking(recs, at, j), WalkEnds
  PROVE  0 \in 0..Len(recs) /\ Walking(recs, at, 0)'
<1> DEFINE n == Len(recs)
<1>1. Placed(recs, at, j) /\ (Nameful(recs, j) \/ Unnamed(recs, j))
  BY DEF Walking
<1>2. /\ walk \in Walks /\ cursor >= db.size /\ walk' = After[walk] /\ cursor' = 0
      /\ UNCHANGED <<db, names, namesMax, report>>
  BY DEF WalkEnds
<1>3. /\ Ranked(recs, 1, 6) /\ db.size \in Nat /\ Within(db.mem, 0, db.size) /\ IsChain(db.mem, recs, at, 0, db.size)
      /\ n \in Nat /\ j \in 0..n
  BY <1>1 DEF Placed
<1>4. j = n
  <2>1. ~(cursor < db.size)
    <3>1. cursor \in Nat
      BY <1>1, CursorAt
    <3> QED BY <1>2, <1>3, <3>1
  <2>2. ~(j < n)
    BY <1>1, <2>1, CursorAt
  <2> QED BY <1>3, <2>2
<1>5. Placed(recs, at, 0)'
  BY <1>2, <1>3 DEF Placed, IsChain
<1>6. /\ walk' \in Walks \cup {"end"} /\ walk' # "count" /\ Rank[walk] \in Nat /\ Rank[walk'] = Rank[walk] + 1
      /\ (walk = "count" <=> walk' = "image")
  BY <1>2, WalksAre, RanksAre
<1>7. CASE Counting(recs, n)
  <2>1. walk = "count" /\ names = <<>> /\ report = <<>> /\ Passed(recs, namesMax, 1, n) /\ walk' = "image" /\ Rank["image"] = 1
    BY <1>6, <1>7, RanksAre DEF Counting
  <2>2. Passed(recs, 0, 1, 0) /\ IsList(<<>>) /\ Len(<<>>) = 0
    BY <1>3, PassedFirst, EmptyIsList
  <2>3. Named(recs, 0)'
    BY <1>2, <2>1, <2>2 DEF Named
  <2>4. Reported(recs, 0, 0)'
    BY <1>2, <2>1, <2>2 DEF Reported
  <2>5. Imaging(recs, 0)'
    BY <1>2, <2>1, <2>3, <2>4 DEF Imaging
  <2> QED BY <1>3, <1>5, <1>6, <2>5 DEF Walking, Nameful
<1>8. \A skip : Reported(recs, skip, n) => Reported(recs, skip, 0)'
  BY <1>2, <1>3, <1>6, ReportedOn
<1>9. CASE Imaging(recs, n) \/ Naming(recs, n)
  <2>1. walk # "count" /\ Passed(recs, namesMax, 1, n) /\ Named(recs, n) /\ Reported(recs, 0, n)
    BY <1>9 DEF Imaging, Naming
  <2>2. walk' \notin {"count", "image"}
    BY <1>6, <2>1
  <2>3. Naming(recs, 0)'
    BY <1>2, <1>8, <2>1, <2>2 DEF Naming, Named
  <2> QED BY <1>3, <1>5, <1>6, <2>3 DEF Walking, Nameful
<1>10. CASE Unnamed(recs, n)
  <2>1. walk' \notin {"count", "image"}
    BY <1>6, <1>10 DEF Unnamed
  <2>2. Unnamed(recs, 0)'
    BY <1>2, <1>8, <1>10, <2>1 DEF Unnamed
  <2> QED BY <1>3, <1>5, <1>6, <2>2 DEF Walking
<1> QED BY <1>1, <1>4, <1>7, <1>9, <1>10 DEF Nameful

(* Without a table of names, the walks go on behind the images.            *)
LEMMA NoNamesStep ==
  ASSUME NEW recs, NEW at, NEW j, Walking(recs, at, j), NoNames
  PROVE  0 \in 0..Len(recs) /\ Walking(recs, at, 0)'
<1> DEFINE n == Len(recs)
<1>1. Placed(recs, at, j) /\ (Nameful(recs, j) \/ Unnamed(recs, j))
  BY DEF Walking
<1>2. /\ walk = "count" /\ cursor >= db.size /\ walk' = "handle" /\ cursor' = 0 /\ namesMax' = 0
      /\ UNCHANGED <<db, names, report>>
  BY DEF NoNames
<1>3. /\ Ranked(recs, 1, 6) /\ db.size \in Nat /\ Within(db.mem, 0, db.size) /\ IsChain(db.mem, recs, at, 0, db.size)
      /\ n \in Nat /\ j \in 0..n
  BY <1>1 DEF Placed
<1>4. j = n
  <2>1. ~(cursor < db.size)
    <3>1. cursor \in Nat
      BY <1>1, CursorAt
    <3> QED BY <1>2, <1>3, <3>1
  <2>2. ~(j < n)
    BY <1>1, <2>1, CursorAt
  <2> QED BY <1>3, <2>2
<1>5. Placed(recs, at, 0)'
  BY <1>2, <1>3 DEF Placed, IsChain
<1>6. names = <<>> /\ report = <<>> /\ Passed(recs, namesMax, 1, n) /\ Rank["handle"] = 2
  BY <1>1, <1>2, <1>4, RanksAre DEF Nameful, Counting, Imaging, Naming, Unnamed
<1> PICK p : p = namesMax
  OBVIOUS
<1>7. Passed(recs, p, 1, n) /\ Passed(recs, p, 2, 0) /\ p \in Nat
  <2>1. Passed(recs, p, 1 + 1, 0)
    BY <1>3, <1>6, PassedOn
  <2> QED BY <2>1, <1>6, <1>3 DEF Passed
<1>8. Reported(recs, p, 0)'
  <2>1. p + 0 = p /\ IsList(<<>>) /\ Len(<<>>) = 0
    BY <1>7, EmptyIsList
  <2>2. \A i \in 1..0 : FALSE
    OBVIOUS
  <2> QED BY <1>2, <1>6, <1>7, <2>1, <2>2 DEF Reported
<1>9. Unnamed(recs, 0)'
  BY <1>2, <1>6, <1>7, <1>8 DEF Unnamed
<1> QED BY <1>2, <1>3, <1>5, <1>9, WalksAre DEF Walking

-----------------------------------------------------------------------------
(* The records of the database that the driver builds.                     *)
Recs == AllRecords(images, core, platform.child)

(* What is in the database.                                                *)
DataInv ==
  present => /\ apc \in {"register", "done", "assert"}
             /\ core = UninstallProtocolInterface(InstallProtocolInterface(Lists0))
             /\ sizes = GetSmmCoreDatabaseSize(images, core, platform.child)
             /\ mem = GetSmmCoreDatabaseData(images, core, platform.child, sizes).mem

(* The application has printed nothing.                                    *)
Blank == cursor = 0 /\ db.size = 0 /\ names = <<>> /\ namesMax = 0 /\ report = <<>>

(* The application walks the database of the driver, or it never starts.   *)
AppInv ==
  \/ walk \in {"wait", "end"} /\ Blank
  \/ apc = "done" /\ present /\ \E at, j : Walking(Recs, at, j)

SystemInv == AgentInv /\ DataInv /\ AppInv

(* SystemInv implies that no walk derails.                                 *)
LEMMA OnTheRecords == SystemInv => NeverDerails
<1> SUFFICES ASSUME SystemInv PROVE NeverDerails
  OBVIOUS
<1>1. CASE walk \in {"wait", "end"} /\ Blank
  BY <1>1, WalksAre DEF Blank, NeverDerails
<1>2. ASSUME NEW at, NEW j, Walking(Recs, at, j) PROVE NeverDerails
  <2>1. Placed(Recs, at, j)
    BY <1>2 DEF Walking
  <2>2. cursor <= db.size
    BY <2>1, CursorAt
  <2>3. walk \in Walks /\ cursor < db.size => OnRecord
    BY <2>1, VisitHere
  <2> QED BY <2>2, <2>3 DEF NeverDerails
<1> QED BY <1>1, <1>2 DEF SystemInv, AppInv

(* The lists of the database can be followed.                              *)
LEMMA DatabaseFollowed ==
  ASSUME AgentInv, core = UninstallProtocolInterface(InstallProtocolInterface(Lists0))
  PROVE  Followed(images, core, platform.child)
<1>1. ListsForm(platform) /\ IsList(images)
  BY PlatformsAssumption DEF AgentInv
<1>2. /\ core.handles = platform.handles /\ core.smis = platform.smis /\ core.roots = platform.roots
      /\ UpToOwn(core.protocols) = platform.protocols
  BY <1>1, ProbesUndone DEF AgentInv
<1>3. /\ Len(platform.handles) \in Nat /\ \A i \in 1..Len(platform.handles) : Len(platform.handles[i].interfaces) \in Nat
      /\ Len(platform.protocols) \in Nat
      /\ \A i \in 1..Len(platform.protocols) : Len(platform.protocols[i].interfaces) \in Nat /\ Len(platform.protocols[i].notifies) \in Nat
      /\ Len(platform.smis) \in Nat /\ (\A i \in 1..Len(platform.smis) : Len(platform.smis[i].handlers) \in Nat)
      /\ Len(platform.roots) \in Nat /\ Len(platform.child.callbacks) \in Nat
  BY <1>1, ListIs DEF ListsForm
<1> QED BY <1>1, <1>2, <1>3 DEF Followed

(* The application starts on the first record.                             *)
LEMMA FetchStep ==
  ASSUME AgentInv, DataInv, present, walk = "wait", Blank, StartWalk(TotalSize(sizes), mem), UNCHANGED agentVars
  PROVE  \E at, j : Walking(Recs, at, j)'
<1>1. PICK imgs, c, child, z, m : imgs = images /\ c = core /\ child = platform.child /\ z = sizes /\ m = mem
  OBVIOUS
<1> DEFINE recs == AllRecords(imgs, c, child)
<1>2. Followed(imgs, c, child) /\ z = GetSmmCoreDatabaseSize(imgs, c, child) /\ m = GetSmmCoreDatabaseData(imgs, c, child, z).mem
  BY <1>1, DatabaseFollowed DEF DataInv
<1>3. Chain(m, recs, 0, TotalSize(z))
  BY <1>2, DatabaseChain
<1>4. Ranked(recs, 1, 6) /\ Len(recs) \in Nat
  BY <1>2, RecordsRanked
<1>5. recs = Recs /\ recs = Recs'
  BY <1>1 DEF Recs, agentVars
<1> HIDE DEF recs
<1>6. db' = [size |-> TotalSize(z), mem |-> m] /\ walk' = "count" /\ UNCHANGED <<cursor, names, namesMax, report>>
  BY <1>1 DEF StartWalk
<1>7. PICK at : IsChain(m, recs, at, 0, TotalSize(z))
  BY <1>3 DEF Chain
<1>8. Placed(recs, at, 0)'
  <2>1. db'.size = TotalSize(z) /\ db'.mem = m
    BY <1>6
  <2>2. TotalSize(z) \in Nat /\ Within(m, 0, TotalSize(z)) /\ at[0 + 1] = 0
    BY <1>3, <1>7 DEF Chain, IsChain
  <2>3. cursor' = 0 /\ 0 \in 0..Len(recs)
    BY <1>4, <1>6 DEF Blank
  <2> QED BY <1>4, <1>7, <2>1, <2>2, <2>3 DEF Placed
<1>9. Counting(recs, 0)'
  <2>1. Passed(recs, 0, 1, 0)
    BY <1>4, PassedFirst
  <2> QED BY <1>6, <2>1 DEF Counting, Blank
<1>10. Walking(recs, at, 0)'
  BY <1>6, <1>8, <1>9, WalksAre DEF Walking, Nameful
<1> QED BY <1>5, <1>10

(* Every step of a walk keeps it on the records.                           *)
LEMMA WalkStep ==
  ASSUME NEW recs, NEW at, NEW j, Walking(recs, at, j), AppWalkNext
  PROVE  \E l : Walking(recs, at, l)'
BY VisitStep, WalkEndsStep, NoNamesStep DEF AppWalkNext

(* A step of the driver that leaves the database alone.                    *)
LEMMA DataKept ==
  ASSUME AgentInv, DataInv, UNCHANGED <<platform, core, images, sizes, present, mem>>,
         present => apc' \in {"register", "done", "assert"}
  PROVE  DataInv'
BY DEF DataInv, Lists0

(* Every step of the driver keeps DataInv.                                 *)
LEMMA DataStep == ASSUME AgentInv, DataInv, AgentNext PROVE DataInv'
<1>1. present => apc \in {"register", "done", "assert"}
  BY DEF DataInv
<1>2. CASE GetSmmLoadedImageFails
  BY <1>1, <1>2, DataKept DEF GetSmmLoadedImageFails
<1>3. CASE GetSmmLoadedImage
  BY <1>1, <1>3 DEF GetSmmLoadedImage, DataInv
<1>4. CASE GetLoadedImageFails
  BY <1>1, <1>4, DataKept DEF GetLoadedImageFails
<1>5. CASE GetLoadedImage
  BY <1>1, <1>5 DEF GetLoadedImage, DataInv
<1>6. CASE InstallFails
  BY <1>1, <1>6, DataKept DEF InstallFails
<1>7. CASE Install
  BY <1>1, <1>7 DEF Install, DataInv
<1>8. CASE Discover
  BY <1>1, <1>8, DataKept DEF Discover
<1>9. CASE UninstallFails
  BY <1>1, <1>9, DataKept DEF UninstallFails
<1>10. CASE Uninstall
  BY <1>1, <1>10 DEF Uninstall, DataInv
<1>11. ASSUME NEW ok \in BOOLEAN, ProbeSmiEntryList(ok) \/ ProbeRootSmiHandlerList(ok) PROVE DataInv'
  BY <1>1, <1>11, DataKept DEF ProbeSmiEntryList, ProbeRootSmiHandlerList
<1>12. CASE BuildSize
  BY <1>1, <1>12 DEF BuildSize, DataInv
<1>13. CASE BuildAllocateFails
  BY <1>1, <1>13, DataKept DEF BuildAllocateFails
<1>14. CASE BuildData
  <2>1. /\ apc = "pool" /\ mem' = GetSmmCoreDatabaseData(images, core, platform.child, sizes).mem
        /\ apc' = "register" /\ UNCHANGED <<platform, core, images, sizes>>
    BY <1>14 DEF BuildData
  <2>2. /\ core = UninstallProtocolInterface(InstallProtocolInterface(Lists0))
        /\ sizes = GetSmmCoreDatabaseSize(images, core, platform.child)
    BY <2>1 DEF AgentInv
  <2>3. /\ core' = UninstallProtocolInterface(InstallProtocolInterface(Lists0'))
        /\ sizes' = GetSmmCoreDatabaseSize(images', core', platform.child')
        /\ mem' = GetSmmCoreDatabaseData(images', core', platform.child', sizes').mem
    BY <2>1, <2>2 DEF Lists0
  <2> QED BY <2>1, <2>3 DEF DataInv
<1>15. CASE RegisterFails
  BY <1>1, <1>15, DataKept DEF RegisterFails
<1>16. CASE RegisterSmmCoreDumpHandler
  BY <1>1, <1>16, DataKept DEF RegisterSmmCoreDumpHandler
<1> QED BY <1>2, <1>3, <1>4, <1>5, <1>6, <1>7, <1>8, <1>9, <1>10, <1>11, <1>12, <1>13, <1>14, <1>15, <1>16 DEF AgentNext

(* The driver has finished when the application runs.                      *)
LEMMA AgentDone == apc = "done" => ~AgentNext
BY DEF AgentNext, GetSmmLoadedImageFails, GetSmmLoadedImage, GetLoadedImageFails, GetLoadedImage, InstallFails, Install,
       Discover, UninstallFails, Uninstall, ProbeSmiEntryList, ProbeRootSmiHandlerList, BuildSize, BuildAllocateFails,
       BuildData, RegisterFails, RegisterSmmCoreDumpHandler

(* Every step of the driver and the application keeps SystemInv.           *)
LEMMA SystemStep == ASSUME SystemInv, Next PROVE SystemInv'
<1>1. AgentInv /\ DataInv /\ AppInv
  BY DEF SystemInv
<1>2. ASSUME UNCHANGED agentVars PROVE AgentInv' /\ DataInv' /\ Recs' = Recs
  BY <1>1, <1>2 DEF AgentInv, DataInv, Lists0, agentVars, Recs
<1>3. CASE Agent
  <2>1. AgentNext /\ UNCHANGED appWalkVars
    BY <1>3 DEF Agent
  <2>2. AgentInv' /\ DataInv'
    BY <1>1, <2>1, AgentStep, DataStep
  <2>3. walk \in {"wait", "end"} /\ Blank
    BY <1>1, <2>1, AgentDone DEF AppInv
  <2>4. walk' \in {"wait", "end"} /\ Blank'
    BY <2>1, <2>3 DEF appWalkVars, Blank
  <2> QED BY <2>2, <2>4 DEF SystemInv, AppInv
<1>4. CASE Fetch
  <2>1. apc = "done" /\ UNCHANGED agentVars /\ ((present /\ StartWalk(TotalSize(sizes), mem)) \/ GiveUp)
    BY <1>4 DEF Fetch
  <2>2. apc' = "done" /\ present' = present
    BY <2>1 DEF agentVars
  <2>3. walk = "wait" /\ Blank
    <3>1. walk = "wait"
      BY <2>1 DEF StartWalk, GiveUp
    <3>2. \A recs, at, j : ~Walking(recs, at, j)
      BY <3>1, WalksAre DEF Walking
    <3> QED BY <1>1, <3>1, <3>2 DEF AppInv
  <2>4. CASE present /\ StartWalk(TotalSize(sizes), mem)
    <3>1. \E at, j : Walking(Recs, at, j)'
      BY <1>1, <2>1, <2>3, <2>4, FetchStep
    <3> QED BY <1>2, <2>1, <2>2, <2>4, <3>1 DEF SystemInv, AppInv
  <2>5. CASE GiveUp
    <3>1. walk' = "end" /\ Blank'
      BY <2>3, <2>5 DEF GiveUp, Blank
    <3> QED BY <1>2, <2>1, <3>1 DEF SystemInv, AppInv
  <2> QED BY <2>1, <2>4, <2>5
<1>5. CASE Walk
  <2>1. AppWalkNext /\ UNCHANGED agentVars
    BY <1>5 DEF Walk
  <2>2. walk \in Walks
    BY <2>1, WalksAre DEF AppWalkNext, Visit, WalkEnds, NoNames
  <2>3. apc = "done" /\ present /\ \E at, j : Walking(Recs, at, j)
    BY <1>1, <2>2, WalksAre DEF AppInv
  <2>4. PICK recs, at, j : recs = Recs /\ Walking(recs, at, j)
    BY <2>3
  <2>5. PICK l : Walking(recs, at, l)'
    BY <2>1, <2>4, WalkStep
  <2>6. recs = Recs' /\ apc' = "done" /\ present'
    BY <1>2, <2>1, <2>3, <2>4 DEF agentVars
  <2> QED BY <1>2, <2>1, <2>5, <2>6 DEF SystemInv, AppInv
<1> QED BY <1>3, <1>4, <1>5 DEF Next

(* The initial states satisfy SystemInv.                                   *)
LEMMA SystemInit == Init => SystemInv
BY InitInv, WalksAre DEF Init, AgentInit, AppWalkInit, SystemInv, DataInv, AppInv, Blank

(* So do states where nothing happens.                                     *)
LEMMA SystemStays == ASSUME SystemInv, UNCHANGED vars PROVE SystemInv'
<1>1. UNCHANGED agentVars /\ UNCHANGED appWalkVars
  BY DEF vars
<1>2. AgentInv' /\ DataInv' /\ Recs' = Recs /\ apc' = apc /\ present' = present
  BY <1>1 DEF SystemInv, AgentInv, DataInv, Lists0, agentVars, Recs
<1>3. ASSUME NEW recs, NEW at, NEW j PROVE Walking(recs, at, j)' <=> Walking(recs, at, j)
  BY <1>1 DEF appWalkVars, Walking, Placed, Nameful, Unnamed, Counting, Imaging, Naming, Named, Reported
<1>4. AppInv'
  BY <1>1, <1>2, <1>3 DEF SystemInv, AppInv, appWalkVars, Blank
<1> QED BY <1>2, <1>4 DEF SystemInv

(* Every reachable state satisfies SystemInv.                              *)
THEOREM SystemInvariant == Spec => []SystemInv
BY SystemInit, SystemStep, SystemStays, PTL DEF Spec

(* No walk of the application leaves the chain of records or runs past the *)
(* end of the buffer, whatever the lists of the platform hold.             *)
THEOREM NeverDerailsAlways == Spec => []NeverDerails
BY SystemInvariant, OnTheRecords, PTL

-----------------------------------------------------------------------------
(* The smallest of some indices.                                           *)
LEMMA SmallestIs ==
  ASSUME NEW S, S \subseteq Nat, S # {}, NEW k, k = CHOOSE i \in S : \A j \in S : i <= j
  PROVE  k \in S /\ \A j \in S : k <= j
<1> DEFINE R == OpToRel(<, Nat)
<1>1. IsWellFoundedOn(R, Nat)
  BY NatLessThanWellFounded
<1>2. PICK x \in S : \A y \in S : ~(<<y, x>> \in R)
  BY <1>1, WFMin
<1>3. \A y \in S : ~(y < x) /\ x <= y
  <2>1. ASSUME NEW y \in S PROVE ~(y < x)
    <3>1. y \in Nat /\ x \in Nat /\ (y < x => <<y, x>> \in R)
      BY DEF OpToRel
    <3> HIDE DEF R
    <3> QED BY <1>2, <3>1
  <2> QED BY <2>1
<1> QED BY <1>3

(* The images of a table that hold an address, and the name of the first.  *)
Hits(imgs, a) == {i \in 1..Len(imgs) : Holds(imgs[i], a)}
NameIn(imgs, a) ==
  IF AddressToImageRef(imgs, a) = NoRef THEN UNKNOWN_NAME ELSE imgs[AddressToImageRef(imgs, a) + 1].name

(* What a reference is.                                                    *)
LEMMA RefIs ==
  ASSUME NEW imgs, Len(imgs) \in Nat, NEW a, NEW ref, ref = AddressToImageRef(imgs, a)
  PROVE  /\ ref = NoRef <=> Hits(imgs, a) = {}
         /\ ref # NoRef => ref \in Nat /\ ref + 1 \in Hits(imgs, a) /\ \A i \in Hits(imgs, a) : ref + 1 <= i
<1> DEFINE hits == Hits(imgs, a)  first == CHOOSE i \in hits : \A j \in hits : i <= j
<1>1. ref = IF hits = {} THEN NoRef ELSE first - 1
  BY DEF AddressToImageRef, Hits
<1>2. CASE hits = {}
  BY <1>1, <1>2
<1>3. CASE hits # {}
  <2>1. hits \subseteq Nat
    BY DEF Hits
  <2>2. first \in hits /\ \A j \in hits : first <= j
    <3> HIDE DEF hits
    <3>1. PICK k : k = CHOOSE i \in hits : \A j \in hits : i <= j
      OBVIOUS
    <3> QED BY <1>3, <2>1, <3>1, SmallestIs
  <2>3. first \in 1..Len(imgs)
    BY <2>2 DEF Hits
  <2> HIDE DEF hits, first
  <2>4. ref = first - 1 /\ first \in Nat /\ first >= 1
    BY <1>1, <1>3, <2>3
  <2>5. ref \in Nat /\ ref # NoRef /\ ref + 1 = first
    BY <2>4 DEF NoRef
  <2> QED BY <1>3, <2>2, <2>5 DEF hits
<1> QED BY <1>2, <1>3

(* Two tables that know the same images, where the images of one that      *)
(* overlap bear one name, give the same names.                             *)
LEMMA SameNames ==
  ASSUME NEW imgs, NEW all, Len(imgs) \in Nat, Len(all) \in Nat, NEW a,
         \A i \in Hits(imgs, a) : \E j \in Hits(all, a) : imgs[i].name = all[j].name,
         \A j \in Hits(all, a) : \E i \in Hits(imgs, a) : imgs[i].name = all[j].name,
         \A i, j \in Hits(all, a) : all[i].name = all[j].name
  PROVE  /\ AddressToImageRef(imgs, a) = NoRef <=> Hits(all, a) = {}
         /\ NameIn(imgs, a) = NameIn(all, a)
<1> DEFINE ref == AddressToImageRef(imgs, a)  to == AddressToImageRef(all, a)
<1>1. /\ ref = NoRef <=> Hits(imgs, a) = {}
      /\ ref # NoRef => ref + 1 \in Hits(imgs, a)
      /\ to = NoRef <=> Hits(all, a) = {}
      /\ to # NoRef => to + 1 \in Hits(all, a)
  BY RefIs
<1>2. Hits(imgs, a) = {} <=> Hits(all, a) = {}
  OBVIOUS
<1>3. NameIn(imgs, a) = (IF ref = NoRef THEN UNKNOWN_NAME ELSE imgs[ref + 1].name) /\ NameIn(all, a) = (IF to = NoRef THEN UNKNOWN_NAME ELSE all[to + 1].name)
  BY DEF NameIn
<1> HIDE DEF ref, to
<1>4. CASE Hits(all, a) = {}
  BY <1>1, <1>2, <1>3, <1>4 DEF ref
<1>5. CASE Hits(all, a) # {}
  <2>1. ref # NoRef /\ to # NoRef
    BY <1>1, <1>2, <1>5
  <2>2. imgs[ref + 1].name = all[to + 1].name
    BY <1>1, <2>1
  <2> QED BY <1>3, <1>5, <2>1, <2>2 DEF ref
<1> QED BY <1>4, <1>5

-----------------------------------------------------------------------------
(* What an image structure says of an image.                               *)
Alike(x, y) == x.base = y.base /\ x.size = y.size /\ x.name = y.name

(* The structure of an image.                                              *)
LEMMA StructIs ==
  /\ \A x : Alike(ImageStruct(x), x)
  /\ \A x, y : ImageStruct(x) = ImageStruct(y) => Alike(x, y)
<1>1. ASSUME NEW x
      PROVE  ImageStruct(x).base = x.base /\ ImageStruct(x).size = x.size /\ ImageStruct(x).name = x.name
  BY DEF ImageStruct
<1>2. ASSUME NEW x, NEW y, ImageStruct(x) = ImageStruct(y) PROVE Alike(x, y)
  <2>1. /\ ImageStruct(x).base = x.base /\ ImageStruct(x).size = x.size /\ ImageStruct(x).name = x.name
        /\ ImageStruct(y).base = y.base /\ ImageStruct(y).size = y.size /\ ImageStruct(y).name = y.name
    BY <1>1
  <2> QED BY <1>2, <2>1 DEF Alike
<1> QED BY <1>1, <1>2 DEF Alike

(* The images of a platform are lists of images.                           *)
LEMMA ImagesAre ==
  ASSUME platform \in Platforms
  PROVE  /\ IsList(platform.smmImages) /\ IsList(SmramImages) /\ AreImages(platform.smmImages) /\ AreImages(SmramImages)
         /\ Len(platform.dxeImages) \in Nat /\ Len(platform.smmImages) \in Nat /\ Len(SmramImages) \in Nat
         /\ IsList(AllImages) /\ AreImages(AllImages) /\ Len(AllImages) = Len(platform.smmImages) + Len(SmramImages)
         /\ \A i \in 1..Len(platform.smmImages) : AllImages[i] = platform.smmImages[i]
         /\ \A i \in 1..Len(SmramImages) : AllImages[Len(platform.smmImages) + i] = SmramImages[i]
<1> DEFINE dxe == platform.dxeImages  smm == platform.smmImages  T == {dxe[i] : i \in 1..Len(dxe)}
<1>1. IsList(dxe) /\ IsList(smm) /\ AreImages(dxe) /\ AreImages(smm)
  BY PlatformsAssumption DEF ListsForm, AddressesForm
<1>2. dxe \in Seq(T) /\ \A x \in T : x.base \in Nat /\ x.size \in Nat
  BY <1>1 DEF IsList, AreImages
<1>3. SmramImages = InSmram(dxe)[Len(dxe)]
  BY DEF SmramImages
<1> HIDE DEF T, dxe, smm
<1>4. SmramImages \in Seq(T)
  BY <1>2, <1>3, KeptAreListed
<1>5. IsList(SmramImages) /\ Len(SmramImages) \in Nat /\ Len(smm) \in Nat /\ Len(dxe) \in Nat
  BY <1>1, <1>4, SeqIsList, ListIs
<1>6. AreImages(SmramImages)
  <2>1. \A i \in 1..Len(SmramImages) : SmramImages[i] \in T
    BY <1>4
  <2> QED BY <1>2, <2>1 DEF AreImages
<1>7. /\ IsList(AllImages) /\ Len(AllImages) = Len(smm) + Len(SmramImages)
      /\ \A i \in 1..Len(smm) : AllImages[i] = smm[i]
      /\ \A i \in 1..Len(SmramImages) : AllImages[Len(smm) + i] = SmramImages[i]
  BY <1>1, <1>5, JoinIs DEF AllImages, smm
<1>8. AreImages(AllImages)
  <2>1. ASSUME NEW i \in 1..Len(AllImages) PROVE AllImages[i].base \in Nat /\ AllImages[i].size \in Nat
    <3>1. CASE i <= Len(smm)
      <4>1. i \in 1..Len(smm) /\ AllImages[i] = smm[i]
        BY <1>5, <1>7, <3>1
      <4> QED BY <1>1, <4>1 DEF AreImages
    <3>2. CASE ~(i <= Len(smm))
      <4>1. PICK l \in 1..Len(SmramImages) : i = Len(smm) + l
        <5>1. i - Len(smm) \in 1..Len(SmramImages) /\ i = Len(smm) + (i - Len(smm))
          BY <1>5, <1>7, <3>2
        <5> QED BY <5>1
      <4>2. AllImages[i] = SmramImages[l]
        BY <1>7, <4>1
      <4> QED BY <1>6, <4>2 DEF AreImages
    <3> QED BY <3>1, <3>2
  <2> QED BY <2>1 DEF AreImages
<1> QED BY <1>1, <1>5, <1>6, <1>7, <1>8 DEF smm, dxe

(* The name that the tables of the platform give to an address.            *)
LEMMA PlatformNameIs ==
  ASSUME platform \in Platforms, NEW a
  PROVE  Holders(a) = Hits(AllImages, a) /\ PlatformName(a) = NameIn(AllImages, a)
<1> DEFINE hits == Hits(AllImages, a)  first == CHOOSE i \in hits : \A j \in hits : i <= j  ref == AddressToImageRef(AllImages, a)
<1>1. Holders(a) = hits
  BY DEF Holders, Hits
<1>2. ref = IF hits = {} THEN NoRef ELSE first - 1
  BY DEF AddressToImageRef, Hits
<1>3. PlatformName(a) = IF hits = {} THEN UNKNOWN_NAME ELSE AllImages[first].name
  BY <1>1 DEF PlatformName
<1>4. NameIn(AllImages, a) = IF ref = NoRef THEN UNKNOWN_NAME ELSE AllImages[ref + 1].name
  BY DEF NameIn
<1>5. Len(AllImages) \in Nat
  BY ImagesAre, ListIs
<1>6. /\ ref = NoRef <=> hits = {}
      /\ ref # NoRef => ref \in Nat /\ ref + 1 \in hits
  BY <1>5, RefIs
<1>7. hits # {} => first \in hits
  <2> HIDE DEF hits
  <2>1. hits \subseteq Nat
    BY DEF hits, Hits
  <2>2. PICK k : k = CHOOSE i \in hits : \A j \in hits : i <= j
    OBVIOUS
  <2> QED BY <2>1, <2>2, SmallestIs
<1>8. hits # {} => first \in Nat
  BY <1>7 DEF Hits
<1> HIDE DEF hits, first, ref
<1>9. hits # {} => ref + 1 = first
  BY <1>2, <1>6, <1>8
<1> QED BY <1>1, <1>3, <1>4, <1>6, <1>9 DEF hits

(* The table names every address as the platform does.                     *)
NamesRight(imgs) ==
  \A a \in Nat : /\ AddressToImageRef(imgs, a) = NoRef <=> Holders(a) = {}
                 /\ NameIn(imgs, a) = PlatformName(a)

(* A table that has all images of the platform, and blank slots at most    *)
(* besides them, names the addresses right.                                *)
LEMMA TableNames ==
  ASSUME platform \in Platforms, TablesAgree(platform), NEW imgs, IsList(imgs),
         \A i \in 1..Len(imgs) : \/ imgs[i].base = 0 /\ imgs[i].size = 0
                                 \/ \E j \in 1..Len(AllImages) : Alike(imgs[i], AllImages[j]),
         \A j \in 1..Len(AllImages) : \E i \in 1..Len(imgs) : Alike(imgs[i], AllImages[j])
  PROVE  NamesRight(imgs)
<1> DEFINE all == AllImages
<1>1. Len(imgs) \in Nat /\ Len(all) \in Nat /\ AreImages(all)
  BY ImagesAre, ListIs
<1>2. \A i, j \in 1..Len(all) : Overlap(all[i], all[j]) => all[i].name = all[j].name
  BY DEF TablesAgree, AllImages, SmramImages
<1> HIDE DEF all
<1>3. ASSUME NEW a \in Nat
      PROVE  (AddressToImageRef(imgs, a) = NoRef <=> Holders(a) = {}) /\ NameIn(imgs, a) = PlatformName(a)
  <2>1. ASSUME NEW x, NEW y, Alike(x, y) PROVE (Holds(x, a) <=> Holds(y, a)) /\ x.name = y.name
    BY <2>1 DEF Alike, Holds
  <2>2. ASSUME NEW i \in Hits(imgs, a) PROVE \E j \in Hits(all, a) : imgs[i].name = all[j].name
    <3>1. i \in 1..Len(imgs) /\ Holds(imgs[i], a)
      BY DEF Hits
    <3>2. ~(imgs[i].base = 0 /\ imgs[i].size = 0)
      BY <3>1 DEF Holds
    <3>3. PICK j \in 1..Len(all) : Alike(imgs[i], all[j])
      BY <3>1, <3>2 DEF all
    <3> QED BY <2>1, <3>1, <3>3 DEF Hits
  <2>3. ASSUME NEW j \in Hits(all, a) PROVE \E i \in Hits(imgs, a) : imgs[i].name = all[j].name
    <3>1. j \in 1..Len(all) /\ Holds(all[j], a)
      BY DEF Hits
    <3>2. PICK i \in 1..Len(imgs) : Alike(imgs[i], all[j])
      BY <3>1 DEF all
    <3> QED BY <2>1, <3>1, <3>2 DEF Hits
  <2>4. ASSUME NEW i \in Hits(all, a), NEW j \in Hits(all, a) PROVE all[i].name = all[j].name
    <3>1. i \in 1..Len(all) /\ Holds(all[i], a) /\ j \in 1..Len(all) /\ Holds(all[j], a)
      BY DEF Hits
    <3>2. Overlap(all[i], all[j])
      <4>1. all[i].base \in Nat /\ all[i].size \in Nat /\ all[j].base \in Nat /\ all[j].size \in Nat
        BY <1>1, <3>1 DEF AreImages
      <4> QED BY <3>1, <4>1 DEF Holds, Overlap
    <3> QED BY <1>2, <3>1, <3>2
  <2>5. (AddressToImageRef(imgs, a) = NoRef <=> Hits(all, a) = {}) /\ NameIn(imgs, a) = NameIn(all, a)
    BY <1>1, <2>2, <2>3, <2>4, SameNames
  <2> QED BY <2>5, PlatformNameIs DEF all
<1> QED BY <1>3 DEF NamesRight

-----------------------------------------------------------------------------
(* The table of the driver: where it stands in filling it, and that it is  *)
(* right when it is used.                                                  *)
TableInv ==
  /\ imageMax \in Nat /\ Len(images) <= imageMax
  /\ coreFound \in BOOLEAN /\ present \in BOOLEAN /\ registered \in BOOLEAN
  /\ apc = "images" => images = <<>>
  /\ apc = "fallback" => \/ images = <<>>
                         \/ Len(images) = Len(platform.smmImages) /\ ~HasCore(platform.smmImages)
  /\ apc \in {"install", "discover", "uninstall", "probeSmi", "probeRoot", "size", "pool", "register"} \/ present =>
       NamesRight(images)

(* A step that leaves the table alone.                                     *)
LEMMA TableKept ==
  ASSUME TableInv, UNCHANGED <<platform, images, imageMax, coreFound>>, apc' \in AgentPcs \ {"images"},
         registered' \in BOOLEAN, present' \in BOOLEAN,
         apc' = "fallback" => images = <<>>,
         apc' \notin {"fallback", "done", "assert", "undefined"} \/ present' => NamesRight(images)
  PROVE  TableInv'
<1>1. platform' = platform /\ images' = images
  OBVIOUS
<1>2. AllImages' = AllImages
  BY <1>1 DEF AllImages, SmramImages
<1>3. NamesRight(images)' <=> NamesRight(images)
  BY <1>1, <1>2, Zenon DEF NamesRight, NameIn, PlatformName, Holders
<1> QED BY <1>3 DEF TableInv, AgentPcs

(* The table filled from the SMM handle database.                          *)
LEMMA SmmTable ==
  ASSUME AgentInv, TableInv, TablesAgree(platform), DataInv, GetSmmLoadedImage
  PROVE  TableInv'
<1> DEFINE smm == platform.smmImages  n == Len(smm)
<1>1. platform \in Platforms /\ apc = "images" /\ ~present
  BY DEF AgentInv, DataInv, GetSmmLoadedImage
<1>2. IsList(smm) /\ n \in Nat
  BY <1>1, ImagesAre, ListIs
<1>3. /\ images' = AddImageStructs(<<>>, smm, n) /\ imageMax' = n /\ coreFound' = HasCore(smm)
      /\ apc' = (IF coreFound' THEN "install" ELSE "fallback") /\ UNCHANGED <<platform, present, registered>>
  BY DEF GetSmmLoadedImage
<1> DEFINE t == [i \in 1..n |-> ImageStruct(smm[i])]
<1>4. images' = <<>> \o t
  BY <1>2, <1>3 DEF AddImageStructs, Overflows
<1>5. t \in [1..n -> {ImageStruct(smm[i]) : i \in 1..n}] /\ \A i \in 1..n : t[i] = ImageStruct(smm[i])
  OBVIOUS
<1> HIDE DEF t, n
<1>6. IsList(t) /\ Len(t) = n /\ IsList(<<>>) /\ Len(<<>>) = 0
  BY <1>2, <1>5, BuiltIsList, EmptyIsList
<1>7. IsList(images') /\ Len(images') = n /\ \A i \in 1..n : images'[i] = ImageStruct(smm[i])
  <2>1. IsList(images') /\ Len(images') = 0 + n /\ \A i \in 1..n : images'[0 + i] = t[i]
    BY <1>4, <1>6, JoinIs
  <2> QED BY <1>2, <1>5, <2>1
<1>8. ASSUME HasCore(smm) PROVE NamesRight(images)'
  <2> DEFINE all == AllImages
  <2>1. \A i \in 1..n : Alike(images'[i], all[i]) /\ i \in 1..Len(all)
    <3>1. /\ \A i \in 1..n : all[i] = smm[i]
          /\ Len(all) = n + Len(SmramImages) /\ Len(SmramImages) \in Nat
      BY <1>1, ImagesAre DEF n
    <3> HIDE DEF all
    <3> QED BY <1>2, <1>7, <3>1, StructIs
  <2>2. ASSUME NEW j \in 1..Len(all) PROVE \E i \in 1..n : Alike(images'[i], all[j])
    <3>1. /\ \A i \in 1..n : all[i] = smm[i]
          /\ \A i \in 1..Len(SmramImages) : all[n + i] = SmramImages[i]
          /\ Len(all) = n + Len(SmramImages) /\ Len(SmramImages) \in Nat
      BY <1>1, ImagesAre DEF n
    <3> HIDE DEF all
    <3>2. CASE j <= n
      <4>1. j \in 1..n
        BY <1>2, <3>2
      <4> QED BY <2>1, <4>1
    <3>3. CASE ~(j <= n)
      <4>1. PICK l \in 1..Len(SmramImages) : j = n + l
        <5>1. j - n \in 1..Len(SmramImages) /\ j = n + (j - n)
          BY <1>2, <3>1, <3>3
        <5> QED BY <5>1
      <4>2. Among(SmramImages[l], smm)
        BY <1>8, <4>1 DEF TablesAgree, SmramImages
      <4>3. PICK k \in 1..n : ImageStruct(smm[k]) = ImageStruct(SmramImages[l])
        BY <4>2 DEF Among, n
      <4>4. Alike(ImageStruct(smm[k]), SmramImages[l])
        BY <4>3, StructIs
      <4> QED BY <1>7, <3>1, <4>1, <4>3, <4>4
    <3> QED BY <3>2, <3>3
  <2> HIDE DEF all
  <2>4. \A i \in 1..Len(images') : \E j \in 1..Len(all) : Alike(images'[i], all[j])
    BY <1>7, <2>1
  <2>5. \A j \in 1..Len(all) : \E i \in 1..Len(images') : Alike(images'[i], all[j])
    BY <1>7, <2>2
  <2>3. PICK imgs : imgs = images'
    OBVIOUS
  <2>6. NamesRight(imgs)
    BY <1>1, <1>7, <2>3, <2>4, <2>5, TableNames DEF all
  <2> QED BY <1>3, <2>3, <2>6 DEF NamesRight, PlatformName, Holders, AllImages, SmramImages
<1>9. imageMax' \in Nat /\ Len(images') <= imageMax'
  BY <1>2, <1>3, <1>7
<1>10. coreFound' \in BOOLEAN /\ present' \in BOOLEAN /\ registered' \in BOOLEAN /\ ~present'
  BY <1>1, <1>3 DEF TableInv, HasCore
<1>11. Len(images') = Len(platform'.smmImages)
  BY <1>3, <1>7 DEF n
<1>12. CASE coreFound'
  BY <1>3, <1>8, <1>9, <1>10, <1>12 DEF TableInv
<1>13. CASE ~coreFound'
  BY <1>3, <1>9, <1>10, <1>11, <1>13 DEF TableInv
<1> QED BY <1>12, <1>13

(* The table filled from the UEFI handle database, behind blank slots.     *)
LEMMA SmramTable ==
  ASSUME AgentInv, TableInv, TablesAgree(platform), DataInv, GetLoadedImage
  PROVE  TableInv'
<1> DEFINE smm == platform.smmImages  max == Len(platform.dxeImages)  b == Len(images)
           room == IF max > b THEN max - b ELSE 0  l == Len(SmramImages)
           blank == [i \in 1..b |-> BlankImage]
<1>1. platform \in Platforms /\ IsList(images) /\ apc = "fallback" /\ ~present
  BY DEF AgentInv, DataInv, GetLoadedImage
<1>2. /\ images' = AddImageStructs(blank, SmramImages, room) /\ imageMax' = max /\ coreFound' = HasCore(SmramImages)
      /\ apc' \in {"assert", "install", "done"} /\ UNCHANGED <<platform, present, registered>>
  BY DEF GetLoadedImage
<1>3. IsList(smm) /\ Len(smm) \in Nat /\ max \in Nat /\ IsList(SmramImages) /\ l \in Nat /\ b \in Nat
  BY <1>1, ImagesAre, ListIs
<1>4. l <= max
  <2> DEFINE T == {platform.dxeImages[i] : i \in 1..Len(platform.dxeImages)}
  <2>1. platform.dxeImages \in Seq(T)
    BY <1>1, PlatformsAssumption DEF ListsForm, IsList
  <2> HIDE DEF T
  <2> QED BY <2>1, KeptAreListed DEF SmramImages
<1>5. l <= room /\ b + l <= max
  <2>1. CASE images = <<>>
    <3>1. b = 0
      BY <2>1, EmptyIsList
    <3> QED BY <1>3, <1>4, <3>1
  <2>2. CASE b = Len(smm) /\ ~HasCore(smm)
    <3>1. Len(smm) + l <= max
      BY <2>2 DEF TablesAgree, SmramImages
    <3> HIDE DEF b, l, max
    <3> QED BY <1>3, <2>2, <3>1
  <2> QED BY <1>1, <2>1, <2>2 DEF TableInv
<1> DEFINE t == [i \in 1..l |-> ImageStruct(SmramImages[i])]
<1>6. images' = blank \o t
  <2>1. ~Overflows(SmramImages, room)
    BY <1>3, <1>5 DEF Overflows
  <2> QED BY <1>2, <2>1 DEF AddImageStructs
<1>7. /\ t \in [1..l -> {ImageStruct(SmramImages[i]) : i \in 1..l}] /\ \A i \in 1..l : t[i] = ImageStruct(SmramImages[i])
      /\ blank \in [1..b -> {BlankImage}] /\ \A i \in 1..b : blank[i].base = 0 /\ blank[i].size = 0
  BY DEF BlankImage
<1> HIDE DEF t, blank, b, l, max, room
<1>8. IsList(t) /\ Len(t) = l /\ IsList(blank) /\ Len(blank) = b
  BY <1>3, <1>7, BuiltIsList
<1>9. /\ IsList(images') /\ Len(images') = b + l /\ \A i \in 1..b : images'[i] = blank[i]
      /\ \A i \in 1..l : images'[b + i] = ImageStruct(SmramImages[i])
  <2>2. IsList(t) /\ IsList(blank)
    BY <1>8
  <2>1. /\ IsList(images') /\ Len(images') = Len(blank) + Len(t) /\ \A i \in 1..Len(blank) : images'[i] = blank[i]
        /\ \A i \in 1..Len(t) : images'[Len(blank) + i] = t[i]
    BY <1>6, <2>2, JoinIs
  <2> QED BY <1>7, <1>8, <2>1
<1> DEFINE all == AllImages  n == Len(smm)
<1>10. /\ \A i \in 1..n : all[i] = smm[i]
       /\ \A i \in 1..l : all[n + i] = SmramImages[i]
       /\ Len(all) = n + l /\ n \in Nat
  BY <1>1, ImagesAre DEF l
<1> HIDE DEF all, n
<1>11. ASSUME NEW i \in 1..b + l
       PROVE  \/ images'[i].base = 0 /\ images'[i].size = 0
              \/ \E j \in 1..Len(all) : Alike(images'[i], all[j])
  <2>1. CASE i <= b
    <3>1. i \in 1..b
      BY <1>3, <2>1
    <3> QED BY <1>7, <1>9, <3>1
  <2>2. CASE ~(i <= b)
    <3>1. PICK k \in 1..l : i = b + k
      <4>1. i - b \in 1..l /\ i = b + (i - b)
        BY <1>3, <2>2
      <4> QED BY <4>1
    <3>2. images'[i] = ImageStruct(SmramImages[k]) /\ all[n + k] = SmramImages[k]
      BY <1>9, <1>10, <3>1
    <3>3. n + k \in 1..Len(all)
      BY <1>3, <1>10
    <3>4. Alike(images'[i], all[n + k])
      BY <3>2, StructIs
    <3> QED BY <3>3, <3>4
  <2> QED BY <2>1, <2>2
<1>12. ASSUME NEW k \in 1..l PROVE Alike(images'[b + k], SmramImages[k]) /\ b + k \in 1..b + l
  BY <1>3, <1>9, StructIs
<1>13. ASSUME NEW j \in 1..Len(all) PROVE \E i \in 1..b + l : Alike(images'[i], all[j])
  <2>1. CASE j <= n
    <3>1. j \in 1..n
      BY <1>10, <2>1
    <3>2. Among(smm[j], SmramImages)
      BY <3>1 DEF TablesAgree, SmramImages, n
    <3>3. PICK k \in 1..l : ImageStruct(SmramImages[k]) = ImageStruct(smm[j])
      BY <3>2 DEF Among, l
    <3>4. Alike(ImageStruct(SmramImages[k]), smm[j])
      BY <3>3, StructIs
    <3> QED BY <1>9, <1>10, <1>12, <3>1, <3>3, <3>4
  <2>2. CASE ~(j <= n)
    <3>1. PICK k \in 1..l : j = n + k
      <4>1. j - n \in 1..l /\ j = n + (j - n)
        BY <1>3, <1>10, <2>2
      <4> QED BY <4>1
    <3> QED BY <1>10, <1>12, <3>1
  <2> QED BY <2>1, <2>2
<1>14. NamesRight(images)'
  <2>1. PICK imgs : imgs = images'
    OBVIOUS
  <2>2. NamesRight(imgs)
    BY <1>1, <1>9, <1>11, <1>13, <2>1, TableNames DEF all
  <2> QED BY <1>2, <2>1, <2>2 DEF NamesRight, PlatformName, Holders, AllImages, SmramImages
<1>15. imageMax' \in Nat /\ Len(images') <= imageMax'
  BY <1>2, <1>3, <1>5, <1>9
<1>16. coreFound' \in BOOLEAN /\ present' \in BOOLEAN /\ registered' \in BOOLEAN
  BY <1>2 DEF TableInv, HasCore
<1> QED BY <1>2, <1>14, <1>15, <1>16 DEF TableInv

(* Every step of the driver keeps TableInv.                                *)
LEMMA TableStep == ASSUME AgentInv, DataInv, TableInv, TablesAgree(platform), AgentNext PROVE TableInv'
<1>1. /\ registered \in BOOLEAN /\ present \in BOOLEAN
      /\ apc = "images" => images = <<>>
      /\ apc \notin {"images", "fallback", "done", "assert", "undefined"} \/ present => NamesRight(images)
  BY DEF TableInv, AgentInv, AgentPcs
<1>2. CASE GetSmmLoadedImageFails
  BY <1>1, <1>2, TableKept DEF GetSmmLoadedImageFails, AgentPcs, DataInv
<1>3. CASE GetSmmLoadedImage
  BY <1>3, SmmTable
<1>4. CASE GetLoadedImageFails
  BY <1>1, <1>4, TableKept DEF GetLoadedImageFails, AgentPcs
<1>5. CASE GetLoadedImage
  BY <1>5, SmramTable
<1>6. CASE InstallFails
  BY <1>1, <1>6, TableKept DEF InstallFails, AgentPcs
<1>7. CASE Install
  BY <1>1, <1>7, TableKept DEF Install, AgentPcs
<1>8. CASE Discover
  BY <1>1, <1>8, TableKept DEF Discover, AgentPcs
<1>9. CASE UninstallFails
  BY <1>1, <1>9, TableKept DEF UninstallFails, AgentPcs
<1>10. CASE Uninstall
  BY <1>1, <1>10, TableKept DEF Uninstall, AgentPcs
<1>11. ASSUME NEW ok \in BOOLEAN, ProbeSmiEntryList(ok) \/ ProbeRootSmiHandlerList(ok) PROVE TableInv'
  BY <1>1, <1>11, TableKept DEF ProbeSmiEntryList, ProbeRootSmiHandlerList, AgentPcs
<1>12. CASE BuildSize
  BY <1>1, <1>12, TableKept DEF BuildSize, AgentPcs
<1>13. CASE BuildAllocateFails
  BY <1>1, <1>13, TableKept DEF BuildAllocateFails, AgentPcs
<1>14. CASE BuildData
  <2>1. /\ apc = "pool" /\ apc' = "register" /\ UNCHANGED <<platform, images, imageMax, coreFound, registered>>
        /\ present' = GetSmmCoreDatabaseData(images, core, platform.child, sizes).ok
    BY <1>14 DEF BuildData
  <2>2. GetSmmCoreDatabaseData(images, core, platform.child, sizes).ok \in BOOLEAN
    BY DEF GetSmmCoreDatabaseData
  <2> QED BY <1>1, <2>1, <2>2, TableKept DEF AgentPcs
<1>15. CASE RegisterFails
  BY <1>1, <1>15, TableKept DEF RegisterFails, AgentPcs
<1>16. CASE RegisterSmmCoreDumpHandler
  BY <1>1, <1>16, TableKept DEF RegisterSmmCoreDumpHandler, AgentPcs
<1> QED BY <1>2, <1>3, <1>4, <1>5, <1>6, <1>7, <1>8, <1>9, <1>10, <1>11, <1>12, <1>13, <1>14, <1>15, <1>16 DEF AgentNext

-----------------------------------------------------------------------------
(* The items of a group, with their names.                                 *)
Shown(items, ns, max) == [i \in 1..Len(items) |-> [addr |-> items[i].addr, name |-> NameOf(ns, max, items[i].ref)]]

(* The names of a table.                                                   *)
NamesOf(ns, max, imgs) == max = Len(imgs) /\ \A i \in 1..Len(imgs) : ns[i] = imgs[i].name

(* An address is printed with the name that the platform gives it.         *)
LEMMA AddressNamed ==
  ASSUME NEW imgs, Len(imgs) \in Nat, NamesRight(imgs), NEW ns, NEW max, NamesOf(ns, max, imgs), NEW a \in Nat
  PROVE  NameOf(ns, max, AddressToImageRef(imgs, a)) = PlatformName(a)
<1> DEFINE ref == AddressToImageRef(imgs, a)
<1>1. ref # NoRef => ref \in Nat /\ ref + 1 \in 1..Len(imgs)
  BY RefIs DEF Hits
<1>2. PlatformName(a) = IF ref = NoRef THEN UNKNOWN_NAME ELSE imgs[ref + 1].name
  BY DEF NamesRight, NameIn
<1> HIDE DEF ref
<1>3. NameOf(ns, max, ref) = IF ref = NoRef THEN UNKNOWN_NAME ELSE imgs[ref + 1].name
  BY <1>1 DEF NameOf, NamesOf
<1> QED BY <1>2, <1>3 DEF ref

(* An interface is printed with the name that the platform gives it.       *)
LEMMA InterfaceNamed ==
  ASSUME NEW imgs, Len(imgs) \in Nat, NamesRight(imgs), NEW ns, NEW max, NamesOf(ns, max, imgs),
         NEW x, x.addr \in Nat, x.func \in Nat
  PROVE  NameOf(ns, max, AddressToImageRefEx(imgs, x)) = InterfaceName(x)
<1> DEFINE ref == AddressToImageRef(imgs, x.addr)
<1>1. ref = NoRef <=> Holders(x.addr) = {}
  BY DEF NamesRight
<1>2. NameOf(ns, max, ref) = PlatformName(x.addr) /\ NameOf(ns, max, AddressToImageRef(imgs, x.func)) = PlatformName(x.func)
  BY AddressNamed
<1>3. AddressToImageRefEx(imgs, x) = IF ref # NoRef THEN ref
                                     ELSE IF x.guid \in KnownProtocols THEN AddressToImageRef(imgs, x.func) ELSE NoRef
  BY DEF AddressToImageRefEx
<1>4. InterfaceName(x) = IF Holders(x.addr) # {} \/ x.guid \notin KnownProtocols THEN PlatformName(x.addr) ELSE PlatformName(x.func)
  BY DEF InterfaceName
<1> HIDE DEF ref
<1> QED BY <1>1, <1>2, <1>3, <1>4

(* A list of interfaces, and one of addresses.                             *)
LEMMA ListsNamed ==
  ASSUME NEW imgs, Len(imgs) \in Nat, NamesRight(imgs), NEW ns, NEW max, NamesOf(ns, max, imgs), NEW list, Len(list) \in Nat
  PROVE  /\ AreInterfaces(list) => Shown(InterfaceItems(imgs, list), ns, max) = Interfaces(list)
         /\ AreAddresses(list) => Shown(AddressItems(imgs, list), ns, max) = Addresses(list)
<1> DEFINE n == Len(list)
<1>1. ASSUME AreInterfaces(list) PROVE Shown(InterfaceItems(imgs, list), ns, max) = Interfaces(list)
  <2> DEFINE items == InterfaceItems(imgs, list)
  <2>1. Len(items) = n /\ \A i \in 1..n : items[i].addr = list[i].addr /\ items[i].ref = AddressToImageRefEx(imgs, list[i])
    BY ItemsAre DEF InterfaceItems
  <2> HIDE DEF items
  <2>2. \A i \in 1..n : NameOf(ns, max, items[i].ref) = InterfaceName(list[i])
    BY <1>1, <2>1, InterfaceNamed DEF AreInterfaces
  <2>3. \A i \in 1..n : [addr |-> items[i].addr, name |-> NameOf(ns, max, items[i].ref)] = [addr |-> list[i].addr, name |-> InterfaceName(list[i])]
    BY <2>1, <2>2
  <2>4. Shown(items, ns, max) = [i \in 1..n |-> [addr |-> items[i].addr, name |-> NameOf(ns, max, items[i].ref)]]
    BY <2>1 DEF Shown
  <2> QED BY <2>3, <2>4 DEF Interfaces, items
<1>2. ASSUME AreAddresses(list) PROVE Shown(AddressItems(imgs, list), ns, max) = Addresses(list)
  <2> DEFINE items == AddressItems(imgs, list)
  <2>1. Len(items) = n /\ \A i \in 1..n : items[i].addr = list[i] /\ items[i].ref = AddressToImageRef(imgs, list[i])
    BY ItemsAre DEF AddressItems
  <2> HIDE DEF items
  <2>2. \A i \in 1..n : NameOf(ns, max, items[i].ref) = PlatformName(list[i])
    BY <1>2, <2>1, AddressNamed DEF AreAddresses
  <2>3. \A i \in 1..n : [addr |-> items[i].addr, name |-> NameOf(ns, max, items[i].ref)] = [addr |-> list[i], name |-> PlatformName(list[i])]
    BY <2>1, <2>2
  <2>4. Shown(items, ns, max) = [i \in 1..n |-> [addr |-> items[i].addr, name |-> NameOf(ns, max, items[i].ref)]]
    BY <2>1 DEF Shown
  <2> QED BY <2>3, <2>4 DEF Addresses, items
<1> QED BY <1>1, <1>2

(* A list of one, and of two.                                              *)
LEMMA TuplesAre ==
  /\ \A f, a : f \in [1..1 -> {a}] => f = <<a>>
  /\ \A f, a, b : f \in [1..2 -> {a, b}] /\ f[1] = a /\ f[2] = b => f = <<a, b>>
<1>1. ASSUME NEW f, NEW a, f \in [1..1 -> {a}] PROVE f = <<a>>
  BY <1>1
<1>2. ASSUME NEW f, NEW a, NEW b, f \in [1..2 -> {a, b}], f[1] = a, f[2] = b PROVE f = <<a, b>>
  BY <1>2
<1> QED BY <1>1, <1>2

(* The line of a record with one group of items.                           *)
LEMMA LineOne ==
  ASSUME NEW header, NEW size, NEW items, NEW s, NEW r, r = Record(header, size, <<Group(items, s)>>), NEW ns, NEW max
  PROVE  LineOf(r, ns, max) = [walk |-> WalkOf(r), key |-> header.key, items |-> <<Shown(items, ns, max)>>]
<1> DEFINE shown == Shown(items, ns, max)
<1>1. r.header = header /\ r.groups = <<Group(items, s)>> /\ Group(items, s).items = items
  BY DEF Record, Group
<1>2. Len(r.groups) = 1 /\ r.groups[1].items = items
  BY <1>1
<1>3. LineOf(r, ns, max) = [walk |-> WalkOf(r), key |-> r.header.key,
                            items |-> [g \in 1..Len(r.groups) |-> Shown(r.groups[g].items, ns, max)]]
  BY DEF LineOf, Shown
<1>4. [g \in 1..Len(r.groups) |-> Shown(r.groups[g].items, ns, max)] = <<shown>>
  <2>1. \A g \in 1..1 : Shown(r.groups[g].items, ns, max) = shown
    BY <1>2
  <2> HIDE DEF shown
  <2>2. [g \in 1..Len(r.groups) |-> Shown(r.groups[g].items, ns, max)] \in [1..1 -> {shown}]
    BY <1>2, <2>1
  <2> QED BY <2>2, TuplesAre
<1> QED BY <1>1, <1>3, <1>4

(* The same with two groups.                                               *)
LEMMA LineTwo ==
  ASSUME NEW header, NEW size, NEW items, NEW s, NEW others, NEW z, NEW r,
         r = Record(header, size, <<Group(items, s), Group(others, z)>>), NEW ns, NEW max
  PROVE  LineOf(r, ns, max) = [walk |-> WalkOf(r), key |-> header.key, items |-> <<Shown(items, ns, max), Shown(others, ns, max)>>]
<1> DEFINE one == Shown(items, ns, max)  two == Shown(others, ns, max)
<1>1. /\ r.header = header /\ r.groups = <<Group(items, s), Group(others, z)>>
      /\ Group(items, s).items = items /\ Group(others, z).items = others
  BY DEF Record, Group
<1>2. Len(r.groups) = 2 /\ r.groups[1].items = items /\ r.groups[2].items = others
  BY <1>1
<1>3. LineOf(r, ns, max) = [walk |-> WalkOf(r), key |-> r.header.key,
                            items |-> [g \in 1..Len(r.groups) |-> Shown(r.groups[g].items, ns, max)]]
  BY DEF LineOf, Shown
<1>4. [g \in 1..Len(r.groups) |-> Shown(r.groups[g].items, ns, max)] = <<one, two>>
  <2>1. \A g \in 1..2 : Shown(r.groups[g].items, ns, max) = IF g = 1 THEN one ELSE two
    BY <1>2
  <2> DEFINE f == [g \in 1..Len(r.groups) |-> Shown(r.groups[g].items, ns, max)]
  <2> HIDE DEF one, two
  <2>2. f \in [1..2 -> {one, two}] /\ f[1] = one /\ f[2] = two
    <3>1. \A g \in 1..2 : Shown(r.groups[g].items, ns, max) \in {one, two}
      BY <2>1
    <3>2. f \in [1..2 -> {one, two}]
      BY <1>2, <3>1
    <3>3. 1 \in 1..Len(r.groups) /\ 2 \in 1..Len(r.groups)
      BY <1>2
    <3>4. f[1] = Shown(r.groups[1].items, ns, max) /\ f[2] = Shown(r.groups[2].items, ns, max)
      BY <3>3
    <3>5. 1 \in 1..2 /\ 2 \in 1..2
      OBVIOUS
    <3> HIDE DEF f
    <3> QED BY <2>1, <3>2, <3>4, <3>5
  <2> HIDE DEF f
  <2>3. f = <<one, two>>
    BY <2>2, TuplesAre
  <2> QED BY <2>3 DEF f
<1> QED BY <1>1, <1>3, <1>4

-----------------------------------------------------------------------------
(* The lines of the five sections behind the images.                       *)
LEMMA HandleLine ==
  ASSUME NEW imgs, Len(imgs) \in Nat, NamesRight(imgs), NEW ns, NEW max, NamesOf(ns, max, imgs),
         NEW h, Len(h.interfaces) \in Nat, AreInterfaces(h.interfaces)
  PROVE  LineOf(HandleRecord(imgs, h), ns, max) = [walk |-> "handle", key |-> h.id, items |-> <<Interfaces(h.interfaces)>>]
<1> DEFINE r == HandleRecord(imgs, h)  items == InterfaceItems(imgs, h.interfaces)  d == Header("SCHD", h.id, FALSE)
<1>1. r = Record(d, SizeOf.handle, <<Group(items, SizeOf.handleProtocol)>>) /\ WalkOf(r) = "handle"
  BY HandleFits DEF HandleRecord
<1>2. d.key = h.id
  BY DEF Header
<1>3. Shown(items, ns, max) = Interfaces(h.interfaces)
  BY ListsNamed
<1> HIDE DEF r, items, d
<1>4. LineOf(r, ns, max) = [walk |-> WalkOf(r), key |-> d.key, items |-> <<Shown(items, ns, max)>>]
  BY <1>1, LineOne
<1> QED BY <1>1, <1>2, <1>3, <1>4 DEF r

(* A protocol.                                                             *)
LEMMA ProtocolLine ==
  ASSUME NEW imgs, Len(imgs) \in Nat, NamesRight(imgs), NEW ns, NEW max, NamesOf(ns, max, imgs),
         NEW p, Len(p.interfaces) \in Nat, Len(p.notifies) \in Nat, AreInterfaces(p.interfaces), AreAddresses(p.notifies)
  PROVE  LineOf(ProtocolRecord(imgs, p), ns, max) =
           [walk |-> "protocol", key |-> p.guid, items |-> <<Interfaces(p.interfaces), Addresses(p.notifies)>>]
<1> DEFINE r == ProtocolRecord(imgs, p)  items == InterfaceItems(imgs, p.interfaces)  others == AddressItems(imgs, p.notifies)
           d == Header("SCPD", p.guid, FALSE)
<1>1. r = Record(d, SizeOf.protocol, <<Group(items, SizeOf.interface), Group(others, SizeOf.notify)>>) /\ WalkOf(r) = "protocol"
  BY ProtocolFits DEF ProtocolRecord
<1>2. d.key = p.guid
  BY DEF Header
<1>3. Shown(items, ns, max) = Interfaces(p.interfaces) /\ Shown(others, ns, max) = Addresses(p.notifies)
  BY ListsNamed
<1> HIDE DEF r, items, others, d
<1>4. LineOf(r, ns, max) = [walk |-> WalkOf(r), key |-> d.key, items |-> <<Shown(items, ns, max), Shown(others, ns, max)>>]
  BY <1>1, LineTwo
<1> QED BY <1>1, <1>2, <1>3, <1>4 DEF r

(* An SMI entry.                                                           *)
LEMMA SmiLine ==
  ASSUME NEW imgs, Len(imgs) \in Nat, NamesRight(imgs), NEW ns, NEW max, NamesOf(ns, max, imgs),
         NEW s, Len(s.handlers) \in Nat, AreAddresses(s.handlers)
  PROVE  LineOf(SmiRecord(imgs, s), ns, max) = [walk |-> "smi", key |-> s.type, items |-> <<Addresses(s.handlers)>>]
<1> DEFINE r == SmiRecord(imgs, s)  items == AddressItems(imgs, s.handlers)  d == Header("SCSD", s.type, FALSE)
<1>1. r = Record(d, SizeOf.smi, <<Group(items, SizeOf.smiHandler)>>) /\ WalkOf(r) = "smi"
  BY SmiFits DEF SmiRecord
<1>2. d.key = s.type
  BY DEF Header
<1>3. Shown(items, ns, max) = Addresses(s.handlers)
  BY ListsNamed
<1> HIDE DEF r, items, d
<1>4. LineOf(r, ns, max) = [walk |-> WalkOf(r), key |-> d.key, items |-> <<Shown(items, ns, max)>>]
  BY <1>1, LineOne
<1> QED BY <1>1, <1>2, <1>3, <1>4 DEF r

(* The root SMI handlers.                                                  *)
LEMMA RootLine ==
  ASSUME NEW imgs, Len(imgs) \in Nat, NamesRight(imgs), NEW ns, NEW max, NamesOf(ns, max, imgs),
         NEW roots, Len(roots) \in Nat, AreAddresses(roots)
  PROVE  LineOf(RootRecord(imgs, roots), ns, max) = [walk |-> "root", key |-> "zero", items |-> <<Addresses(roots)>>]
<1> DEFINE r == RootRecord(imgs, roots)  items == AddressItems(imgs, roots)  d == Header("SCSD", "zero", TRUE)
<1>1. r = Record(d, SizeOf.smi, <<Group(items, SizeOf.smiHandler)>>) /\ WalkOf(r) = "root"
  BY RootFits DEF RootRecord
<1>2. d.key = "zero"
  BY DEF Header
<1>3. Shown(items, ns, max) = Addresses(roots)
  BY ListsNamed
<1> HIDE DEF r, items, d
<1>4. LineOf(r, ns, max) = [walk |-> WalkOf(r), key |-> d.key, items |-> <<Shown(items, ns, max)>>]
  BY <1>1, LineOne
<1> QED BY <1>1, <1>2, <1>3, <1>4 DEF r

(* The callbacks of the child dispatcher.                                  *)
LEMMA ChildLine ==
  ASSUME NEW imgs, Len(imgs) \in Nat, NamesRight(imgs), NEW ns, NEW max, NamesOf(ns, max, imgs),
         NEW child, Len(child.callbacks) \in Nat, AreAddresses(child.callbacks)
  PROVE  LineOf(ChildRecord(imgs, child), ns, max) = [walk |-> "child", key |-> SwGuid, items |-> <<Addresses(child.callbacks)>>]
<1> DEFINE r == ChildRecord(imgs, child)  items == AddressItems(imgs, child.callbacks)  d == Header("CDSD", SwGuid, FALSE)
<1>1. r = Record(d, SizeOf.child, <<Group(items, SizeOf.childSw)>>) /\ WalkOf(r) = "child"
  BY ChildFits DEF ChildRecord
<1>2. d.key = SwGuid
  BY DEF Header
<1>3. Shown(items, ns, max) = Addresses(child.callbacks)
  BY ListsNamed
<1> HIDE DEF r, items, d
<1>4. LineOf(r, ns, max) = [walk |-> WalkOf(r), key |-> d.key, items |-> <<Shown(items, ns, max)>>]
  BY <1>1, LineOne
<1> QED BY <1>1, <1>2, <1>3, <1>4 DEF r

-----------------------------------------------------------------------------
(* The lines of a list of records.                                         *)
Lines(recs, ns, max) == [i \in 1..Len(recs) |-> LineOf(recs[i], ns, max)]

(* Lists with the same elements are the same.                              *)
LEMMA SameList ==
  ASSUME NEW s, NEW t, IsList(s), IsList(t), Len(s) = Len(t), \A i \in 1..Len(s) : s[i] = t[i]
  PROVE  s = t
<1>1. s = [i \in 1..Len(s) |-> s[i]] /\ t = [i \in 1..Len(t) |-> t[i]]
  BY ListIs
<1>2. \E n, m : n = Len(s) /\ m = Len(t) /\ s = [i \in 1..n |-> s[i]] /\ t = [i \in 1..m |-> t[i]]
  BY <1>1
<1> QED BY <1>2

(* Three lists one behind the other.                                       *)
LEMMA JoinedAlike ==
  ASSUME NEW s, NEW t, NEW u, IsList(s), IsList(t), IsList(u), NEW v, v = s \o t, NEW w, w = t \o u
  PROVE  v \o u = s \o w
<1> DEFINE S == {s[i] : i \in 1..Len(s)} \cup {t[i] : i \in 1..Len(t)} \cup {u[i] : i \in 1..Len(u)}
<1>1. s \in Seq(S) /\ t \in Seq(S) /\ u \in Seq(S)
  BY DEF IsList
<1> HIDE DEF S
<1> QED BY <1>1

(* The lines of one list of records.                                       *)
LEMMA LinesAre ==
  ASSUME NEW s, IsList(s), NEW ns, NEW max
  PROVE  /\ IsList(Lines(s, ns, max)) /\ Len(Lines(s, ns, max)) = Len(s)
         /\ \A i \in 1..Len(s) : Lines(s, ns, max)[i] = LineOf(s[i], ns, max)
<1> DEFINE n == Len(s)  l == Lines(s, ns, max)
<1>1. n \in Nat
  BY ListIs
<1>2. l \in [1..n -> {LineOf(s[i], ns, max) : i \in 1..n}] /\ \A i \in 1..n : l[i] = LineOf(s[i], ns, max)
  BY DEF Lines
<1> HIDE DEF n, l
<1>3. IsList(l) /\ Len(l) = n
  BY <1>1, <1>2, BuiltIsList
<1> QED BY <1>2, <1>3 DEF n, l

(* The lines of two lists of records.                                      *)
LEMMA LinesJoin ==
  ASSUME NEW s, NEW t, IsList(s), IsList(t), NEW ns, NEW max
  PROVE  Lines(s \o t, ns, max) = Lines(s, ns, max) \o Lines(t, ns, max)
<1> DEFINE u == s \o t  ls == Lines(s, ns, max)  lt == Lines(t, ns, max)  lu == Lines(u, ns, max)
<1>2. /\ IsList(u) /\ Len(s) \in Nat /\ Len(t) \in Nat /\ Len(u) = Len(s) + Len(t)
      /\ \A i \in 1..Len(s) : u[i] = s[i]
      /\ \A i \in 1..Len(t) : u[Len(s) + i] = t[i]
  BY JoinIs
<1>3. IsList(ls) /\ Len(ls) = Len(s) /\ \A i \in 1..Len(s) : ls[i] = LineOf(s[i], ns, max)
  BY LinesAre
<1>4. IsList(lt) /\ Len(lt) = Len(t) /\ \A i \in 1..Len(t) : lt[i] = LineOf(t[i], ns, max)
  BY LinesAre
<1> HIDE DEF u
<1>5. IsList(lu) /\ Len(lu) = Len(u) /\ \A i \in 1..Len(u) : lu[i] = LineOf(u[i], ns, max)
  BY SMTT(30), <1>2, LinesAre
<1> DEFINE j == ls \o lt
<1> HIDE DEF ls, lt, lu
<1>6. /\ IsList(j) /\ Len(j) = Len(ls) + Len(lt)
      /\ \A i \in 1..Len(ls) : j[i] = ls[i]
      /\ \A i \in 1..Len(lt) : j[Len(ls) + i] = lt[i]
  BY <1>3, <1>4, JoinIs
<1> HIDE DEF j
<1>7. ASSUME NEW i \in 1..Len(u) PROVE lu[i] = j[i]
  <2>1. CASE i <= Len(s)
    <3>1. i \in 1..Len(s)
      BY <1>2, <2>1
    <3> QED BY <1>2, <1>3, <1>5, <1>6, <3>1
  <2>2. CASE ~(i <= Len(s))
    <3>1. PICK k \in 1..Len(t) : i = Len(s) + k
      <4>1. i - Len(s) \in 1..Len(t) /\ i = Len(s) + (i - Len(s))
        BY <1>2, <2>2
      <4> QED BY <4>1
    <3>2. u[i] = t[k] /\ j[i] = lt[k]
      <4>1. u[i] = t[k]
        BY <1>2, <3>1
      <4>2. j[i] = lt[k]
        BY <1>3, <1>4, <1>6, <3>1
      <4> QED BY <4>1, <4>2
    <3> QED BY <1>4, <1>5, <3>2
  <2> QED BY <2>1, <2>2
<1>8. lu = j
  <2>1. Len(lu) = Len(j) /\ \A i \in 1..Len(lu) : lu[i] = j[i]
    BY <1>2, <1>3, <1>4, <1>5, <1>6, <1>7
  <2> QED BY <1>5, <1>6, <2>1, SameList
<1> QED BY <1>8 DEF lu, ls, lt, j, u

(* The lines of five lists of records.                                     *)
LEMMA LinesOfFive ==
  ASSUME NEW r2, NEW r3, NEW r4, NEW r5, NEW r6, IsList(r2), IsList(r3), IsList(r4), IsList(r5), IsList(r6), NEW ns, NEW max
  PROVE  Lines(r2 \o (r3 \o (r4 \o (r5 \o r6))), ns, max) =
           Lines(r2, ns, max) \o (Lines(r3, ns, max) \o (Lines(r4, ns, max) \o (Lines(r5, ns, max) \o Lines(r6, ns, max))))
<1> DEFINE r56 == r5 \o r6  r46 == r4 \o r56  r36 == r3 \o r46
<1>1. IsList(r56) /\ IsList(r46) /\ IsList(r36)
  BY ListsJoin
<1>2. Lines(r56, ns, max) = Lines(r5, ns, max) \o Lines(r6, ns, max)
  BY LinesJoin
<1> HIDE DEF r56
<1>3. Lines(r46, ns, max) = Lines(r4, ns, max) \o Lines(r56, ns, max)
  BY <1>1, LinesJoin
<1> HIDE DEF r46
<1>4. Lines(r36, ns, max) = Lines(r3, ns, max) \o Lines(r46, ns, max)
  BY <1>1, LinesJoin
<1> HIDE DEF r36
<1>5. Lines(r2 \o r36, ns, max) = Lines(r2, ns, max) \o Lines(r36, ns, max)
  BY <1>1, LinesJoin
<1> QED BY <1>2, <1>3, <1>4, <1>5 DEF r56, r46, r36

(* Five lists one behind the other, the first ones joined first or last.   *)
Left5(l2, l3, l4, l5, l6) == (((l2 \o l3) \o l4) \o l5) \o l6
Right5(l2, l3, l4, l5, l6) == l2 \o (l3 \o (l4 \o (l5 \o l6)))

(* It does not matter.                                                     *)
LEMMA FiveJoined ==
  ASSUME NEW l2, NEW l3, NEW l4, NEW l5, NEW l6, IsList(l2), IsList(l3), IsList(l4), IsList(l5), IsList(l6)
  PROVE  Left5(l2, l3, l4, l5, l6) = Right5(l2, l3, l4, l5, l6)
<1> DEFINE l23 == l2 \o l3  l24 == l23 \o l4  l56 == l5 \o l6  l46 == l4 \o l56
<1>1. IsList(l23) /\ IsList(l24) /\ IsList(l56) /\ IsList(l46)
  BY ListsJoin
<1>2. (l23 \o l4) \o l56 = l23 \o (l4 \o l56)
  <2> HIDE DEF l23, l56
  <2> QED BY SMTT(30), <1>1, JoinedAlike
<1>3. (l2 \o l3) \o l46 = l2 \o (l3 \o l46)
  <2> HIDE DEF l46
  <2> QED BY SMTT(30), <1>1, JoinedAlike
<1>4. (l24 \o l5) \o l6 = l24 \o (l5 \o l6)
  <2> HIDE DEF l24
  <2> QED BY SMTT(30), <1>1, JoinedAlike
<1> QED BY <1>2, <1>3, <1>4 DEF Left5, Right5

-----------------------------------------------------------------------------
(* An image.                                                               *)
LEMMA ImageLineIs ==
  ASSUME NEW image, NEW ns, NEW max
  PROVE  LineOf(ImageRecord(image), ns, max) = [walk |-> "image", key |-> image, items |-> <<>>]
<1> DEFINE r == ImageRecord(image)
<1>1. WalkOf(r) = "image"
  BY ImageFits
<1>2. r.header.key = image /\ r.groups = <<>>
  BY DEF ImageRecord, Record, Header
<1> HIDE DEF r
<1>3. Len(r.groups) = 0 /\ \A g \in 1..0 : FALSE
  BY <1>2
<1>4. LineOf(r, ns, max) = [walk |-> WalkOf(r), key |-> r.header.key,
                            items |-> [g \in 1..Len(r.groups) |-> Shown(r.groups[g].items, ns, max)]]
  BY DEF LineOf, Shown
<1>5. [g \in 1..Len(r.groups) |-> Shown(r.groups[g].items, ns, max)] = <<>>
  BY <1>3
<1> QED BY <1>1, <1>2, <1>4, <1>5 DEF r

(* The lines of the images.                                                *)
LEMMA ImageLinesAre == ASSUME NEW ns, NEW max PROVE ImageLines = Lines(ImageRecords(images), ns, max)
<1> DEFINE recs == ImageRecords(images)
<1>1. Len(recs) = Len(images) /\ \A i \in 1..Len(images) : recs[i] = ImageRecord(images[i])
  BY DEF ImageRecords
<1> HIDE DEF recs
<1>2. \A i \in 1..Len(images) : LineOf(recs[i], ns, max) = [walk |-> "image", key |-> images[i], items |-> <<>>]
  BY <1>1, ImageLineIs
<1>3. Lines(recs, ns, max) = [i \in 1..Len(images) |-> LineOf(recs[i], ns, max)]
  BY <1>1 DEF Lines
<1> QED BY <1>2, <1>3 DEF ImageLines, recs

(* The report that the platform calls for, section by section, is the      *)
(* report of the records.                                                  *)
LEMMA ExpectedIs ==
  ASSUME AgentInv, core = UninstallProtocolInterface(InstallProtocolInterface(Lists0)),
         NamesRight(images), NEW ns, NEW max, NamesOf(ns, max, images)
  PROVE  Expected = Lines(RestRecords(images, core, platform.child), ns, max)
<1> DEFINE p == platform
           r2 == HandleRecords(images, p.handles)  r3 == ProtocolRecords(images, p.protocols)  r4 == SmiRecords(images, p.smis)
           r5 == <<RootRecord(images, p.roots)>>  r6 == ChildRecords(images, p.child)
           l2 == Lines(r2, ns, max)  l3 == Lines(r3, ns, max)  l4 == Lines(r4, ns, max)
           l5 == Lines(r5, ns, max)  l6 == Lines(r6, ns, max)
           e2 == [i \in 1..Len(p.handles) |->
                    [walk |-> "handle", key |-> p.handles[i].id, items |-> <<Interfaces(p.handles[i].interfaces)>>]]
           e3 == [i \in 1..Len(p.protocols) |->
                    [walk |-> "protocol", key |-> p.protocols[i].guid,
                     items |-> <<Interfaces(p.protocols[i].interfaces), Addresses(p.protocols[i].notifies)>>]]
           e4 == [i \in 1..Len(p.smis) |->
                    [walk |-> "smi", key |-> p.smis[i].type, items |-> <<Addresses(p.smis[i].handlers)>>]]
           e5 == <<[walk |-> "root", key |-> "zero", items |-> <<Addresses(p.roots)>>]>>
           e6 == IF p.child.lib = "Null" THEN <<>>
                 ELSE <<[walk |-> "child", key |-> SwGuid, items |-> <<Addresses(p.child.callbacks)>>]>>
<1>1. /\ p \in Platforms /\ ListsForm(p) /\ AddressesForm(p) /\ IsList(images) /\ Len(images) \in Nat
      /\ core.handles = p.handles /\ core.smis = p.smis /\ core.roots = p.roots /\ UpToOwn(core.protocols) = p.protocols
  BY PlatformsAssumption, ProbesUndone, ListIs DEF AgentInv
<1>2. RestRecords(images, core, p.child) = r2 \o (r3 \o (r4 \o (r5 \o r6)))
  BY <1>1 DEF RestRecords
<1>3. Expected = (((e2 \o e3) \o e4) \o e5) \o e6
  BY DEF Expected
<1>4. Followed(images, core, p.child)
  BY DatabaseFollowed
<1>5. IsList(r2) /\ IsList(r3) /\ IsList(r4) /\ IsList(r5) /\ IsList(r6)
  BY <1>1, <1>4, SectionsRanked DEF Ranked
<1>6. l2 = e2
  <2>1. Len(r2) = Len(p.handles) /\ \A i \in 1..Len(p.handles) : r2[i] = HandleRecord(images, p.handles[i])
    BY DEF HandleRecords
  <2>2. \A i \in 1..Len(p.handles) : Len(p.handles[i].interfaces) \in Nat /\ AreInterfaces(p.handles[i].interfaces)
    BY <1>1, ListIs DEF ListsForm, AddressesForm
  <2> HIDE DEF r2
  <2>3. \A i \in 1..Len(p.handles) :
          LineOf(r2[i], ns, max) = [walk |-> "handle", key |-> p.handles[i].id, items |-> <<Interfaces(p.handles[i].interfaces)>>]
    BY <1>1, <2>1, <2>2, HandleLine
  <2>4. l2 = [i \in 1..Len(p.handles) |-> LineOf(r2[i], ns, max)]
    BY <2>1 DEF Lines
  <2> QED BY <2>3, <2>4
<1>7. l3 = e3
  <2>1. Len(r3) = Len(p.protocols) /\ \A i \in 1..Len(p.protocols) : r3[i] = ProtocolRecord(images, p.protocols[i])
    BY DEF ProtocolRecords
  <2>2. \A i \in 1..Len(p.protocols) :
          /\ Len(p.protocols[i].interfaces) \in Nat /\ AreInterfaces(p.protocols[i].interfaces)
          /\ Len(p.protocols[i].notifies) \in Nat /\ AreAddresses(p.protocols[i].notifies)
    BY <1>1, ListIs DEF ListsForm, AddressesForm
  <2> HIDE DEF r3
  <2>3. \A i \in 1..Len(p.protocols) :
          LineOf(r3[i], ns, max) = [walk |-> "protocol", key |-> p.protocols[i].guid,
                     items |-> <<Interfaces(p.protocols[i].interfaces), Addresses(p.protocols[i].notifies)>>]
    <3>1. ASSUME NEW q, Len(q.interfaces) \in Nat, AreInterfaces(q.interfaces), Len(q.notifies) \in Nat, AreAddresses(q.notifies)
          PROVE  LineOf(ProtocolRecord(images, q), ns, max) =
                   [walk |-> "protocol", key |-> q.guid, items |-> <<Interfaces(q.interfaces), Addresses(q.notifies)>>]
      BY <1>1, <3>1, ProtocolLine
    <3> QED BY <2>1, <2>2, <3>1
  <2>4. l3 = [i \in 1..Len(p.protocols) |-> LineOf(r3[i], ns, max)]
    BY <2>1 DEF Lines
  <2> QED BY <2>3, <2>4
<1>8. l4 = e4
  <2>1. Len(r4) = Len(p.smis) /\ \A i \in 1..Len(p.smis) : r4[i] = SmiRecord(images, p.smis[i])
    BY DEF SmiRecords
  <2>2. \A i \in 1..Len(p.smis) : Len(p.smis[i].handlers) \in Nat /\ AreAddresses(p.smis[i].handlers)
    BY <1>1, ListIs DEF ListsForm, AddressesForm
  <2> HIDE DEF r4
  <2>3. \A i \in 1..Len(p.smis) :
          LineOf(r4[i], ns, max) = [walk |-> "smi", key |-> p.smis[i].type, items |-> <<Addresses(p.smis[i].handlers)>>]
    BY <1>1, <2>1, <2>2, SmiLine
  <2>4. l4 = [i \in 1..Len(p.smis) |-> LineOf(r4[i], ns, max)]
    BY <2>1 DEF Lines
  <2> QED BY <2>3, <2>4
<1>9. ASSUME NEW r, NEW l, LineOf(r, ns, max) = l PROVE Lines(<<r>>, ns, max) = <<l>>
  <2>1. Lines(<<r>>, ns, max) \in [1..1 -> {l}]
    BY <1>9 DEF Lines
  <2> QED BY <2>1, TuplesAre
<1>10. l5 = e5
  <2>1. Len(p.roots) \in Nat /\ AreAddresses(p.roots)
    BY <1>1, ListIs DEF ListsForm, AddressesForm
  <2>2. LineOf(RootRecord(images, p.roots), ns, max) = [walk |-> "root", key |-> "zero", items |-> <<Addresses(p.roots)>>]
    BY <1>1, <2>1, RootLine
  <2> QED BY <1>9, <2>2
<1>11. l6 = e6
  <2>1. CASE p.child.lib = "Null"
    <3>1. r6 = <<>> /\ e6 = <<>>
      BY <2>1 DEF ChildRecords
    <3>2. Lines(<<>>, ns, max) = <<>>
      BY DEF Lines
    <3> QED BY <3>1, <3>2
  <2>2. CASE p.child.lib # "Null"
    <3>1. Len(p.child.callbacks) \in Nat /\ AreAddresses(p.child.callbacks)
      BY <1>1, ListIs DEF ListsForm, AddressesForm
    <3>2. LineOf(ChildRecord(images, p.child), ns, max) = [walk |-> "child", key |-> SwGuid, items |-> <<Addresses(p.child.callbacks)>>]
      BY <1>1, <3>1, ChildLine
    <3>3. r6 = <<ChildRecord(images, p.child)>>
      BY <2>2 DEF ChildRecords
    <3> QED BY <1>9, <2>2, <3>2, <3>3
  <2> QED BY <2>1, <2>2
<1> HIDE DEF r2, r3, r4, r5, r6, e2, e3, e4, e5, e6
<1>12. Lines(RestRecords(images, core, p.child), ns, max) = Right5(l2, l3, l4, l5, l6)
  <2>1. Lines(r2 \o (r3 \o (r4 \o (r5 \o r6))), ns, max) = l2 \o (l3 \o (l4 \o (l5 \o l6)))
    BY <1>5, LinesOfFive
  <2> QED BY <1>2, <2>1 DEF Right5
<1>13. IsList(l2) /\ IsList(l3) /\ IsList(l4) /\ IsList(l5) /\ IsList(l6)
  BY <1>5, LinesAre
<1> HIDE DEF l2, l3, l4, l5, l6
<1>14. Left5(l2, l3, l4, l5, l6) = Right5(l2, l3, l4, l5, l6)
  BY <1>13, FiveJoined
<1>15. Expected = Left5(e2, e3, e4, e5, e6)
  BY <1>3 DEF Left5
<1> QED BY <1>6, <1>7, <1>8, <1>10, <1>11, <1>12, <1>14, <1>15

-----------------------------------------------------------------------------
(* A line without the names.                                               *)
Bare(line) ==
  [line EXCEPT !.items = [g \in 1..Len(line.items) |-> [j \in 1..Len(line.items[g]) |-> line.items[g][j].addr]]]

(* A line with other items.                                                *)
LEMMA OtherItems ==
  ASSUME NEW w, NEW k, NEW old, NEW line, line = [walk |-> w, key |-> k, items |-> old], NEW x
  PROVE  [line EXCEPT !.items = x] = [walk |-> w, key |-> k, items |-> x]
OBVIOUS

(* The line of a record without the names does not depend on the table.    *)
LEMMA BareLine ==
  ASSUME NEW r, Fits(r), NEW ns, NEW max
  PROVE  Bare(LineOf(r, ns, max)) =
           [walk |-> WalkOf(r), key |-> r.header.key,
            items |-> [g \in 1..Len(r.groups) |-> [j \in 1..Len(r.groups[g].items) |-> r.groups[g].items[j].addr]]]
<1> DEFINE n == Len(r.groups)  L(g) == Len(r.groups[g].items)
           shown == [g \in 1..n |-> Shown(r.groups[g].items, ns, max)]
           bare == [g \in 1..n |-> [j \in 1..L(g) |-> r.groups[g].items[j].addr]]
<1>1. n \in Nat /\ \A g \in 1..n : L(g) \in Nat
  BY DEF Fits, IsPiece, IsGroup
<1> PICK line : line = LineOf(r, ns, max)
  OBVIOUS
<1>2. line = [walk |-> WalkOf(r), key |-> r.header.key, items |-> shown]
  BY DEF LineOf, Shown
<1>3. line.items = shown
  BY <1>2
<1>4. ASSUME NEW g \in 1..n
      PROVE  /\ Len(shown[g]) = L(g)
             /\ \A j \in 1..L(g) : shown[g][j].addr = r.groups[g].items[j].addr
  BY <1>1 DEF Shown
<1>5. Len(shown) = n
  BY <1>1
<1> HIDE DEF shown, n, L
<1>6. [g \in 1..Len(line.items) |-> [j \in 1..Len(line.items[g]) |-> line.items[g][j].addr]] = bare
  <2>1. \A g \in 1..n : [j \in 1..Len(shown[g]) |-> shown[g][j].addr] = [j \in 1..L(g) |-> r.groups[g].items[j].addr]
    BY <1>4
  <2>2. [g \in 1..n |-> [j \in 1..Len(shown[g]) |-> shown[g][j].addr]] = bare
    BY <2>1
  <2> QED BY <1>3, <1>5, <2>2
<1> HIDE DEF bare
<1>7. Bare(line) = [line EXCEPT !.items = bare]
  BY <1>6 DEF Bare
<1>8. [line EXCEPT !.items = bare] = [walk |-> WalkOf(r), key |-> r.header.key, items |-> bare]
  BY <1>2, OtherItems
<1> QED BY <1>7, <1>8 DEF bare, n, L

(* So two reports of the same records are the same without the names.      *)
LEMMA NamelessLines ==
  ASSUME NEW recs, IsList(recs), \A i \in 1..Len(recs) : Fits(recs[i]), NEW ns, NEW max, NEW ms, NEW most
  PROVE  Nameless(Lines(recs, ns, max)) = Nameless(Lines(recs, ms, most))
<1> DEFINE n == Len(recs)
<1>1. ASSUME NEW lines PROVE Nameless(lines) = [i \in 1..Len(lines) |-> Bare(lines[i])]
  BY DEF Nameless, Bare
<1>2. /\ Len(Lines(recs, ns, max)) = n /\ \A i \in 1..n : Lines(recs, ns, max)[i] = LineOf(recs[i], ns, max)
      /\ Len(Lines(recs, ms, most)) = n /\ \A i \in 1..n : Lines(recs, ms, most)[i] = LineOf(recs[i], ms, most)
  BY LinesAre
<1>3. \A i \in 1..n : Bare(LineOf(recs[i], ns, max)) = Bare(LineOf(recs[i], ms, most))
  BY BareLine
<1> PICK a, b : a = Lines(recs, ns, max) /\ b = Lines(recs, ms, most)
  OBVIOUS
<1>4. Nameless(a) = [i \in 1..n |-> Bare(a[i])] /\ Nameless(b) = [i \in 1..n |-> Bare(b[i])]
  BY <1>1, <1>2
<1>5. \A i \in 1..n : Bare(a[i]) = Bare(b[i])
  BY <1>2, <1>3
<1> QED BY <1>4, <1>5

-----------------------------------------------------------------------------
(* After the last walk, all records are passed.                            *)
LEMMA AllPassed ==
  ASSUME NEW recs, Ranked(recs, 1, 6), Len(recs) \in Nat, NEW j, NEW p, Passed(recs, p, 7, j)
  PROVE  p = Len(recs)
<1> DEFINE n == Len(recs)  R(i) == Rank[WalkOf(recs[i])]
<1>1. \A i \in 1..n : R(i) \in 1..6
  BY DEF Ranked
<1>2. p \in 0..n /\ \A i \in 1..n : i <= p <=> R(i) < 7 \/ (R(i) = 7 /\ i <= j)
  BY DEF Passed
<1> HIDE DEF R
<1>3. n = 0 \/ n \in 1..n
  OBVIOUS
<1> QED BY <1>1, <1>2, <1>3

(* After the walk over the images, these are the images.                   *)
LEMMA ImagesPassed ==
  ASSUME NEW recs, Ranked(recs, 1, 6), Len(recs) \in Nat, NEW q \in 0..Len(recs),
         \A i \in 1..Len(recs) : Rank[WalkOf(recs[i])] = 1 <=> i <= q, NEW p, Passed(recs, p, 1, Len(recs))
  PROVE  p = q
<1> DEFINE n == Len(recs)  R(i) == Rank[WalkOf(recs[i])]
<1>1. \A i \in 1..n : R(i) \in 1..6 /\ (R(i) = 1 <=> i <= q)
  BY DEF Ranked
<1>2. p \in 0..n /\ \A i \in 1..n : i <= p <=> R(i) < 1 \/ (R(i) = 1 /\ i <= n)
  BY DEF Passed
<1> HIDE DEF R
<1>3. \A i \in 1..n : i <= p <=> i <= q
  BY <1>1, <1>2
<1>4. (p = 0 \/ p \in 1..n) /\ (q = 0 \/ q \in 1..n)
  BY <1>2
<1> QED BY <1>2, <1>3, <1>4

(* The report of some records, the first ones left out.                    *)
LEMMA ReportLines ==
  ASSUME NEW recs, Ranked(recs, 1, 6), Len(recs) \in Nat, NEW j, walk = "end", NEW head, NEW rest, recs = head \o rest,
         IsList(head), IsList(rest)
  PROVE  /\ Reported(recs, 0, j) => report = Lines(recs, names, namesMax)
         /\ Reported(recs, Len(head), j) => report = Lines(rest, names, namesMax)
<1>1. Rank[walk] = 7
  BY RanksAre
<1>2. /\ Len(head) \in Nat /\ Len(rest) \in Nat /\ Len(recs) = Len(head) + Len(rest)
      /\ \A i \in 1..Len(rest) : recs[Len(head) + i] = rest[i]
  BY JoinIs
<1>3. ASSUME NEW skip, Reported(recs, skip, j)
      PROVE  /\ IsList(report) /\ skip + Len(report) = Len(recs) /\ Len(report) \in Nat
             /\ \A i \in 1..Len(report) : report[i] = LineOf(recs[skip + i], names, namesMax)
  BY <1>1, <1>3, AllPassed, ListIs DEF Reported
<1>4. ASSUME Reported(recs, 0, j) PROVE report = Lines(recs, names, namesMax)
  <2>1. /\ IsList(report) /\ 0 + Len(report) = Len(recs) /\ Len(report) \in Nat
        /\ \A i \in 1..Len(report) : report[i] = LineOf(recs[0 + i], names, namesMax)
    BY <1>3, <1>4
  <2>2. Len(report) = Len(recs) /\ \A i \in 1..Len(recs) : 0 + i = i
    BY <2>1
  <2>3. \A i \in 1..Len(recs) : report[i] = LineOf(recs[i], names, namesMax)
    BY <2>1, <2>2
  <2>4. IsList(recs)
    BY DEF Ranked
  <2> PICK lines : lines = Lines(recs, names, namesMax)
    OBVIOUS
  <2>5. IsList(lines) /\ Len(lines) = Len(recs) /\ \A i \in 1..Len(recs) : lines[i] = LineOf(recs[i], names, namesMax)
    BY <2>4, LinesAre
  <2>6. report = lines
    BY <2>1, <2>2, <2>3, <2>5, SameList
  <2> QED BY <2>6
<1>5. ASSUME Reported(recs, Len(head), j) PROVE report = Lines(rest, names, namesMax)
  <2>1. /\ IsList(report) /\ Len(head) + Len(report) = Len(recs) /\ Len(report) \in Nat
        /\ \A i \in 1..Len(report) : report[i] = LineOf(recs[Len(head) + i], names, namesMax)
    BY <1>3, <1>5
  <2>2. Len(report) = Len(rest)
    BY <1>2, <2>1
  <2>3. \A i \in 1..Len(rest) : report[i] = LineOf(rest[i], names, namesMax)
    BY <1>2, <2>1, <2>2
  <2> PICK lines : lines = Lines(rest, names, namesMax)
    OBVIOUS
  <2>5. IsList(lines) /\ Len(lines) = Len(rest) /\ \A i \in 1..Len(rest) : lines[i] = LineOf(rest[i], names, namesMax)
    BY LinesAre
  <2>6. report = lines
    BY <2>1, <2>2, <2>3, <2>5, SameList
  <2> QED BY <2>6
<1> QED BY <1>4, <1>5

(* The records behind the images are a list.                               *)
LEMMA RestIsList == ASSUME NEW imgs, NEW c, NEW child, Followed(imgs, c, child) PROVE IsList(RestRecords(imgs, c, child))
<1> DEFINE r2 == HandleRecords(imgs, c.handles)  r3 == ProtocolRecords(imgs, UpToOwn(c.protocols))
           r4 == SmiRecords(imgs, c.smis)  r5 == <<RootRecord(imgs, c.roots)>>  r6 == ChildRecords(imgs, child)
<1>1. IsList(r2) /\ IsList(r3) /\ IsList(r4) /\ IsList(r5) /\ IsList(r6)
  BY SectionsRanked DEF Ranked
<1>2. RestRecords(imgs, c, child) = r2 \o (r3 \o (r4 \o (r5 \o r6)))
  BY DEF RestRecords
<1> HIDE DEF r2, r3, r4, r5, r6
<1>3. IsList(r5 \o r6)
  BY <1>1, ListsJoin
<1>4. IsList(r4 \o (r5 \o r6))
  BY <1>1, <1>3, ListsJoin
<1>5. IsList(r3 \o (r4 \o (r5 \o r6)))
  BY <1>1, <1>4, ListsJoin
<1> QED BY <1>1, <1>2, <1>5, ListsJoin

(* When all walks have ended, the report is that of the platform.          *)
LEMMA ReportIs == ASSUME SystemInv, TableInv PROVE ReportComplete
<1> SUFFICES ASSUME walk = "end", report # <<>>
             PROVE  report = ImageLines \o Expected \/ (namesMax = 0 /\ Nameless(report) = Nameless(Expected))
  BY DEF ReportComplete
<1>1. present /\ \E at, j : Walking(Recs, at, j)
  BY DEF SystemInv, AppInv, Blank
<1> DEFINE head == ImageRecords(images)  rest == RestRecords(images, core, platform.child)
<1>2. /\ AgentInv /\ core = UninstallProtocolInterface(InstallProtocolInterface(Lists0)) /\ NamesRight(images)
      /\ IsList(images) /\ Len(images) \in Nat
  BY <1>1, ListIs DEF SystemInv, DataInv, TableInv, AgentInv
<1>3. Followed(images, core, platform.child)
  BY <1>2, DatabaseFollowed
<1> PICK recs : recs = AllRecords(images, core, platform.child)
  OBVIOUS
<1>4. /\ Ranked(recs, 1, 6) /\ Len(recs) \in Nat /\ Len(images) \in 0..Len(recs)
      /\ \A i \in 1..Len(recs) : Rank[WalkOf(recs[i])] = 1 <=> i <= Len(images)
      /\ \A i \in 1..Len(images) : recs[i] = ImageRecord(images[i])
  BY <1>3, RecordsRanked
<1>5. recs = head \o rest /\ IsList(head) /\ Len(head) = Len(images) /\ IsList(rest) /\ \A i \in 1..Len(rest) : Fits(rest[i])
  <2>1. recs = head \o rest
    BY DEF AllRecords
  <2>2. IsList(head) /\ Len(head) = Len(images)
    BY <1>3, SectionsRanked DEF Ranked
  <2>3. IsList(rest)
    BY <1>3, RestIsList
  <2> HIDE DEF head, rest
  <2>4. /\ Len(head) \in Nat /\ Len(rest) \in Nat /\ Len(recs) = Len(head) + Len(rest)
        /\ \A i \in 1..Len(rest) : recs[Len(head) + i] = rest[i]
    <3>1. IsList(head) /\ IsList(rest)
      BY <2>2, <2>3
    <3> QED BY <2>1, <3>1, JoinIs
  <2>5. ASSUME NEW i \in 1..Len(rest) PROVE Fits(rest[i])
    <3>1. Len(head) + i \in 1..Len(recs)
      BY <2>4
    <3> QED BY <1>4, <2>4, <3>1 DEF Ranked
  <2> QED BY <2>1, <2>2, <2>3, <2>5
<1>6. ImageLines = Lines(head, names, namesMax)
  BY ImageLinesAre
<1>7. ASSUME NEW ns, NEW max, NamesOf(ns, max, images) PROVE Expected = Lines(rest, ns, max)
  BY <1>2, <1>7, ExpectedIs
<1> HIDE DEF head, rest
<1>8. PICK at, j : Walking(recs, at, j)
  BY <1>1 DEF Recs
<1>9. Naming(recs, j) \/ Unnamed(recs, j)
  BY <1>8 DEF Walking, Nameful, Counting, Imaging
<1>10. CASE Naming(recs, j)
  <2>1. Passed(recs, namesMax, 1, Len(recs)) /\ Named(recs, Len(recs)) /\ Reported(recs, 0, j)
    BY <1>10 DEF Naming
  <2>2. namesMax = Len(images)
    BY <1>4, <2>1, ImagesPassed
  <2>3. Len(names) = Len(images) /\ \A i \in 1..Len(names) : names[i] = recs[i].header.key.name
    BY <1>4, <2>1, ImagesPassed DEF Named
  <2>4. \A i \in 1..Len(images) : names[i] = images[i].name
    <3>1. ASSUME NEW i \in 1..Len(images) PROVE names[i] = images[i].name
      <4>1. recs[i] = ImageRecord(images[i])
        BY <1>4
      <4>2. recs[i].header.key = images[i]
        BY <4>1 DEF ImageRecord, Record, Header
      <4> QED BY <2>3, <4>2
    <3> QED BY <3>1
  <2>5. NamesOf(names, namesMax, images)
    BY <2>2, <2>4 DEF NamesOf
  <2>6. Expected = Lines(rest, names, namesMax)
    BY <1>7, <2>5
  <2>7. report = Lines(recs, names, namesMax)
    BY <1>4, <1>5, <2>1, ReportLines
  <2>8. Lines(head \o rest, names, namesMax) = Lines(head, names, namesMax) \o Lines(rest, names, namesMax)
    BY <1>5, LinesJoin
  <2> QED BY <1>5, <1>6, <2>6, <2>7, <2>8
<1>11. CASE Unnamed(recs, j)
  <2>1. PICK skip : Passed(recs, skip, 1, Len(recs)) /\ Reported(recs, skip, j)
    BY <1>11 DEF Unnamed
  <2>2. skip = Len(head)
    BY <1>4, <1>5, <2>1, ImagesPassed
  <2>3. report = Lines(rest, names, namesMax)
    BY <1>4, <1>5, <2>1, <2>2, ReportLines
  <2>4. PICK ns, max : NamesOf(ns, max, images)
    <3>1. NamesOf([i \in 1..Len(images) |-> images[i].name], Len(images), images)
      BY DEF NamesOf
    <3> QED BY <3>1
  <2>5. Expected = Lines(rest, ns, max)
    BY <1>7, <2>4
  <2>6. Nameless(Lines(rest, names, namesMax)) = Nameless(Lines(rest, ns, max))
    BY <1>5, NamelessLines
  <2>7. namesMax = 0
    BY <1>11 DEF Unnamed
  <2> QED BY <2>3, <2>5, <2>6, <2>7
<1> QED BY <1>9, <1>10, <1>11

-----------------------------------------------------------------------------
(* The number of names that a walk has collected.                          *)
LEMMA NamesCounted == ASSUME NEW recs, NEW at, NEW j, Walking(recs, at, j) PROVE namesMax \in Nat /\ Len(names) <= namesMax
<1>1. /\ Ranked(recs, 1, 6) /\ Len(recs) \in Nat /\ j \in 0..Len(recs) /\ (Nameful(recs, j) \/ Unnamed(recs, j))
  BY CursorAt DEF Walking, Placed
<1>2. CASE Counting(recs, j)
  BY <1>1, <1>2, EmptyIsList DEF Counting, Passed
<1>3. CASE Imaging(recs, j) \/ Naming(recs, j)
  <2>1. PICK l \in 0..Len(recs) : Passed(recs, namesMax, 1, Len(recs)) /\ Passed(recs, Len(names), 1, l)
    <3>1. Len(recs) \in 0..Len(recs)
      BY <1>1
    <3> QED BY <1>1, <1>3, <3>1 DEF Imaging, Naming, Named
  <2>2. namesMax \in Nat
    BY <1>1, <2>1 DEF Passed
  <2>3. l \in Nat /\ Len(recs) \in Nat /\ l <= Len(recs)
    BY <1>1
  <2> QED BY <2>1, <2>2, <2>3, PassedGrows
<1>4. CASE Unnamed(recs, j)
  BY <1>4, EmptyIsList DEF Unnamed
<1> QED BY <1>1, <1>2, <1>3, <1>4 DEF Nameful

(* SystemInv and TableInv imply that the state is as it should be.         *)
LEMMA TypesAre == ASSUME SystemInv, TableInv PROVE TypeOK
<1>1. /\ apc \in AgentPcs /\ imageMax \in Nat /\ Len(images) <= imageMax
      /\ coreFound \in BOOLEAN /\ present \in BOOLEAN /\ registered \in BOOLEAN
  BY DEF SystemInv, AgentInv, TableInv
<1>2. CASE walk \in {"wait", "end"} /\ Blank
  <2>1. walk \in Walks \cup {"wait", "end"} /\ cursor \in Nat /\ namesMax \in Nat /\ Len(names) <= namesMax
    BY <1>2, EmptyIsList DEF Blank
  <2> QED BY <1>1, <2>1 DEF TypeOK
<1>3. ASSUME NEW at, NEW j, Walking(Recs, at, j) PROVE TypeOK
  <2>1. namesMax \in Nat /\ Len(names) <= namesMax
    BY <1>3, NamesCounted
  <2>2. cursor \in Nat
    BY <1>3, CursorAt DEF Walking
  <2>3. walk \in Walks \cup {"wait", "end"}
    BY <1>3 DEF Walking
  <2> QED BY <1>1, <2>1, <2>2, <2>3 DEF TypeOK
<1> QED BY <1>2, <1>3 DEF SystemInv, AppInv

(* What holds in every state of a platform whose tables agree.             *)
ReportInv == SystemInv /\ TablesAgree(platform) /\ TableInv

(* A platform keeps its tables.                                            *)
LEMMA ReportStep == ASSUME ReportInv, [Next]_vars PROVE ReportInv'
<1>1. AgentInv /\ DataInv /\ TableInv /\ TablesAgree(platform) /\ SystemInv
  BY DEF ReportInv, SystemInv
<1>2. ASSUME UNCHANGED agentVars PROVE TableInv' /\ platform' = platform
  BY <1>1, <1>2 DEF TableInv, agentVars, NamesRight, NameIn, PlatformName, Holders, AllImages, SmramImages
<1>3. CASE Agent
  <2>1. AgentNext
    BY <1>3 DEF Agent
  <2>2. platform' = platform
    BY <2>1 DEF AgentNext, GetSmmLoadedImageFails, GetSmmLoadedImage, GetLoadedImageFails, GetLoadedImage, InstallFails,
       Install, Discover, UninstallFails, Uninstall, ProbeSmiEntryList, ProbeRootSmiHandlerList, BuildSize,
       BuildAllocateFails, BuildData, RegisterFails, RegisterSmmCoreDumpHandler
  <2>3. SystemInv'
    BY <1>1, <1>3, SystemStep DEF Next
  <2> QED BY <1>1, <2>1, <2>2, <2>3, TableStep DEF ReportInv
<1>4. CASE Fetch \/ Walk
  <2>1. UNCHANGED agentVars
    BY <1>4 DEF Fetch, Walk
  <2>2. SystemInv'
    BY <1>1, <1>4, SystemStep DEF Next
  <2> QED BY <1>1, <1>2, <2>1, <2>2 DEF ReportInv
<1>5. CASE UNCHANGED vars
  <2>1. UNCHANGED agentVars
    BY <1>5 DEF vars
  <2> QED BY <1>1, <1>2, <1>5, <2>1, SystemStays DEF ReportInv
<1> QED BY <1>3, <1>4, <1>5 DEF Next

(* On a platform whose image tables agree, the application stays on the    *)
(* records of the database and prints, when it prints all, exactly what    *)
(* the lists of the platform hold, each address with the name of its image.*)
THEOREM ReportRightAlways == Spec /\ TablesAgree(platform) => []ReportRight
<1>1. Init /\ TablesAgree(platform) => ReportInv
  <2> SUFFICES ASSUME Init, TablesAgree(platform) PROVE TableInv
    BY SystemInit DEF ReportInv
  <2>1. images = <<>> /\ imageMax = 0 /\ coreFound = FALSE /\ present = FALSE /\ registered = FALSE /\ apc = "images"
    BY Zenon DEF Init, AgentInit
  <2>2. imageMax \in Nat /\ Len(images) <= imageMax
    BY <2>1, EmptyIsList
  <2>3. coreFound \in BOOLEAN /\ present \in BOOLEAN /\ registered \in BOOLEAN /\ ~present
    BY <2>1, Zenon
  <2> QED BY <2>1, <2>2, <2>3 DEF TableInv
<1>2. ReportInv => ReportRight
  BY OnTheRecords, ReportIs, TypesAre DEF ReportInv, ReportRight
<1> QED
  BY <1>1, <1>2, ReportStep, PTL DEF Spec
=============================================================================
