------------------------- MODULE SmmCoreAgentProofs -------------------------
(***************************************************************************)
(* Proofs about SmmCoreAgent, for all platforms: the data pass fills what  *)
(* the size pass has asked for, and the probes of the driver leave the     *)
(* lists of the SMM core as they were.                                     *)
(***************************************************************************)
EXTENDS SmmCoreAgent, WellFoundedInduction, TLAPS

(* Induction on the natural numbers, for a set.                            *)
LEMMA Induction ==
  ASSUME NEW S, 0 \in S, \A n \in Nat : n \in S => n + 1 \in S
  PROVE  Nat \subseteq S
<1> DEFINE T == Nat \ S
<1> DEFINE R == OpToRel(<, Nat)
<1>1. SUFFICES ASSUME T # {} PROVE FALSE
  OBVIOUS
<1>2. IsWellFoundedOn(R, Nat)
  BY NatLessThanWellFounded
<1>3. PICK x \in T : \A y \in T : ~(<<y, x>> \in R)
  BY <1>1, <1>2, WFMin
<1>4. x \in Nat /\ x # 0 /\ x-1 \in Nat /\ x - 1 < x /\ x = (x-1) + 1
  OBVIOUS
<1>5. <<x-1,x>> \in R
  BY <1>4 DEF OpToRel
<1>6. x - 1 \in S
  <2> HIDE DEF R
  <2> QED BY <1>3, <1>4, <1>5
<1> QED BY <1>4, <1>6

(* A function on 1..n is a sequence of length n.                           *)
LEMMA FunctionIsSeq ==
  ASSUME NEW n \in Nat, NEW T, NEW f \in [1..n -> T]
  PROVE  f \in Seq(T) /\ Len(f) = n
OBVIOUS

-----------------------------------------------------------------------------
(* SumOf adds the numbers one after the other.                             *)
IsSum(f, numbers, m) == f = [n \in 0..m |-> IF n = 0 THEN 0 ELSE f[n - 1] + numbers[n]]

(* The recursion of Sums has a solution, by induction on the length.       *)
LEMMA SumsExist ==
  ASSUME NEW numbers \in Seq(Nat), NEW m \in Nat
  PROVE  \E f : IsSum(f, numbers, m)
<1> DEFINE S == {k \in Nat : \E f : IsSum(f, numbers, k)}
<1>1. 0 \in S
  <2>1. IsSum([n \in 0..0 |-> 0], numbers, 0)
    BY DEF IsSum
  <2> QED
    BY <2>1
<1>2. ASSUME NEW k \in Nat, k \in S PROVE k + 1 \in S
  <2>1. PICK f : IsSum(f, numbers, k)
    BY <1>2
  <2> DEFINE g == [n \in 0..k + 1 |-> IF n = k + 1 THEN f[k] + numbers[k + 1] ELSE f[n]]
  <2>3. f = [n \in 0..k |-> IF n = 0 THEN 0 ELSE f[n - 1] + numbers[n]]
    BY <2>1 DEF IsSum
  <2>2. \A n \in 0..k + 1 : g[n] = IF n = 0 THEN 0 ELSE g[n - 1] + numbers[n]
    <3>1. ASSUME NEW n \in 0..k + 1 PROVE g[n] = IF n = 0 THEN 0 ELSE g[n - 1] + numbers[n]
      <4>1. CASE n = k + 1
        <5>1. n - 1 = k /\ k \in 0..k+1 /\ k # k+1 /\ n # 0
          BY <4>1
        <5> QED
          BY <4>1, <5>1
      <4>2. CASE n # k + 1
        <5>1. n \in 0..k /\ (n # 0 => n - 1 \in 0..k + 1 /\ n - 1 # k + 1)
          BY <4>2
        <5>2. g[n] = f[n] /\ (n # 0 => g[n - 1] = f[n - 1])
          BY <4>2, <5>1
        <5>3. f[n] = IF n = 0 THEN 0 ELSE f[n - 1] + numbers[n]
          BY <2>3, <5>1
        <5> QED
          BY <5>2, <5>3
      <4> QED
        BY <4>1, <4>2
    <3> QED
      BY <3>1
  <2>4. IsSum(g, numbers, k + 1)
    <3>1. g = [n \in 0..k + 1 |-> g[n]]
      OBVIOUS
    <3> HIDE DEF g
    <3> QED
      BY <2>2, <3>1 DEF IsSum
  <2> QED
    BY <2>4
<1> HIDE DEF S
<1>3. Nat \subseteq S
  BY <1>1, <1>2, Induction
<1> QED
  BY <1>3 DEF S

(* So Sums holds the sums of the numbers that it says.                     *)
LEMMA SumsAre ==
  ASSUME NEW numbers \in Seq(Nat)
  PROVE  Sums(numbers)[0] = 0 /\ \A n \in 1..Len(numbers) : Sums(numbers)[n] = Sums(numbers)[n - 1] + numbers[n]
<1>1. Sums(numbers) = CHOOSE f : f = [n \in 0..Len(numbers) |-> IF n = 0 THEN 0 ELSE f[n - 1] + numbers[n]]
  BY DEF Sums
<1>2. Len(numbers) \in Nat
  OBVIOUS
<1>3. IsSum(Sums(numbers), numbers, Len(numbers))
  BY <1>1, <1>2, SumsExist DEF IsSum
<1> DEFINE t == Sums(numbers)
<1>4. t = [n \in 0..Len(numbers) |-> IF n = 0 THEN 0 ELSE t[n - 1] + numbers[n]]
  BY <1>3 DEF IsSum
<1> HIDE DEF t
<1>5. t[0] = 0 /\ \A n \in 1..Len(numbers) : t[n] = t[n - 1] + numbers[n]
  BY <1>2, <1>4
<1> QED
  BY <1>5 DEF t

(* They are natural numbers and grow.                                      *)
LEMMA SumsGrow ==
  ASSUME NEW numbers \in Seq(Nat)
  PROVE  \A n \in 0..Len(numbers) : Sums(numbers)[n] \in Nat /\ Sums(numbers)[n] <= SumOf(numbers)
<1> DEFINE t == Sums(numbers)  m == Len(numbers)
           S == {n \in Nat : n <= m => t[n] \in Nat}
           D == {n \in Nat : n <= m => t[m - n] <= t[m]}
<1>1. m \in Nat /\ \A n \in 1..m : numbers[n] \in Nat
  OBVIOUS
<1>2. t[0] = 0 /\ \A n \in 1..m : t[n] = t[n - 1] + numbers[n]
  BY SumsAre
<1> HIDE DEF t, m
<1>3. 0 \in S
  BY <1>2
<1>4. ASSUME NEW n \in Nat, n \in S PROVE n + 1 \in S
  <2>1. SUFFICES ASSUME n + 1 <= m PROVE t[n + 1] \in Nat
    OBVIOUS
  <2>2. n + 1 \in 1..m /\ n <= m /\ (n + 1) - 1 = n
    BY <1>1, <2>1
  <2>3. t[n + 1] = t[n] + numbers[n + 1] /\ t[n] \in Nat /\ numbers[n + 1] \in Nat
    BY <1>1, <1>2, <1>4, <2>2
  <2> QED
    BY <2>3
<1>5. \A n \in 0..m : t[n] \in Nat
  <2> HIDE DEF S
  <2>1. Nat \subseteq S
    BY <1>3, <1>4, Induction
  <2> QED
    BY <1>1, <2>1 DEF S
<1>6. 0 \in D
  <2>1. m - 0 = m /\ t[m] \in Nat
    BY <1>1, <1>5
  <2> QED
    BY <2>1
<1>7. ASSUME NEW n \in Nat, n \in D PROVE n + 1 \in D
  <2>1. SUFFICES ASSUME n + 1 <= m PROVE t[m - (n + 1)] <= t[m]
    OBVIOUS
  <2>2. m - n \in 1..m /\ (m - n) - 1 = m - (n + 1) /\ n <= m /\ m - (n + 1) \in 0..m /\ m - n \in 0..m /\ m \in 0..m
    BY <1>1, <2>1
  <2>3. t[m - n] = t[m - (n + 1)] + numbers[m - n] /\ t[m - n] <= t[m]
    BY <1>2, <1>7, <2>2
  <2>4. t[m - n] \in Nat /\ t[m - (n + 1)] \in Nat /\ numbers[m - n] \in Nat /\ t[m] \in Nat
    BY <1>1, <1>5, <2>2
  <2> QED
    BY <2>3, <2>4
<1>8. \A n \in 0..m : t[n] <= t[m]
  <2> HIDE DEF D
  <2>1. Nat \subseteq D
    BY <1>6, <1>7, Induction
  <2>2. ASSUME NEW n \in 0..m PROVE t[n] <= t[m]
    <3>1. m - n \in Nat /\ m - n <= m /\ m - (m - n) = n
      BY <1>1
    <3>2. m - n \in D
      BY <2>1, <3>1
    <3> QED
      BY <3>1, <3>2 DEF D
  <2> QED
    BY <2>2
<1> QED
  BY <1>5, <1>8 DEF t, m, SumOf

-----------------------------------------------------------------------------
(* What one record takes.                                                  *)
IsGroup(g) == g.size \in Nat \ {0} /\ Len(g.items) \in Nat
GroupSize(g) == Len(g.items) * g.size
IsRecord(r) ==
  /\ r.size \in Nat \ {0} /\ Len(r.groups) \in {1, 2} /\ IsGroup(r.groups[1])
  /\ Len(r.groups) = 2 => IsGroup(r.groups[2])
RecordSize(r) == r.size + GroupSize(r.groups[1]) + IF Len(r.groups) = 1 THEN 0 ELSE GroupSize(r.groups[2])

(* The product of two natural numbers.                                     *)
LEMMA Product == ASSUME NEW a \in Nat, NEW b \in Nat PROVE a * b \in Nat
OBVIOUS

(* Room for n items is room for each of them.                              *)
LEMMA ProductGrows == ASSUME NEW n \in Nat, NEW i \in 1..n, NEW s \in Nat PROVE (i - 1) * s + s <= n * s /\ (i - 1) * s \in Nat
<1>1. (i - 1) * s + s = i * s
  OBVIOUS
<1>2. n * s = i * s + (n - i) * s
  OBVIOUS
<1>3. n - i \in Nat /\ i - 1 \in Nat /\ i \in Nat
  OBVIOUS
<1>4. (n - i) * s \in Nat /\ i * s \in Nat /\ (i - 1) * s \in Nat /\ n * s \in Nat
  BY <1>3, Product
<1> QED
  BY <1>1, <1>2, <1>4

(* The size of a group is a natural number.                                *)
LEMMA GroupSizeNat == ASSUME NEW g, IsGroup(g) PROVE GroupSize(g) \in Nat
BY Product DEF IsGroup, GroupSize

(* So is the size of a record, its header included.                        *)
LEMMA RecordSizeNat == ASSUME NEW r, IsRecord(r) PROVE RecordSize(r) \in Nat /\ RecordSize(r) >= r.size
<1>1. r.size \in Nat /\ GroupSize(r.groups[1]) \in Nat /\ (Len(r.groups) # 1 => GroupSize(r.groups[2]) \in Nat)
  BY GroupSizeNat DEF IsRecord
<1> QED
  BY <1>1 DEF RecordSize

(* All the items of a group are written when there is room for them.       *)
LEMMA GroupFits ==
  ASSUME NEW record, NEW g, NEW room \in Nat, record.len \in Nat, IsGroup(g), record.len + GroupSize(g) <= room
  PROVE  EmitGroup(record, g, room).len = record.len + GroupSize(g)
<1> DEFINE left == room - record.len  n == Len(g.items)  s == g.size
<1>1. n \in Nat /\ s \in Nat /\ s # 0 /\ left \in Int /\ n * s \in Nat
  BY Product DEF IsGroup
<1>2. n * s <= left
  BY <1>1 DEF GroupSize
<1> DEFINE fits == \A i \in 1..n : (i - 1) * s < left /\ s <= left - (i - 1) * s
<1>3. fits
  <2> HIDE DEF left, n, s
  <2>1. ASSUME NEW i \in 1..n PROVE (i - 1) * s < left /\ s <= left - (i - 1) * s
    <3>1. (i - 1) * s + s <= n * s /\ (i - 1) * s \in Nat
      BY <1>1, ProductGrows
    <3> QED
      BY <1>1, <1>2, <3>1
  <2> QED
    BY <2>1
<1>4. EmitGroup(record, g, room).len = record.len + (IF fits THEN n ELSE 0) * s
  BY DEF EmitGroup
<1> HIDE DEF fits
<1> QED
  BY <1>3, <1>4 DEF GroupSize

(* So is a record, in a section that has room for it.                      *)
LEMMA RecordFits ==
  ASSUME NEW section, NEW r, NEW expected \in Nat, section.ok, section.size \in Nat, IsRecord(r),
         section.size + RecordSize(r) <= expected
  PROVE  EmitRecord(section, r, expected).ok /\ EmitRecord(section, r, expected).size = section.size + RecordSize(r)
<1> DEFINE room == expected - section.size
           start == [len |-> r.size, counts |-> <<>>, cells |-> EmptyMem]
           first == EmitGroup(start, r.groups[1], room)
           a == GroupSize(r.groups[1])  b == GroupSize(r.groups[2])
           e == EmitGroups(start, r.groups, room)
<1>1. /\ r.size \in Nat \ {0} /\ RecordSize(r) \in Nat /\ RecordSize(r) >= r.size /\ a \in Nat
      /\ (Len(r.groups) # 1 => b \in Nat /\ IsGroup(r.groups[2])) /\ IsGroup(r.groups[1])
  BY RecordSizeNat, GroupSizeNat DEF IsRecord
<1>2. RecordSize(r) = r.size + a + IF Len(r.groups) = 1 THEN 0 ELSE b
  BY DEF RecordSize
<1>3. room \in Nat /\ RecordSize(r) <= room /\ ~(section.size >= expected) /\ ~(r.size > room)
  BY <1>1
<1>4. start.len = r.size
  OBVIOUS
<1> HIDE DEF room, start, a, b
<1>5. first.len = r.size + a
  <2>1. start.len + a <= room
    BY <1>1, <1>2, <1>3, <1>4
  <2> QED
    BY <1>1, <1>3, <1>4, <2>1, GroupFits DEF a
<1>6. e.len = RecordSize(r)
  <2>1. CASE Len(r.groups) = 1
    <3>1. e.len = first.len
      BY <2>1 DEF EmitGroups
    <3> HIDE DEF e, first
    <3> QED
      BY <1>1, <1>2, <1>5, <2>1, <3>1
  <2>2. CASE Len(r.groups) # 1
    <3>1. e = EmitGroup(first, r.groups[2], room)
      BY <2>2 DEF EmitGroups
    <3> HIDE DEF e, first
    <3>2. first.len \in Nat /\ first.len + b <= room
      BY <1>1, <1>2, <1>3, <1>5, <2>2
    <3>3. e.len = first.len + b
      BY <1>1, <1>3, <2>2, <3>1, <3>2, GroupFits DEF b
    <3> QED
      BY <1>1, <1>2, <1>5, <2>2, <3>3
  <2> QED
    BY <2>1, <2>2
<1>7. EmitRecord(section, r, expected).ok /\ EmitRecord(section, r, expected).size = section.size + e.len
  <2>1. ~(~section.ok \/ section.size >= expected \/ r.size > expected - section.size)
    BY <1>3 DEF room
  <2> HIDE DEF e
  <2> DEFINE filled ==
               Over(section.mem,
                    At(section.size,
                       Over([o \in {0} |-> [r.header EXCEPT !.len = e.len, !.counts = e.counts]], e.cells)))
  <2>2. EmitRecord(section, r, expected) = [size |-> section.size + e.len, mem |-> filled, ok |-> TRUE]
    BY <2>1, Zenon DEF EmitRecord, e, start, room
  <2> HIDE DEF filled
  <2> QED
    BY <2>2
<1> QED
  BY <1>6, <1>7
-----------------------------------------------------------------------------
(* The sections of a pass, one record after the other.                     *)
IsSections(f, records, expected, m) ==
  f = [n \in 0..m |-> IF n = 0 THEN Section0 ELSE EmitRecord(f[n - 1], records[n], expected)]

(* The recursion of Sections has a solution.                               *)
LEMMA SectionsExist ==
  ASSUME NEW records, NEW expected, NEW m \in Nat
  PROVE  \E f : IsSections(f, records, expected, m)
<1> DEFINE S == {k \in Nat : \E f : IsSections(f, records, expected, k)}
<1>1. 0 \in S
  <2>1. IsSections([n \in 0..0 |-> Section0], records, expected, 0)
    BY DEF IsSections
  <2> QED
    BY <2>1
<1>2. ASSUME NEW k \in Nat, k \in S PROVE k + 1 \in S
  <2>1. PICK f : IsSections(f, records, expected, k)
    BY <1>2
  <2> DEFINE g == [n \in 0..k + 1 |-> IF n = k + 1 THEN EmitRecord(f[k], records[k + 1], expected) ELSE f[n]]
  <2>3. f = [n \in 0..k |-> IF n = 0 THEN Section0 ELSE EmitRecord(f[n - 1], records[n], expected)]
    BY <2>1 DEF IsSections
  <2>2. \A n \in 0..k + 1 : g[n] = IF n = 0 THEN Section0 ELSE EmitRecord(g[n - 1], records[n], expected)
    <3>1. ASSUME NEW n \in 0..k + 1 PROVE g[n] = IF n = 0 THEN Section0 ELSE EmitRecord(g[n - 1], records[n], expected)
      <4>1. CASE n = k + 1
        <5>1. n - 1 = k /\ k \in 0..k+1 /\ k # k+1 /\ n # 0
          BY <4>1
        <5> QED
          BY <4>1, <5>1
      <4>2. CASE n # k + 1
        <5>1. n \in 0..k /\ (n # 0 => n - 1 \in 0..k + 1 /\ n - 1 # k + 1)
          BY <4>2
        <5>2. g[n] = f[n] /\ (n # 0 => g[n - 1] = f[n - 1])
          BY <4>2, <5>1
        <5>3. f[n] = IF n = 0 THEN Section0 ELSE EmitRecord(f[n - 1], records[n], expected)
          BY <2>3, <5>1
        <5> QED
          BY <5>2, <5>3
      <4> QED
        BY <4>1, <4>2
    <3> QED
      BY <3>1
  <2>4. IsSections(g, records, expected, k + 1)
    <3>1. g = [n \in 0..k + 1 |-> g[n]]
      OBVIOUS
    <3> HIDE DEF g
    <3> QED
      BY <2>2, <3>1 DEF IsSections
  <2> QED
    BY <2>4
<1> HIDE DEF S
<1>3. Nat \subseteq S
  BY <1>1, <1>2, Induction
<1> QED
  BY <1>3 DEF S

(* So Sections holds the sections that it says.                            *)
LEMMA SectionsAre ==
  ASSUME NEW records, NEW expected, Len(records) \in Nat
  PROVE  /\ Sections(records, expected)[0] = Section0
         /\ \A n \in 1..Len(records) :
              Sections(records, expected)[n] = EmitRecord(Sections(records, expected)[n - 1], records[n], expected)
<1> DEFINE t == Sections(records, expected)
<1>1. t = CHOOSE f : f = [n \in 0..Len(records) |-> IF n = 0 THEN Section0 ELSE EmitRecord(f[n - 1], records[n], expected)]
  BY DEF Sections
<1>2. IsSections(t, records, expected, Len(records))
  <2> HIDE DEF t
  <2> QED
    BY <1>1, SectionsExist DEF IsSections
<1>3. t = [n \in 0..Len(records) |-> IF n = 0 THEN Section0 ELSE EmitRecord(t[n - 1], records[n], expected)]
  BY <1>2 DEF IsSections
<1> HIDE DEF t
<1>4. t[0] = Section0 /\ \A n \in 1..Len(records) : t[n] = EmitRecord(t[n - 1], records[n], expected)
  BY <1>3
<1> QED
  BY <1>4 DEF t

(* A section of the size that its records take holds them all.             *)
LEMMA SectionFits ==
  ASSUME NEW records, Len(records) \in Nat, \A n \in 1..Len(records) : IsRecord(records[n]),
         NEW bytes \in Seq(Nat), Len(bytes) = Len(records), \A n \in 1..Len(records) : bytes[n] = RecordSize(records[n])
  PROVE  Section(records, SumOf(bytes)).ok /\ Section(records, SumOf(bytes)).size = SumOf(bytes)
<1> DEFINE expected == SumOf(bytes)  t == Sections(records, expected)  u == Sums(bytes)  m == Len(records)
           S == {n \in Nat : n <= m => t[n].ok /\ t[n].size = u[n]}
<1>1. u[0] = 0 /\ \A n \in 1..m : u[n] = u[n - 1] + bytes[n]
  BY SumsAre
<1>2. (\A n \in 0..m : u[n] \in Nat /\ u[n] <= expected) /\ expected = u[m]
  BY SumsGrow DEF SumOf
<1>3. t[0] = Section0 /\ \A n \in 1..m : t[n] = EmitRecord(t[n - 1], records[n], expected)
  BY SectionsAre
<1>4. m \in Nat
  OBVIOUS
<1>5. Section(records, expected) = t[m]
  BY DEF Section
<1> HIDE DEF expected, t, u, m
<1>6. 0 \in S
  BY <1>1, <1>3 DEF Section0
<1>7. ASSUME NEW n \in Nat, n \in S PROVE n + 1 \in S
  <2>1. SUFFICES ASSUME n + 1 <= m PROVE t[n + 1].ok /\ t[n + 1].size = u[n + 1]
    OBVIOUS
  <2>2. n + 1 \in 1..m /\ n <= m /\ (n + 1) - 1 = n /\ n \in 0..m /\ n + 1 \in 0..m
    BY <1>4, <2>1
  <2>3. t[n + 1] = EmitRecord(t[n], records[n + 1], expected) /\ u[n + 1] = u[n] + RecordSize(records[n + 1]) /\ IsRecord(records[n + 1])
    BY <1>1, <1>3, <2>2 DEF m
  <2>4. t[n].ok /\ t[n].size = u[n] /\ u[n] \in Nat /\ u[n + 1] \in Nat /\ u[n + 1] <= expected
    BY <1>2, <1>7, <2>2
  <2>5. expected \in Nat
    BY <1>2, <1>4
  <2> QED
    BY <2>3, <2>4, <2>5, RecordFits
<1>8. Nat \subseteq S
  <2> HIDE DEF S
  <2> QED
    BY <1>6, <1>7, Induction
<1>9. t[m].ok /\ t[m].size = expected
  BY <1>2, <1>4, <1>8
<1> QED
  BY <1>5, <1>9 DEF expected

(* The size pass has measured these records.                               *)
Measured(records, size) ==
  /\ Len(records) \in Nat /\ \A n \in 1..Len(records) : IsRecord(records[n])
  /\ \E bytes \in Seq(Nat) : /\ Len(bytes) = Len(records) /\ size = SumOf(bytes)
                            /\ \A n \in 1..Len(records) : bytes[n] = RecordSize(records[n])

(* So the closing test is passed.                                          *)
LEMMA ClosedFits ==
  ASSUME NEW records, NEW size, Measured(records, size)
  PROVE  Closed(Section(records, size), size).ok
<1>1. PICK bytes \in Seq(Nat) : /\ Len(bytes) = Len(records) /\ size = SumOf(bytes)
                               /\ \A n \in 1..Len(records) : bytes[n] = RecordSize(records[n])
  BY DEF Measured
<1> DEFINE s == Section(records, size)
<1>2. s.ok /\ s.size = size
  BY <1>1, SectionFits DEF Measured
<1> HIDE DEF s
<1>3. Closed(s, size).ok
  BY <1>2 DEF Closed
<1> QED
  BY <1>3 DEF s

(* The size of a record of one group.                                      *)
LEMMA OneGroup ==
  ASSUME NEW header, NEW size \in Nat \ {0}, NEW items, Len(items) \in Nat, NEW s \in Nat \ {0}
  PROVE  /\ IsRecord(Record(header, size, <<Group(items, s)>>))
         /\ RecordSize(Record(header, size, <<Group(items, s)>>)) = size + Len(items) * s
<1> DEFINE g == Group(items, s)  r == Record(header, size, <<g>>)
<1>1. g.size = s /\ g.items = items
  BY DEF Group
<1>2. IsGroup(g) /\ GroupSize(g) = Len(items) * s /\ Len(items) * s \in Nat
  BY <1>1, Product DEF IsGroup, GroupSize
<1> HIDE DEF g
<1>3. r.size = size /\ Len(r.groups) = 1 /\ r.groups[1] = g
  BY DEF Record
<1> HIDE DEF r
<1>4. IsRecord(r) /\ RecordSize(r) = size + Len(items) * s
  BY <1>2, <1>3 DEF IsRecord, RecordSize
<1> QED
  BY <1>4 DEF r, g

-----------------------------------------------------------------------------
(* The items of a list are as many as its elements.                        *)
LEMMA ItemsAre ==
  ASSUME NEW imgs, NEW list, Len(list) \in Nat
  PROVE  Len(InterfaceItems(imgs, list)) = Len(list) /\ Len(AddressItems(imgs, list)) = Len(list)
BY DEF InterfaceItems, AddressItems

(* The sizes of the structures.                                            *)
LEMMA SizesAre ==
  /\ SizeOf.image = 132 /\ SizeOf.handle = 28 /\ SizeOf.protocol = 44 /\ SizeOf.smi = 40
  /\ SizeOf.handleProtocol = 32 /\ SizeOf.interface = 16 /\ SizeOf.notify = 16 /\ SizeOf.smiHandler = 24
BY DEF SizeOf

(* What the records of the four databases take.                            *)
LEMMA HandleRecordIs ==
  ASSUME NEW imgs, NEW h, Len(h.interfaces) \in Nat
  PROVE  IsRecord(HandleRecord(imgs, h)) /\ RecordSize(HandleRecord(imgs, h)) = 28 + Len(h.interfaces) * 32
<1>1. Len(InterfaceItems(imgs, h.interfaces)) = Len(h.interfaces) /\ Len(h.interfaces) \in Nat
  BY ItemsAre
<1> DEFINE header == Header("SCHD", h.id, FALSE)  items == InterfaceItems(imgs, h.interfaces)
<1>2. HandleRecord(imgs, h) = Record(header, 28, <<Group(items, 32)>>)
  BY SizesAre DEF HandleRecord
<1>3. Len(items) \in Nat /\ Len(items) = Len(h.interfaces)
  BY <1>1
<1> HIDE DEF header, items
<1>4. IsRecord(Record(header, 28, <<Group(items, 32)>>)) /\ RecordSize(Record(header, 28, <<Group(items, 32)>>)) = 28 + Len(items) * 32
  <2>1. 28 \in Nat \ {0} /\ 32 \in Nat \ {0}
    OBVIOUS
  <2> QED
    BY <1>3, <2>1, OneGroup
<1> QED
  BY <1>2, <1>3, <1>4

(* A record of the protocol database, with two groups.                     *)
LEMMA ProtocolRecordIs ==
  ASSUME NEW imgs, NEW p, Len(p.interfaces) \in Nat, Len(p.notifies) \in Nat
  PROVE  /\ IsRecord(ProtocolRecord(imgs, p))
         /\ RecordSize(ProtocolRecord(imgs, p)) = 44 + Len(p.interfaces) * 16 + Len(p.notifies) * 16
<1> DEFINE g == Group(InterfaceItems(imgs, p.interfaces), 16)
           h == Group(AddressItems(imgs, p.notifies), 16)
           r == ProtocolRecord(imgs, p)
<1>1. /\ g.size = 16 /\ Len(g.items) = Len(p.interfaces)
      /\ h.size = 16 /\ Len(h.items) = Len(p.notifies)
  BY ItemsAre DEF Group
<1>2. r.size = 44 /\ r.groups = <<g, h>>
  BY SizesAre DEF ProtocolRecord, Record
<1> HIDE DEF g, h, r
<1>3. Len(r.groups) = 2 /\ r.groups[1] = g /\ r.groups[2] = h
  BY <1>2
<1>4. IsGroup(g) /\ GroupSize(g) = Len(p.interfaces) * 16 /\ IsGroup(h) /\ GroupSize(h) = Len(p.notifies) * 16
  BY <1>1 DEF IsGroup, GroupSize
<1>5. IsRecord(r)
  BY <1>2, <1>3, <1>4 DEF IsRecord
<1>6. RecordSize(r) = r.size + GroupSize(g) + GroupSize(h)
  BY <1>3 DEF RecordSize
<1> QED
  BY <1>2, <1>4, <1>5, <1>6 DEF r

(* A record of the database of the SMI entries.                            *)
LEMMA SmiRecordIs ==
  ASSUME NEW imgs, NEW s, Len(s.handlers) \in Nat
  PROVE  IsRecord(SmiRecord(imgs, s)) /\ RecordSize(SmiRecord(imgs, s)) = 40 + Len(s.handlers) * 24
<1>1. Len(AddressItems(imgs, s.handlers)) = Len(s.handlers) /\ Len(s.handlers) \in Nat
  BY ItemsAre
<1> DEFINE header == Header("SCSD", s.type, FALSE)  items == AddressItems(imgs, s.handlers)
<1>2. SmiRecord(imgs, s) = Record(header, 40, <<Group(items, 24)>>)
  BY SizesAre DEF SmiRecord
<1>3. Len(items) \in Nat /\ Len(items) = Len(s.handlers)
  BY <1>1
<1> HIDE DEF header, items
<1>4. IsRecord(Record(header, 40, <<Group(items, 24)>>)) /\ RecordSize(Record(header, 40, <<Group(items, 24)>>)) = 40 + Len(items) * 24
  <2>1. 40 \in Nat \ {0} /\ 24 \in Nat \ {0}
    OBVIOUS
  <2> QED
    BY <1>3, <2>1, OneGroup
<1> QED
  BY <1>2, <1>3, <1>4

(* The image database is filled as it was measured.                        *)
LEMMA ImagesAgree ==
  ASSUME NEW imgs, Len(imgs) \in Nat
  PROVE  GetSmmImageDatabaseData(imgs, GetSmmImageDatabaseSize(imgs)).ok
<1>1. GetSmmImageDatabaseSize(imgs) = 132 * Len(imgs)
  BY SizesAre DEF GetSmmImageDatabaseSize
<1>2. (132 * Len(imgs)) \div 132 = Len(imgs)
  OBVIOUS
<1>3. GetSmmImageDatabaseSize(imgs) \div SizeOf.image = Len(imgs)
  BY <1>1, <1>2, SizesAre
<1> QED
  BY <1>3 DEF GetSmmImageDatabaseData

(* The records of the handle database are measured.                        *)
LEMMA HandlesMeasured ==
  ASSUME NEW imgs, NEW handles, Len(handles) \in Nat, \A i \in 1..Len(handles) : Len(handles[i].interfaces) \in Nat
  PROVE  Measured(HandleRecords(imgs, handles), GetSmmHandlerDatabaseSize(handles))
<1> DEFINE n == Len(handles)
           records == HandleRecords(imgs, handles)
           bytes == [i \in 1..n |-> SizeOf.handle + Len(handles[i].interfaces) * SizeOf.handleProtocol]
<1>1. ASSUME NEW i \in 1..n
      PROVE  IsRecord(HandleRecord(imgs, handles[i])) /\ RecordSize(HandleRecord(imgs, handles[i])) = 28 + Len(handles[i].interfaces) * 32
  BY HandleRecordIs
<1>2. \A i \in 1..n : bytes[i] = 28 + Len(handles[i].interfaces) * 32 /\ bytes[i] \in Nat
  BY SizesAre
<1>3. bytes \in Seq(Nat) /\ Len(bytes) = n
  <2>1. bytes \in [1..n -> Nat]
    BY <1>2
  <2> HIDE DEF bytes
  <2> QED
    BY <2>1, FunctionIsSeq
<1>4. Len(records) = n /\ \A i \in 1..n : records[i] = HandleRecord(imgs, handles[i])
  BY DEF HandleRecords
<1>5. GetSmmHandlerDatabaseSize(handles) = SumOf(bytes)
  BY DEF GetSmmHandlerDatabaseSize
<1> HIDE DEF records, bytes
<1> QED
  BY <1>1, <1>2, <1>3, <1>4, <1>5 DEF Measured, records

(* The handle database is filled as it was measured.                       *)
LEMMA HandlesAgree ==
  ASSUME NEW imgs, NEW handles, Len(handles) \in Nat, \A i \in 1..Len(handles) : Len(handles[i].interfaces) \in Nat
  PROVE  GetSmmHandlerDatabaseData(imgs, handles, GetSmmHandlerDatabaseSize(handles)).ok
BY HandlesMeasured, ClosedFits DEF GetSmmHandlerDatabaseData

(* Those of the protocol database are, up to the GUID of the driver.       *)
LEMMA ProtocolsMeasured ==
  ASSUME NEW imgs, NEW all, NEW protocols, protocols = UpToOwn(all), Len(protocols) \in Nat,
         \A i \in 1..Len(protocols) : Len(protocols[i].interfaces) \in Nat /\ Len(protocols[i].notifies) \in Nat
  PROVE  Measured(ProtocolRecords(imgs, protocols), GetSmmProtocolDatabaseSize(all))
<1> DEFINE n == Len(protocols)
           records == ProtocolRecords(imgs, protocols)
           bytes == ProtocolSizes(protocols)
<1>1. ASSUME NEW i \in 1..n
      PROVE  /\ IsRecord(ProtocolRecord(imgs, protocols[i]))
             /\ RecordSize(ProtocolRecord(imgs, protocols[i])) = 44 + Len(protocols[i].interfaces) * 16 + Len(protocols[i].notifies) * 16
  BY ProtocolRecordIs
<1>2. \A i \in 1..n : bytes[i] = 44 + Len(protocols[i].interfaces) * 16 + Len(protocols[i].notifies) * 16 /\ bytes[i] \in Nat
  <2>1. ASSUME NEW i \in 1..n
        PROVE  bytes[i] = 44 + Len(protocols[i].interfaces) * 16 + Len(protocols[i].notifies) * 16
    BY SizesAre DEF ProtocolSizes
  <2> HIDE DEF bytes
  <2>2. ASSUME NEW i \in 1..n PROVE bytes[i] \in Nat
    <3>1. Len(protocols[i].interfaces) \in Nat /\ Len(protocols[i].notifies) \in Nat
      OBVIOUS
    <3>2. \A a, b \in Nat : 44 + a * 16 + b * 16 \in Nat
      OBVIOUS
    <3>3. 44 + Len(protocols[i].interfaces) * 16 + Len(protocols[i].notifies) * 16 \in Nat
      BY <3>1, <3>2, Zenon
    <3>4. bytes[i] = 44 + Len(protocols[i].interfaces) * 16 + Len(protocols[i].notifies) * 16
      BY <2>1, Zenon
    <3> QED
      BY <3>3, <3>4, Zenon
  <2> QED
    BY <2>1, <2>2
<1>3. bytes \in Seq(Nat) /\ Len(bytes) = n
  <2>1. bytes = [i \in 1..n |-> bytes[i]]
    BY DEF ProtocolSizes
  <2> HIDE DEF bytes
  <2>2. bytes \in [1..n -> Nat]
    BY <1>2, <2>1
  <2> QED
    BY <2>2, FunctionIsSeq
<1>4. Len(records) = n /\ \A i \in 1..n : records[i] = ProtocolRecord(imgs, protocols[i])
  BY DEF ProtocolRecords
<1>5. GetSmmProtocolDatabaseSize(all) = SumOf(bytes)
  BY DEF GetSmmProtocolDatabaseSize
<1> HIDE DEF records, bytes
<1>6. \A i \in 1..n : IsRecord(records[i]) /\ bytes[i] = RecordSize(records[i])
  BY <1>1, <1>2, <1>4
<1> HIDE DEF n
<1>7. n \in Nat
  BY DEF n
<1> QED
  BY <1>3, <1>4, <1>5, <1>6, <1>7 DEF Measured, records

(* The protocol database is filled as it was measured.                     *)
LEMMA ProtocolsAgree ==
  ASSUME NEW imgs, NEW all, NEW protocols, protocols = UpToOwn(all), Len(protocols) \in Nat,
         \A i \in 1..Len(protocols) : Len(protocols[i].interfaces) \in Nat /\ Len(protocols[i].notifies) \in Nat
  PROVE  GetSmmProtocolDatabaseData(imgs, all, GetSmmProtocolDatabaseSize(all)).ok
BY ProtocolsMeasured, ClosedFits DEF GetSmmProtocolDatabaseData

(* Those of the database of the SMI entries are.                           *)
LEMMA SmisMeasured ==
  ASSUME NEW imgs, NEW smis, Len(smis) \in Nat, \A i \in 1..Len(smis) : Len(smis[i].handlers) \in Nat
  PROVE  Measured(SmiRecords(imgs, smis), GetSmmSmiDatabaseSize(smis))
<1> DEFINE n == Len(smis)
           records == SmiRecords(imgs, smis)
           bytes == [i \in 1..n |-> SizeOf.smi + Len(smis[i].handlers) * SizeOf.smiHandler]
<1>1. ASSUME NEW i \in 1..n
      PROVE  IsRecord(SmiRecord(imgs, smis[i])) /\ RecordSize(SmiRecord(imgs, smis[i])) = 40 + Len(smis[i].handlers) * 24
  BY SmiRecordIs
<1>2. \A i \in 1..n : bytes[i] = 40 + Len(smis[i].handlers) * 24 /\ bytes[i] \in Nat
  BY SizesAre
<1>3. bytes \in Seq(Nat) /\ Len(bytes) = n
  <2>1. bytes \in [1..n -> Nat]
    BY <1>2
  <2> HIDE DEF bytes
  <2> QED
    BY <2>1, FunctionIsSeq
<1>4. Len(records) = n /\ \A i \in 1..n : records[i] = SmiRecord(imgs, smis[i])
  BY DEF SmiRecords
<1>5. GetSmmSmiDatabaseSize(smis) = SumOf(bytes)
  BY DEF GetSmmSmiDatabaseSize
<1> HIDE DEF records, bytes
<1> QED
  BY <1>1, <1>2, <1>3, <1>4, <1>5 DEF Measured, records

(* The database of the SMI entries is filled as it was measured.           *)
LEMMA SmisAgree ==
  ASSUME NEW imgs, NEW smis, Len(smis) \in Nat, \A i \in 1..Len(smis) : Len(smis[i].handlers) \in Nat
  PROVE  GetSmmSmiDatabaseData(imgs, smis, GetSmmSmiDatabaseSize(smis)).ok
BY SmisMeasured, ClosedFits DEF GetSmmSmiDatabaseData

(* So is the record of the root SMI handlers, and that of the child.       *)
LEMMA RootRecordIs ==
  ASSUME NEW imgs, NEW roots, Len(roots) \in Nat
  PROVE  /\ IsRecord(RootRecord(imgs, roots)) /\ RecordSize(RootRecord(imgs, roots)) = GetSmmRootSmiDatabaseSize(roots)
         /\ GetSmmRootSmiDatabaseSize(roots) \in Nat
<1> DEFINE header == Header("SCSD", "zero", TRUE)  items == AddressItems(imgs, roots)
<1>1. RootRecord(imgs, roots) = Record(header, 40, <<Group(items, 24)>>)
  BY SizesAre DEF RootRecord
<1>2. Len(items) \in Nat /\ Len(items) = Len(roots)
  BY ItemsAre
<1> HIDE DEF header, items
<1>3. IsRecord(Record(header, 40, <<Group(items, 24)>>)) /\ RecordSize(Record(header, 40, <<Group(items, 24)>>)) = 40 + Len(items) * 24
  <2>1. 40 \in Nat \ {0} /\ 24 \in Nat \ {0}
    OBVIOUS
  <2> QED
    BY <1>2, <2>1, OneGroup
<1>4. GetSmmRootSmiDatabaseSize(roots) = 40 + Len(roots) * 24 /\ GetSmmRootSmiDatabaseSize(roots) \in Nat
  BY SizesAre DEF GetSmmRootSmiDatabaseSize
<1> QED
  BY <1>1, <1>2, <1>3, <1>4

(* The database of the root SMI handlers is filled as it was measured.     *)
LEMMA RootsAgree ==
  ASSUME NEW imgs, NEW roots, Len(roots) \in Nat
  PROVE  GetSmmRootSmiDatabaseData(imgs, roots, GetSmmRootSmiDatabaseSize(roots)).ok
<1> DEFINE expected == GetSmmRootSmiDatabaseSize(roots)  r == RootRecord(imgs, roots)  e == EmitRecord(Section0, r, expected)
<1>1. IsRecord(r) /\ RecordSize(r) = expected /\ expected \in Nat
  BY RootRecordIs
<1>2. Section0.ok /\ Section0.size = 0
  BY DEF Section0
<1>3. GetSmmRootSmiDatabaseData(imgs, roots, GetSmmRootSmiDatabaseSize(roots)) = Closed(e, expected)
  BY DEF GetSmmRootSmiDatabaseData
<1> HIDE DEF r, expected
<1>4. e.ok /\ e.size = expected
  BY <1>1, <1>2, RecordFits
<1> HIDE DEF e
<1>5. Closed(e, expected).ok
  BY <1>4 DEF Closed
<1> QED
  BY <1>3, <1>5

-----------------------------------------------------------------------------
(* The whole database is filled as it was measured, whatever lists it is   *)
(* made from.                                                              *)
LEMMA DatabaseAgrees ==
  ASSUME NEW imgs, Len(imgs) \in Nat, NEW c, NEW child,
         Len(c.handles) \in Nat, \A i \in 1..Len(c.handles) : Len(c.handles[i].interfaces) \in Nat,
         Len(UpToOwn(c.protocols)) \in Nat,
         \A i \in 1..Len(UpToOwn(c.protocols)) :
           Len(UpToOwn(c.protocols)[i].interfaces) \in Nat /\ Len(UpToOwn(c.protocols)[i].notifies) \in Nat,
         Len(c.smis) \in Nat, \A i \in 1..Len(c.smis) : Len(c.smis[i].handlers) \in Nat, Len(c.roots) \in Nat
  PROVE  GetSmmCoreDatabaseData(imgs, c, child, GetSmmCoreDatabaseSize(imgs, c, child)).ok
<1> DEFINE z == GetSmmCoreDatabaseSize(imgs, c, child)
<1>1. /\ z.image = GetSmmImageDatabaseSize(imgs) /\ z.handle = GetSmmHandlerDatabaseSize(c.handles)
      /\ z.protocol = GetSmmProtocolDatabaseSize(c.protocols) /\ z.smi = GetSmmSmiDatabaseSize(c.smis)
      /\ z.root = GetSmmRootSmiDatabaseSize(c.roots)
  BY DEF GetSmmCoreDatabaseSize
<1> HIDE DEF z
<1>2. GetSmmImageDatabaseData(imgs, z.image).ok
  BY <1>1, ImagesAgree
<1>3. GetSmmHandlerDatabaseData(imgs, c.handles, z.handle).ok
  BY <1>1, HandlesAgree
<1>4. GetSmmProtocolDatabaseData(imgs, c.protocols, z.protocol).ok
  <2> DEFINE dumped == UpToOwn(c.protocols)
  <2> HIDE DEF dumped
  <2>1. dumped = UpToOwn(c.protocols)
    BY DEF dumped
  <2> QED
    BY <1>1, <2>1, ProtocolsAgree
<1>5. GetSmmSmiDatabaseData(imgs, c.smis, z.smi).ok
  BY <1>1, SmisAgree
<1>6. GetSmmRootSmiDatabaseData(imgs, c.roots, z.root).ok
  BY <1>1, RootsAgree
<1>7. GetSmmCoreDatabaseData(imgs, c, child, z).ok
  BY <1>2, <1>3, <1>4, <1>5, <1>6, Zenon DEF GetSmmCoreDatabaseData
<1> QED
  BY <1>7 DEF z

-----------------------------------------------------------------------------
(* The images in SMRAM are a list.                                         *)
IsKept(f, list, m) ==
  f = [n \in 0..m |-> IF n = 0 THEN <<>> ELSE IF list[n].smram THEN Append(f[n - 1], list[n]) ELSE f[n - 1]]

(* The recursion of InSmram has a solution.                                *)
LEMMA KeptExist ==
  ASSUME NEW list, NEW m \in Nat
  PROVE  \E f : IsKept(f, list, m)
<1> DEFINE S == {k \in Nat : \E f : IsKept(f, list, k)}
           Next1(x, n) == IF list[n].smram THEN Append(x, list[n]) ELSE x
<1>1. 0 \in S
  <2>1. IsKept([n \in 0..0 |-> <<>>], list, 0)
    BY DEF IsKept
  <2> QED
    BY <2>1
<1>2. ASSUME NEW k \in Nat, k \in S PROVE k + 1 \in S
  <2>1. PICK f : IsKept(f, list, k)
    BY <1>2
  <2> DEFINE g == [n \in 0..k + 1 |-> IF n = k + 1 THEN Next1(f[k], k + 1) ELSE f[n]]
  <2>3. f = [n \in 0..k |-> IF n = 0 THEN <<>> ELSE Next1(f[n - 1], n)]
    BY <2>1 DEF IsKept
  <2> HIDE DEF Next1
  <2>2. \A n \in 0..k + 1 : g[n] = IF n = 0 THEN <<>> ELSE Next1(g[n - 1], n)
    <3>1. ASSUME NEW n \in 0..k + 1 PROVE g[n] = IF n = 0 THEN <<>> ELSE Next1(g[n - 1], n)
      <4>1. CASE n = k + 1
        <5>1. n - 1 = k /\ k \in 0..k+1 /\ k # k+1 /\ n # 0
          BY <4>1
        <5> QED
          BY <4>1, <5>1
      <4>2. CASE n # k + 1
        <5>1. n \in 0..k /\ (n # 0 => n - 1 \in 0..k + 1 /\ n - 1 # k + 1)
          BY <4>2
        <5>2. g[n] = f[n] /\ (n # 0 => g[n - 1] = f[n - 1])
          BY <4>2, <5>1
        <5>3. f[n] = IF n = 0 THEN <<>> ELSE Next1(f[n - 1], n)
          BY <2>3, <5>1
        <5> QED
          BY <5>2, <5>3
      <4> QED
        BY <4>1, <4>2
    <3> QED
      BY <3>1
  <2>4. IsKept(g, list, k + 1)
    <3>1. g = [n \in 0..k + 1 |-> g[n]]
      OBVIOUS
    <3> HIDE DEF g
    <3>2. g = [n \in 0..k + 1 |-> IF n = 0 THEN <<>> ELSE Next1(g[n - 1], n)]
      BY <2>2, <3>1
    <3> QED
      BY <3>2 DEF IsKept, Next1
  <2> QED
    BY <2>4
<1> HIDE DEF S
<1>3. Nat \subseteq S
  BY <1>1, <1>2, Induction
<1> QED
  BY <1>3 DEF S

(* The images that IsSmram keeps are images of the list.                   *)
LEMMA KeptAreListed ==
  ASSUME NEW T, NEW list \in Seq(T)
  PROVE  InSmram(list)[Len(list)] \in Seq(T) /\ Len(InSmram(list)[Len(list)]) <= Len(list)
<1> DEFINE t == InSmram(list)  m == Len(list)
           S == {n \in Nat : n <= m => t[n] \in Seq(T) /\ Len(t[n]) <= n}
<1>1. t = CHOOSE f : f = [n \in 0..m |-> IF n = 0 THEN <<>> ELSE IF list[n].smram THEN Append(f[n - 1], list[n]) ELSE f[n - 1]]
  BY DEF InSmram
<1>2. m \in Nat /\ \A n \in 1..m : list[n] \in T
  OBVIOUS
<1> HIDE DEF t, m
<1>8. t = CHOOSE f : IsKept(f, list, m)
  BY <1>1 DEF IsKept
<1>9. \E f : IsKept(f, list, m)
  BY <1>2, KeptExist
<1>3. IsKept(t, list, m)
  BY <1>8, <1>9
<1> DEFINE Next1(x, n) == IF list[n].smram THEN Append(x, list[n]) ELSE x
<1>4. t[0] = <<>> /\ \A n \in 1..m : t[n] = Next1(t[n - 1], n)
  <2>1. t = [n \in 0..m |-> IF n = 0 THEN <<>> ELSE Next1(t[n - 1], n)]
    BY <1>3 DEF IsKept
  <2> HIDE DEF Next1
  <2>2. \A n \in 0..m : t[n] = IF n = 0 THEN <<>> ELSE Next1(t[n - 1], n)
    BY <2>1
  <2> QED
    BY <1>2, <2>2
<1>10. \A x, n : Next1(x, n) \in {x, Append(x, list[n])}
  OBVIOUS
<1> HIDE DEF Next1
<1>5. 0 \in S
  <2>1. t[0] \in Seq(T) /\ Len(t[0]) <= 0
    <3>1. <<>> \in Seq(T) /\ Len(<<>>) = 0
      OBVIOUS
    <3> QED
      BY <1>4, <3>1
  <2> QED
    BY <2>1
<1>6. ASSUME NEW n \in Nat, n \in S PROVE n + 1 \in S
  <2>1. SUFFICES ASSUME n + 1 <= m PROVE t[n + 1] \in Seq(T) /\ Len(t[n + 1]) <= n + 1
    OBVIOUS
  <2>2. n + 1 \in 1..m /\ (n + 1) - 1 = n /\ n <= m
    BY <1>2, <2>1
  <2>3. t[n] \in Seq(T) /\ Len(t[n]) <= n /\ list[n + 1] \in T
    BY <1>2, <1>6, <2>2
  <2>4. t[n + 1] \in {t[n], Append(t[n], list[n + 1])}
    BY <1>4, <1>10, <2>2
  <2>5. Append(t[n], list[n + 1]) \in Seq(T) /\ Len(Append(t[n], list[n + 1])) = Len(t[n]) + 1 /\ Len(t[n]) \in Nat
    BY <2>3
  <2>6. CASE t[n + 1] = t[n]
    <3>1. Len(t[n]) \in Nat
      BY <2>3
    <3> QED
      BY <2>3, <2>6, <3>1
  <2>7. CASE t[n + 1] = Append(t[n], list[n + 1])
    BY <2>3, <2>5, <2>7
  <2> QED
    BY <2>4, <2>6, <2>7
<1> HIDE DEF S
<1>7. Nat \subseteq S
  BY <1>5, <1>6, Induction
<1> QED
  BY <1>2, <1>7 DEF S, t, m

-----------------------------------------------------------------------------
(* The lists of the platform before the driver runs.                       *)
Lists0 == [handles |-> platform.handles, protocols |-> platform.protocols, smis |-> platform.smis, roots |-> platform.roots]

(* Where the driver stands and what it has done to the lists, and that the *)
(* sizes it allocates are those of the lists as they are then.             *)
AgentInv ==
  /\ platform \in Platforms
  /\ IsList(images)
  /\ apc \in AgentPcs
  /\ apc \in {"images", "fallback", "install"} => core = Lists0
  /\ apc \in {"discover", "uninstall"} => core = InstallProtocolInterface(Lists0)
  /\ apc \in {"probeSmi", "probeRoot", "size", "pool", "register"} =>
       core = UninstallProtocolInterface(InstallProtocolInterface(Lists0))
  /\ apc = "pool" => sizes = GetSmmCoreDatabaseSize(images, core, platform.child)

(* A sequence is a list.                                                   *)
LEMMA SeqIsList == ASSUME NEW T, NEW s \in Seq(T) PROVE IsList(s) /\ Len(s) \in Nat
<1>1. Len(s) \in Nat /\ s = [i \in 1..Len(s) |-> s[i]]
  OBVIOUS
<1> DEFINE n == Len(s)  U == {s[i] : i \in 1..n}
<1>2. s \in [1..n -> U]
  <2>1. \A i \in 1..n : s[i] \in U
    OBVIOUS
  <2> HIDE DEF U, n
  <2> QED
    BY <1>1, <2>1 DEF n
<1> HIDE DEF n, U
<1>3. s \in Seq(U)
  BY <1>1, <1>2, FunctionIsSeq DEF n
<1> QED
  BY <1>1, <1>3 DEF IsList, U, n

(* What a list is.                                                         *)
LEMMA ListIs == ASSUME NEW s, IsList(s) PROVE Len(s) \in Nat /\ s = [i \in 1..Len(s) |-> s[i]]
BY DEF IsList

(* Two lists one behind the other.                                         *)
LEMMA ListsJoin == ASSUME NEW s, NEW t, IsList(s), IsList(t) PROVE IsList(s \o t)
<1> DEFINE S == {s[i] : i \in 1..Len(s)}  T == {t[i] : i \in 1..Len(t)}
<1>1. s \in Seq(S) /\ t \in Seq(T)
  BY DEF IsList
<1> HIDE DEF S, T
<1>2. s \in Seq(S \cup T) /\ t \in Seq(S \cup T)
  BY <1>1
<1>3. s \o t \in Seq(S \cup T)
  BY <1>2
<1> QED
  BY <1>3, SeqIsList

(* The table of images stays a list.                                       *)
LEMMA AddedIsList ==
  ASSUME NEW table, NEW list, NEW room \in Nat, IsList(table), Len(list) \in Nat
  PROVE  IsList(AddImageStructs(table, list, room))
<1> DEFINE n == IF Overflows(list, room) THEN room ELSE Len(list)
           added == [i \in 1..n |-> ImageStruct(list[i])]
           T == {ImageStruct(list[i]) : i \in 1..n}
<1>1. n \in Nat
  OBVIOUS
<1>2. added \in [1..n -> T]
  OBVIOUS
<1>3. AddImageStructs(table, list, room) = table \o added
  BY DEF AddImageStructs
<1> HIDE DEF n, added, T
<1>4. IsList(added)
  BY <1>1, <1>2, FunctionIsSeq, SeqIsList
<1> QED
  BY <1>3, <1>4, ListsJoin

-----------------------------------------------------------------------------
(* Elements of a list with one more behind it.                             *)
LEMMA AppendIs ==
  ASSUME NEW s, IsList(s), NEW e
  PROVE  /\ Len(Append(s, e)) = Len(s) + 1 /\ Len(s) \in Nat /\ Append(s, e)[Len(s) + 1] = e
         /\ \A i \in 1..Len(s) : Append(s, e)[i] = s[i]
<1> DEFINE S == {s[i] : i \in 1..Len(s)}
<1>1. s \in Seq(S)
  BY DEF IsList
<1> HIDE DEF S
<1>2. s \in Seq(S \cup {e}) /\ e \in S \cup {e}
  BY <1>1
<1> QED
  BY <1>2

(* Uninstalling the probe frees its handle and no other.                   *)
LEMMA HandleFreed ==
  ASSUME NEW s, IsList(s), \A i \in 1..Len(s) : s[i].id # Own, NEW e, e.id = Own
  PROVE  WithoutHandle(Append(s, e), Own) = s
<1> DEFINE n == Len(s)  a == Append(s, e)
<1>1. n \in Nat /\ Len(a) = n + 1 /\ a[n + 1] = e /\ (\A i \in 1..n : a[i] = s[i]) /\ s = [i \in 1..n |-> s[i]]
  BY AppendIs, ListIs
<1> DEFINE k == CHOOSE j \in 1..Len(a) : a[j].id = Own
<1>2. WithoutHandle(a, Own) = [i \in 1..Len(a) - 1 |-> IF i < k THEN a[i] ELSE a[i + 1]]
  BY DEF WithoutHandle
<1>7. \A i \in 1..n : s[i].id # Own
  OBVIOUS
<1> HIDE DEF n, a
<1>3. n + 1 \in 1..Len(a) /\ a[n + 1].id = Own
  BY <1>1
<1>4. k \in 1..Len(a) /\ a[k].id = Own
  BY <1>3
<1> HIDE DEF k
<1>5. k = n + 1
  <2>1. k \notin 1..n
    BY <1>1, <1>4, <1>7
  <2> QED
    BY <1>1, <1>4, <2>1
<1>6. [i \in 1..Len(a) - 1 |-> IF i < k THEN a[i] ELSE a[i + 1]] = [i \in 1..n |-> s[i]]
  <2>1. Len(a) - 1 = n
    BY <1>1
  <2>2. \A i \in 1..n : (IF i < k THEN a[i] ELSE a[i + 1]) = s[i]
    BY <1>1, <1>5
  <2> QED
    BY <2>1, <2>2
<1> QED
  BY <1>1, <1>2, <1>6 DEF a

(* An entry of the driver without its interfaces.                          *)
EmptyOwn(protocols) ==
  [i \in 1..Len(protocols) |-> IF protocols[i].guid = Own THEN [protocols[i] EXCEPT !.interfaces = <<>>] ELSE protocols[i]]

(* It keeps an empty protocol entry behind the others, which the `break'   *)
(* at the GUID of the driver hides.                                        *)
LEMMA ProtocolHidden ==
  ASSUME NEW s, IsList(s), \A i \in 1..Len(s) : s[i].guid # Own, NEW e, e.guid = Own, [e EXCEPT !.interfaces = <<>>].guid = Own
  PROVE  UpToOwn(EmptyOwn(Append(s, e))) = s /\ Len(EmptyOwn(Append(s, e))) = Len(s) + 1
<1> DEFINE n == Len(s)  a == Append(s, e)  p == EmptyOwn(a)
<1>1. n \in Nat /\ Len(a) = n + 1 /\ a[n + 1] = e /\ (\A i \in 1..n : a[i] = s[i]) /\ s = [i \in 1..n |-> s[i]]
  BY AppendIs, ListIs
<1>2. \A i \in 1..n : s[i].guid # Own
  OBVIOUS
<1> HIDE DEF n, a
<1> DEFINE Element(i) == IF a[i].guid = Own THEN [a[i] EXCEPT !.interfaces = <<>>] ELSE a[i]
<1>3. p = [i \in 1..n + 1 |-> Element(i)]
  BY <1>1 DEF EmptyOwn
<1>4. \A i \in 1..n : Element(i) = s[i]
  BY <1>1, <1>2
<1>5. Element(n + 1).guid = Own
  BY <1>1
<1> HIDE DEF Element, p
<1>6. n + 1 \in Nat /\ Len(p) = n + 1 /\ (\A i \in 1..n : p[i] = s[i]) /\ p[n + 1].guid = Own
  BY <1>1, <1>3, <1>4, <1>5
<1> DEFINE own == {i \in 1..Len(p) : p[i].guid = Own}
           first == CHOOSE i \in own : \A j \in own : i <= j
<1>7. own = {n + 1}
  <2>1. n + 1 \in own
    BY <1>1, <1>6
  <2>2. ASSUME NEW i \in own PROVE i = n + 1
    <3>1. i \in 1..n + 1 /\ p[i].guid = Own
      BY <1>6
    <3>2. i \notin 1..n
      BY <1>2, <1>6, <3>1
    <3> QED
      BY <1>1, <3>1, <3>2
  <2> QED
    BY <2>1, <2>2
<1>8. UpToOwn(p) = IF own = {} THEN p ELSE SubSeq(p, 1, first - 1)
  BY DEF UpToOwn
<1> HIDE DEF own
<1>9. first = n + 1
  BY <1>1, <1>7
<1> HIDE DEF first
<1>10. UpToOwn(p) = SubSeq(p, 1, n)
  BY <1>1, <1>7, <1>8, <1>9
<1>11. SubSeq(p, 1, n) = s
  <2>1. p \in Seq({Element(i) : i \in 1..n + 1})
    <3> DEFINE T == {Element(i) : i \in 1..n + 1}
    <3>1. p \in [1..n + 1 -> T]
      BY <1>3
    <3> HIDE DEF T
    <3>2. p \in Seq(T)
      BY <1>6, <3>1, FunctionIsSeq
    <3> QED
      BY <3>2 DEF T
  <2>2. SubSeq(p, 1, n) = [i \in 1..n |-> p[i]]
    BY <1>1, <1>6, <2>1
  <2> QED
    BY <1>1, <1>6, <2>2
<1> QED
  BY <1>1, <1>6, <1>10, <1>11 DEF p, a, n

(* The lists after both probes.                                            *)
LEMMA ProbesUndone ==
  ASSUME platform \in Platforms
  PROVE  LET c == UninstallProtocolInterface(InstallProtocolInterface(Lists0))
         IN  /\ c.handles = platform.handles /\ c.smis = platform.smis /\ c.roots = platform.roots
             /\ UpToOwn(c.protocols) = platform.protocols /\ Len(c.protocols) = Len(platform.protocols) + 1
<1> DEFINE h == [id |-> Own, interfaces |-> <<OwnInterface>>]
           e == [guid |-> Own, interfaces |-> <<OwnInterface>>, notifies |-> <<>>]
           c1 == InstallProtocolInterface(Lists0)
           c == UninstallProtocolInterface(c1)
<1>1. /\ IsList(platform.handles) /\ \A i \in 1..Len(platform.handles) : platform.handles[i].id # Own
      /\ IsList(platform.protocols) /\ \A i \in 1..Len(platform.protocols) : platform.protocols[i].guid # Own
  BY PlatformsAssumption DEF ListsForm
<1>2. h.id = Own /\ e.guid = Own /\ [e EXCEPT !.interfaces = <<>>].guid = Own
  OBVIOUS
<1>3. c1 = [handles |-> Append(platform.handles, h), protocols |-> Append(platform.protocols, e),
            smis |-> platform.smis, roots |-> platform.roots]
  <2>1. c1 = [Lists0 EXCEPT !.handles = Append(Lists0.handles, h), !.protocols = Append(Lists0.protocols, e)]
    BY DEF InstallProtocolInterface
  <2> HIDE DEF c1, h, e
  <2> DEFINE x == Append(platform.handles, h)  y == Append(platform.protocols, e)
  <2>2. Lists0.handles = platform.handles /\ Lists0.protocols = platform.protocols
    BY DEF Lists0
  <2>3. c1 = [Lists0 EXCEPT !.handles = x, !.protocols = y]
    BY <2>1, <2>2
  <2> HIDE DEF x, y
  <2>4. c1 = [handles |-> x, protocols |-> y, smis |-> platform.smis, roots |-> platform.roots]
    BY <2>3 DEF Lists0
  <2> QED
    BY <2>4 DEF x, y
<1> HIDE DEF h, e, c1
<1>4. /\ c.handles = WithoutHandle(Append(platform.handles, h), Own) /\ c.protocols = EmptyOwn(Append(platform.protocols, e))
      /\ c.smis = platform.smis /\ c.roots = platform.roots
  BY <1>3 DEF UninstallProtocolInterface, EmptyOwn
<1> HIDE DEF c
<1>5. c.handles = platform.handles
  BY <1>1, <1>2, <1>4, HandleFreed
<1>6. UpToOwn(c.protocols) = platform.protocols /\ Len(c.protocols) = Len(platform.protocols) + 1
  BY <1>1, <1>2, <1>4, ProtocolHidden
<1> QED
  BY <1>4, <1>5, <1>6 DEF c, c1

(* AgentInv implies the two properties.                                    *)
LEMMA InvMeans == AgentInv => ProbesLeaveNoTrace /\ PassesAgree
<1> SUFFICES ASSUME AgentInv PROVE ProbesLeaveNoTrace /\ PassesAgree
  OBVIOUS
<1>1. apc \in {"probeSmi", "probeRoot", "size", "pool", "register"} =>
        /\ core.handles = platform.handles /\ core.smis = platform.smis /\ core.roots = platform.roots
        /\ UpToOwn(core.protocols) = platform.protocols /\ Len(core.protocols) = Len(platform.protocols) + 1
  BY ProbesUndone DEF AgentInv
<1>2. ProbesLeaveNoTrace
  BY <1>1 DEF ProbesLeaveNoTrace
<1>3. ASSUME apc = "pool" PROVE GetSmmCoreDatabaseData(images, core, platform.child, sizes).ok
  <2>1. sizes = GetSmmCoreDatabaseSize(images, core, platform.child) /\ Len(images) \in Nat
    BY <1>3, ListIs DEF AgentInv
  <2>2. ListsForm(platform)
    BY PlatformsAssumption DEF AgentInv
  <2>3. /\ Len(platform.handles) \in Nat /\ \A i \in 1..Len(platform.handles) : Len(platform.handles[i].interfaces) \in Nat
        /\ Len(platform.protocols) \in Nat
        /\ \A i \in 1..Len(platform.protocols) : Len(platform.protocols[i].interfaces) \in Nat /\ Len(platform.protocols[i].notifies) \in Nat
        /\ Len(platform.smis) \in Nat /\ (\A i \in 1..Len(platform.smis) : Len(platform.smis[i].handlers) \in Nat) /\ Len(platform.roots) \in Nat
    BY <2>2, ListIs DEF ListsForm
  <2> QED
    BY <1>1, <1>3, <2>1, <2>3, DatabaseAgrees
<1> QED
  BY <1>2, <1>3 DEF PassesAgree

-----------------------------------------------------------------------------
(* The initial states satisfy AgentInv.                                    *)
LEMMA InitInv == AgentInit => AgentInv
<1>1. IsList(<<>>)
  BY DEF IsList
<1> QED
  BY <1>1 DEF AgentInit, AgentInv, Lists0, AgentPcs

(* A step that leaves the lists and the images alone, and neither passes a *)
(* probe nor measures.                                                     *)
LEMMA StepOn ==
  ASSUME AgentInv, UNCHANGED <<platform, core, images>>, apc' \in AgentPcs,
         \/ apc' \in {"done", "assert", "undefined"}
         \/ apc = "images" /\ apc' = "fallback"
         \/ apc = "discover" /\ apc' = "uninstall"
         \/ apc \in {"probeSmi", "probeRoot", "pool"} /\ apc' \in {"probeRoot", "size", "register"}
  PROVE  AgentInv'
BY DEF AgentInv, Lists0

(* GetSmmLoadedImage keeps AgentInv.                                       *)
LEMMA GetSmmLoadedImageKeeps == ASSUME AgentInv, GetSmmLoadedImage PROVE AgentInv'
<1>1. IsList(platform.smmImages)
  BY PlatformsAssumption DEF AgentInv, ListsForm
<1>2. IsList(<<>>)
  BY DEF IsList
<1>3. IsList(images')
  BY <1>1, <1>2, ListIs, AddedIsList DEF GetSmmLoadedImage
<1>4. apc = "images" /\ apc' \in {"install", "fallback"} /\ UNCHANGED <<platform, core>>
  BY DEF GetSmmLoadedImage
<1> QED
  BY <1>3, <1>4 DEF AgentInv, Lists0, AgentPcs

(* GetLoadedImage keeps AgentInv.                                          *)
LEMMA GetLoadedImageKeeps == ASSUME AgentInv, GetLoadedImage PROVE AgentInv'
<1> DEFINE max == Len(platform.dxeImages)
           blank == [i \in 1..Len(images) |-> BlankImage]
           room == IF max > Len(images) THEN max - Len(images) ELSE 0
<1>1. IsList(platform.dxeImages) /\ max \in Nat /\ Len(images) \in Nat
  BY PlatformsAssumption, ListIs DEF AgentInv, ListsForm
<1>2. room \in Nat
  BY <1>1
<1>3. IsList(blank)
  <2>1. blank \in [1..Len(images) -> {BlankImage}]
    OBVIOUS
  <2> HIDE DEF blank
  <2> QED
    BY <1>1, <2>1, FunctionIsSeq, SeqIsList
<1>4. Len(SmramImages) \in Nat
  <2> DEFINE T == {platform.dxeImages[i] : i \in 1..Len(platform.dxeImages)}
  <2>1. platform.dxeImages \in Seq(T)
    BY <1>1 DEF IsList
  <2> HIDE DEF T
  <2>2. SmramImages \in Seq(T)
    BY <2>1, KeptAreListed DEF SmramImages
  <2> QED
    BY <2>2
<1>5. images' = AddImageStructs(blank, SmramImages, room)
  BY DEF GetLoadedImage
<1>6. apc = "fallback" /\ apc' \in {"assert", "install", "done"} /\ UNCHANGED <<platform, core>>
  BY DEF GetLoadedImage
<1> HIDE DEF blank, room
<1>7. IsList(images')
  BY <1>2, <1>3, <1>4, <1>5, AddedIsList
<1> QED
  BY <1>6, <1>7 DEF AgentInv, Lists0, AgentPcs

(* Install keeps AgentInv.                                                 *)
LEMMA InstallKeeps == ASSUME AgentInv, Install PROVE AgentInv'
BY DEF AgentInv, Lists0, Install, AgentPcs

(* Uninstall keeps AgentInv.                                               *)
LEMMA UninstallKeeps == ASSUME AgentInv, Uninstall PROVE AgentInv'
BY DEF AgentInv, Lists0, Uninstall, AgentPcs

(* BuildSize keeps AgentInv.                                               *)
LEMMA BuildSizeKeeps == ASSUME AgentInv, BuildSize PROVE AgentInv'
<1>1. /\ apc = "size" /\ apc' \in {"pool", "undefined"} /\ UNCHANGED <<platform, core, images>>
      /\ apc' = "pool" => sizes' = GetSmmCoreDatabaseSize(images, core, platform.child)
  BY DEF BuildSize
<1> QED
  BY <1>1 DEF AgentInv, Lists0, AgentPcs

(* Every step of the driver keeps AgentInv.                                *)
LEMMA AgentStep == ASSUME AgentInv, AgentNext PROVE AgentInv'
<1>1. CASE GetSmmLoadedImageFails
  BY <1>1, StepOn DEF GetSmmLoadedImageFails, AgentPcs
<1>2. CASE GetLoadedImageFails
  BY <1>2, StepOn DEF GetLoadedImageFails, AgentPcs
<1>3. CASE InstallFails
  BY <1>3, StepOn DEF InstallFails, AgentPcs
<1>4. CASE Discover
  BY <1>4, StepOn DEF Discover, AgentPcs
<1>5. CASE UninstallFails
  BY <1>5, StepOn DEF UninstallFails, AgentPcs
<1>6. ASSUME NEW ok \in BOOLEAN, ProbeSmiEntryList(ok) \/ ProbeRootSmiHandlerList(ok) PROVE AgentInv'
  BY <1>6, StepOn DEF ProbeSmiEntryList, ProbeRootSmiHandlerList, AgentPcs
<1>7. CASE BuildAllocateFails
  BY <1>7, StepOn DEF BuildAllocateFails, AgentPcs
<1>8. CASE BuildData
  BY <1>8, StepOn DEF BuildData, AgentPcs
<1>9. CASE RegisterFails
  BY <1>9, StepOn DEF RegisterFails, AgentPcs
<1>10. CASE RegisterSmmCoreDumpHandler
  BY <1>10, StepOn DEF RegisterSmmCoreDumpHandler, AgentPcs
<1> QED
  BY <1>1, <1>2, <1>3, <1>4, <1>5, <1>6, <1>7, <1>8, <1>9, <1>10, GetSmmLoadedImageKeeps, GetLoadedImageKeeps, InstallKeeps,
     UninstallKeeps, BuildSizeKeeps DEF AgentNext

-----------------------------------------------------------------------------
(* Every reachable state satisfies AgentInv.                               *)
THEOREM AgentInvariant == AgentSpec => []AgentInv
<1>1. AgentInv /\ UNCHANGED agentVars => AgentInv'
  BY DEF agentVars, AgentInv, Lists0
<1>2. AgentInv /\ [AgentNext]_agentVars => AgentInv'
  BY <1>1, AgentStep
<1> QED
  BY <1>2, InitInv, PTL DEF AgentSpec

(* The probes leave the lists of the SMM core as they were.                *)
THEOREM ProbesUndoneAlways == AgentSpec => []ProbesLeaveNoTrace
BY AgentInvariant, InvMeans, PTL

(* The data pass fills the database that the size pass has measured.       *)
THEOREM PassesAgreeAlways == AgentSpec => []PassesAgree
BY AgentInvariant, InvMeans, PTL
=============================================================================
