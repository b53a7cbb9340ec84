-------------------------- MODULE DxeCoreDumpProofs --------------------------
(***************************************************************************)
(* Proofs about DxeCoreDump, for every consistent set of lists, any number *)
(* of changes by event handlers and any heads that cannot be told apart.   *)
(***************************************************************************)
EXTENDS DxeCoreDump, SequenceTheorems, TLAPS

Has(s, x) == \E i \in 1..Len(s) : s[i] = x
Precedes(s, x, y) == \E i, j \in 1..Len(s) : i < j /\ s[i] = x /\ s[j] = y
Unique(s) == \A i, j \in 1..Len(s) : s[i] = s[j] => i = j
Same(s, t, x) ==
  \A y, z : y # x /\ z # x => (Has(t, y) <=> Has(s, y)) /\ (Precedes(t, y, z) <=> Precedes(s, y, z))

(* Where an entry stands after another one was entered.                    *)
LEMMA InsertedIs ==
  ASSUME NEW S, NEW s \in Seq(S), NEW k \in 0..Len(s), NEW x \in S
  PROVE /\ Inserted(s, k, x) \in Seq(S)
        /\ Len(Inserted(s, k, x)) = Len(s) + 1
        /\ \A i \in 1..Len(s) + 1 : Inserted(s, k, x)[i] = IF i <= k THEN s[i] ELSE IF i = k + 1 THEN x ELSE s[i - 1]
<1> DEFINE a == SubSeq(s, 1, k)  b == SubSeq(s, k + 1, Len(s))
<1>1. a \in Seq(S) /\ Len(a) = k /\ \A i \in 1..k : a[i] = s[i]
  BY SubSeqProperties
<1>2. b \in Seq(S) /\ Len(b) = Len(s) - k /\ \A i \in 1..Len(s) - k : b[i] = s[k + i]
  BY SubSeqProperties
<1> HIDE DEF a, b
<1>3. a \o <<x>> \in Seq(S) /\ Len(a \o <<x>>) = k + 1 /\ \A i \in 1..k + 1 : (a \o <<x>>)[i] = IF i <= k THEN s[i] ELSE x
  BY <1>1
<1>4. Inserted(s, k, x) = (a \o <<x>>) \o b
  BY DEF Inserted, a, b
<1> DEFINE c == a \o <<x>>
<1> HIDE DEF c
<1>5. c \in Seq(S) /\ Len(c) = k + 1 /\ \A i \in 1..k + 1 : c[i] = IF i <= k THEN s[i] ELSE x
  BY <1>3 DEF c
<1>6. /\ c \o b \in Seq(S) /\ Len(c \o b) = Len(c) + Len(b)
      /\ \A i \in 1..Len(c) + Len(b) : (c \o b)[i] = IF i <= Len(c) THEN c[i] ELSE b[i - Len(c)]
  BY <1>2, <1>5, ConcatProperties, Zenon
<1>7. Inserted(s, k, x) = c \o b
  BY <1>4 DEF c
<1>8. Len(c) + Len(b) = Len(s) + 1
  BY <1>2, <1>5
<1>9. ASSUME NEW i \in 1..Len(s) + 1
      PROVE  (c \o b)[i] = IF i <= k THEN s[i] ELSE IF i = k + 1 THEN x ELSE s[i - 1]
  <2>1. CASE i <= k + 1
    BY <1>5, <1>6, <1>8, <2>1
  <2>2. CASE i > k + 1
    <3>1. (c \o b)[i] = b[i - Len(c)]
      BY <1>5, <1>6, <1>8, <2>2
    <3> DEFINE j == i - Len(c)
    <3>2. j \in 1..Len(s) - k /\ k + j = i - 1
      BY <1>5, <2>2
    <3> HIDE DEF j
    <3>3. b[j] = s[k + j]
      BY <1>2, <3>2
    <3>4. (c \o b)[i] = s[i - 1]
      BY <3>1, <3>2, <3>3 DEF j
    <3>5. ~(i <= k) /\ i # k + 1
      BY <2>2
    <3> QED
      BY <3>4, <3>5, Zenon
  <2>3. i <= k + 1 \/ i > k + 1
    OBVIOUS
  <2> QED
    BY <2>1, <2>2, <2>3, Zenon
<1> QED
  BY <1>6, <1>7, <1>8, <1>9

(* Where an entry stands after another one was removed.                    *)
LEMMA RemovedIs ==
  ASSUME NEW S, NEW s \in Seq(S), NEW k \in 1..Len(s)
  PROVE /\ RemoveAt(s, k) \in Seq(S)
        /\ Len(RemoveAt(s, k)) = Len(s) - 1
        /\ \A i \in 1..Len(s) - 1 : RemoveAt(s, k)[i] = IF i < k THEN s[i] ELSE s[i + 1]
<1> DEFINE a == SubSeq(s, 1, k - 1)  b == SubSeq(s, k + 1, Len(s))
<1>1. a \in Seq(S) /\ Len(a) = k - 1 /\ \A i \in 1..k - 1 : a[i] = s[i]
  BY SubSeqProperties
<1>2. b \in Seq(S) /\ Len(b) = Len(s) - k /\ \A i \in 1..Len(s) - k : b[i] = s[k + i]
  BY SubSeqProperties
<1>3. RemoveAt(s, k) = a \o b
  BY DEF RemoveAt
<1> HIDE DEF a, b
<1>4. /\ a \o b \in Seq(S) /\ Len(a \o b) = Len(a) + Len(b)
      /\ \A i \in 1..Len(a) + Len(b) : (a \o b)[i] = IF i <= Len(a) THEN a[i] ELSE b[i - Len(a)]
  BY <1>1, <1>2, ConcatProperties, Zenon
<1>5. Len(a) + Len(b) = Len(s) - 1
  BY <1>1, <1>2
<1>6. ASSUME NEW i \in 1..Len(s) - 1
      PROVE  (a \o b)[i] = IF i < k THEN s[i] ELSE s[i + 1]
  BY <1>1, <1>2, <1>4, <1>5
<1> QED
  BY <1>3, <1>4, <1>5, <1>6

(* Entering x keeps the others and their order.                            *)
LEMMA InsertedSame ==
  ASSUME NEW S, NEW s \in Seq(S), NEW k \in 0..Len(s), NEW x \in S, Unique(s), ~Has(s, x)
  PROVE LET t == Inserted(s, k, x) IN t \in Seq(S) /\ Unique(t) /\ Has(t, x) /\ Same(s, t, x)
<1> DEFINE t == Inserted(s, k, x)
<1> DEFINE up(i) == IF i <= k THEN i ELSE i + 1
<1> DEFINE down(i) == IF i <= k THEN i ELSE i - 1
<1>1. t \in Seq(S) /\ Len(t) = Len(s) + 1 /\ \A i \in 1..Len(s) + 1 : t[i] = IF i <= k THEN s[i] ELSE IF i = k + 1 THEN x ELSE s[i - 1]
  BY InsertedIs
<1> HIDE DEF t
<1>2. \A i \in 1..Len(s) : up(i) \in 1..Len(t) /\ t[up(i)] = s[i]
  BY <1>1
<1>3. \A i \in 1..Len(t) : i # k + 1 => down(i) \in 1..Len(s) /\ t[i] = s[down(i)]
  BY <1>1
<1>4. k + 1 \in 1..Len(t) /\ t[k + 1] = x
  BY <1>1
<1>5. \A i, j \in 1..Len(s) : i < j => up(i) < up(j)
  OBVIOUS
<1>6. \A i, j \in 1..Len(t) : i # k + 1 /\ j # k + 1 /\ i < j => down(i) < down(j)
  BY <1>1
<1>7. Unique(t)
  <2> SUFFICES ASSUME NEW i \in 1..Len(t), NEW j \in 1..Len(t), t[i] = t[j] PROVE i = j
    BY DEF Unique
  <2>1. CASE i # k + 1 /\ j # k + 1
    <3>1. down(i) = down(j)
      <4> HIDE DEF down
      <4> QED BY <1>3, <2>1 DEF Unique
    <3> QED
      BY <1>1, <2>1, <3>1
  <2>2. CASE i = k + 1 \/ j = k + 1
    <3> HIDE DEF down
    <3> QED BY <1>3, <1>4, <2>2 DEF Has
  <2> QED
    BY <2>1, <2>2
<1>8. Has(t, x)
  BY <1>4 DEF Has
<1>9. ASSUME NEW y, NEW z, y # x, z # x
      PROVE  (Has(t, y) <=> Has(s, y)) /\ (Precedes(t, y, z) <=> Precedes(s, y, z))
  <2> HIDE DEF up, down
  <2>1. Has(t, y) <=> Has(s, y)
    BY <1>2, <1>3, <1>4, <1>9 DEF Has
  <2>2. ASSUME Precedes(t, y, z) PROVE Precedes(s, y, z)
    <3>1. PICK i, j \in 1..Len(t) : i < j /\ t[i] = y /\ t[j] = z
      BY <2>2 DEF Precedes
    <3>2. i # k + 1 /\ j # k + 1
      BY <1>4, <1>9, <3>1
    <3> QED
      BY <1>3, <1>6, <3>1, <3>2 DEF Precedes
  <2>3. ASSUME Precedes(s, y, z) PROVE Precedes(t, y, z)
    <3>1. PICK i, j \in 1..Len(s) : i < j /\ s[i] = y /\ s[j] = z
      BY <2>3 DEF Precedes
    <3> QED
      BY <1>2, <1>5, <3>1 DEF Precedes
  <2> QED
    BY <2>1, <2>2, <2>3
<1> QED
  BY <1>1, <1>7, <1>8, <1>9 DEF Same, t

(* Removing an entry keeps the others and their order.                     *)
LEMMA RemovedAtSame ==
  ASSUME NEW S, NEW s \in Seq(S), NEW k \in 1..Len(s), Unique(s)
  PROVE LET t == RemoveAt(s, k) IN t \in Seq(S) /\ Unique(t) /\ ~Has(t, s[k]) /\ Same(s, t, s[k])
<1> DEFINE t == RemoveAt(s, k)
<1> DEFINE up(i) == IF i < k THEN i ELSE i + 1
<1> DEFINE down(i) == IF i < k THEN i ELSE i - 1
<1>1. t \in Seq(S) /\ Len(t) = Len(s) - 1 /\ \A i \in 1..Len(s) - 1 : t[i] = IF i < k THEN s[i] ELSE s[i + 1]
  BY RemovedIs
<1> HIDE DEF t
<1>2. \A i \in 1..Len(t) : up(i) \in 1..Len(s) /\ t[i] = s[up(i)] /\ up(i) # k
  BY <1>1
<1>3. \A i \in 1..Len(s) : i # k => down(i) \in 1..Len(t) /\ t[down(i)] = s[i]
  BY <1>1
<1>5. \A i, j \in 1..Len(t) : (i < j <=> up(i) < up(j)) /\ (up(i) = up(j) => i = j)
  BY <1>1
<1>6. \A i, j \in 1..Len(s) : i # k /\ j # k /\ i < j => down(i) < down(j)
  OBVIOUS
<1> HIDE DEF up, down
<1>7. Unique(t)
  BY <1>2, <1>5 DEF Unique
<1>8. ~Has(t, s[k])
  BY <1>2 DEF Has, Unique
<1>9. ASSUME NEW y, NEW z, y # s[k], z # s[k]
      PROVE  (Has(t, y) <=> Has(s, y)) /\ (Precedes(t, y, z) <=> Precedes(s, y, z))
  <2>1. Has(t, y) <=> Has(s, y)
    BY <1>2, <1>3, <1>9 DEF Has
  <2>2. ASSUME Precedes(t, y, z) PROVE Precedes(s, y, z)
    <3>1. PICK i, j \in 1..Len(t) : i < j /\ t[i] = y /\ t[j] = z
      BY <2>2 DEF Precedes
    <3> QED
      BY <1>2, <1>5, <3>1 DEF Precedes
  <2>3. ASSUME Precedes(s, y, z) PROVE Precedes(t, y, z)
    <3>1. PICK i, j \in 1..Len(s) : i < j /\ s[i] = y /\ s[j] = z
      BY <2>3 DEF Precedes
    <3>2. i # k /\ j # k
      BY <1>9, <3>1
    <3> QED
      BY <1>3, <1>6, <3>1, <3>2 DEF Precedes
  <2> QED
    BY <2>1, <2>2, <2>3
<1> QED
  BY <1>1, <1>7, <1>8, <1>9 DEF Same, t

(* So does RemoveFirst, which leaves no x behind.                          *)
LEMMA RemovedSame ==
  ASSUME NEW S, NEW s \in Seq(S), NEW x, Unique(s)
  PROVE LET t == RemoveFirst(s, x) IN t \in Seq(S) /\ Unique(t) /\ ~Has(t, x) /\ Same(s, t, x)
<1>1. CASE Has(s, x)
  <2>1. PICK k \in 1..Len(s) : s[k] = x
    BY <1>1 DEF Has
  <2>2. {i \in 1..Len(s) : s[i] = x} = {k}
    BY <2>1 DEF Unique
  <2>3. Min({k}) = k
    BY DEF Min
  <2>4. RemoveFirst(s, x) = RemoveAt(s, k)
    BY <2>1, <2>2, <2>3 DEF RemoveFirst, SelectInSeq
  <2> QED
    BY <2>1, <2>4, RemovedAtSame
<1>2. CASE ~Has(s, x)
  BY <1>2 DEF Has, RemoveFirst, Same
<1> QED
  BY <1>1, <1>2

(* InsertHeadList enters an entry before the first.                        *)
LEMMA PrependIs ==
  ASSUME NEW S, NEW s \in Seq(S), NEW x \in S
  PROVE <<x>> \o s = Inserted(s, 0, x)
BY DEF Inserted

(* InsertTailList enters an entry after the last.                          *)
LEMMA AppendIs ==
  ASSUME NEW S, NEW s \in Seq(S), NEW x \in S
  PROVE Append(s, x) = Inserted(s, Len(s), x)
BY DEF Inserted

(* The first entry is removed.                                             *)
LEMMA TailIs ==
  ASSUME NEW S, NEW s \in Seq(S), s # <<>>
  PROVE Tail(s) = RemoveAt(s, 1)
BY DEF RemoveAt

-----------------------------------------------------------------------------
(* The entries that a walk of list l, now s, has still to reach from c.    *)
Entry == Handles \cup Protocols \cup Events
Backward == {SignalQueue, TimerList}
Ahead(s, l, c, y) ==
  IF c = ListHead THEN Has(s, y)
  ELSE IF l \in Backward THEN Precedes(s, y, c) ELSE Precedes(s, c, y)

(* A walk at c of another list than the timers': what is due is ahead of   *)
(* it and what was printed, and not entered again, is not.                 *)
Cursor(s, l, c, P, D, M) ==
  /\ c \in Entry \cup {ListHead}
  /\ c # ListHead => <<l, c>> \in P
  /\ \A y \in Entry : <<l, y>> \in D => Has(s, y) /\ (c = ListHead \/ Has(s, c) => Ahead(s, l, c, y))
  /\ \A y \in Entry : Has(s, y) /\ <<l, y>> \in P /\ <<l, y>> \notin M => c # ListHead /\ (Has(s, c) => ~Ahead(s, l, c, y))

(* A walk of the timers at c, which may have left the list: the timers C   *)
(* that it comes to by the back links which those out of the list kept.    *)
(* What is due is ahead of each, or nothing is when a link is to the head. *)
NoneIn(l, D) == \A y \in Entry : <<l, y>> \notin D
Trailing(C, s, c, D, F, B) ==
  \A x \in C :
    /\ Has(s, x) => \A y \in Entry : <<TimerList, y>> \in D => Precedes(s, y, x) \/ (y = x /\ x # c)
    /\ ~Has(s, x) /\ <<x>> \notin F => B[x] \in C \/ (B[x] = ListHead /\ NoneIn(TimerList, D))
TimerCursor(s, c, D, F, B) == c # ListHead => \E C \in SUBSET Events : c \in C /\ Trailing(C, s, c, D, F, B)

(* The list that the application walks, and where it is.                   *)
Standing(l, c) ==
  IF l = TimerList THEN TimerCursor(lists[l], c, due, freed, back) ELSE Cursor(lists[l], l, c, printed, due, moved)
Stands(l, x) == (l = list /\ x = at) \/ StandsOn(l, x)

(* What is freed when y leaves list l; a protocol never leaves.            *)
Key(l, y) ==
  CASE l[1] = "Handle->Protocols" -> <<l[2], y>>
    [] l[1] = "ProtocolEntry->Protocols" -> <<y, l[2]>>
    [] OTHER -> <<y>>

Stops == {"images", "find", "firstProtocol", "walk", "closeDummy", "createSignal", "createTimer", "done", "null", "freed"}
Round(l, a) == [list |-> l, at |-> a]
InnerShape ==
  \/ inner = <<>>
  \/ list = HandleList /\ at \in Handles /\ \E a \in Entry \cup {ListHead, NULL} : inner = <<Round(OnHandle(at), a)>>
  \/ list = ProtocolDatabase /\ at \in Protocols /\ \E a \in Entry \cup {ListHead, NULL} : inner = <<Round(ByProtocol(at), a), Round(NotifyOf(at), NULL)>>
  \/ list = ProtocolDatabase /\ at \in Protocols /\ \E a \in Entry \cup {ListHead, NULL} : inner = <<Round(NotifyOf(at), a)>>

(* The interfaces, as entries on the lists of their protocols.             *)
Interfaces == {<<ByProtocol(p), h>> : p \in Protocols, h \in Handles}

TypeOK ==
  /\ DOMAIN lists = Lists /\ \A l \in Lists : lists[l] \in Seq(EntriesOf(l) \cup {Dummy})
  /\ back \in [Events -> Events \cup {ListHead, NULL, Dummy}]
  /\ pc \in Stops
  /\ list \in {HandleList, ProtocolDatabase, SignalQueue, TimerList}
  /\ InnerShape
  /\ printed \in SUBSET (Lists \X Entry)
  /\ again \in SUBSET (Lists \X Entry)
  /\ due \in SUBSET (Lists \X Entry)
  /\ moved \in SUBSET Interfaces
  /\ freed \in SUBSET ({<<x>> : x \in Handles \cup Events} \cup (Handles \X Protocols))

(* The lists stay well formed, and DummyEvent is on them for a search only. *)
ListsInv ==
  /\ \A l \in Lists : Unique(lists[l])
  /\ \A h \in Handles, p \in Protocols : Has(lists[OnHandle(h)], p) <=> Has(lists[ByProtocol(p)], h)
  /\ \A e \in Events : Has(lists[SignalQueue], e) => <<e>> \notin freed
  /\ \A l \in Lists : Has(lists[l], Dummy) => l = list /\ l \in Backward /\ pc \in {"find", "closeDummy", "freed"}

(* Which lists have been walked.                                           *)
Unprinted(l) == \A y \in Entry : <<l, y>> \notin printed
StageInv ==
  /\ pc = "images" => list = HandleList /\ printed = {}
  /\ pc \in {"find", "firstProtocol"} /\ list \in {HandleList, ProtocolDatabase} => printed = {}
  /\ pc = "closeDummy" => list \in Backward
  /\ pc = "firstProtocol" => list = HandleList
  /\ inner # <<>> => pc \in {"walk", "null", "freed"} /\ <<list, at>> \in printed
  /\ pc = "walk" /\ list = HandleList => Unprinted(ProtocolDatabase)
  /\ \/ pc = "walk" /\ list \in {HandleList, ProtocolDatabase}
     \/ pc = "createSignal"
     \/ pc \in {"find", "closeDummy"} /\ list = SignalQueue
     => Unprinted(SignalQueue)
  /\ \A h \in Handles : ~Unprinted(OnHandle(h)) => <<HandleList, h>> \in printed
  /\ \A p \in Protocols : ~Unprinted(ByProtocol(p)) \/ ~Unprinted(NotifyOf(p)) => <<ProtocolDatabase, p>> \in printed

WalkInv ==
  /\ pc = "walk" => Standing(list, at)
  /\ pc = "walk" /\ inner # <<>> /\ inner[1].at # NULL =>
       Cursor(lists[inner[1].list], inner[1].list, inner[1].at, printed, due, moved)
  /\ \A k \in 1..Len(inner) : inner[k].at = NULL => Unprinted(inner[k].list) /\ \A y \in Entry : <<inner[k].list, y>> \notin due

(* What is due is on its list; what was printed and is not was freed.      *)
GoneInv ==
  /\ \A l \in Lists, y \in Entry : <<l, y>> \in due => Has(lists[l], y)
  /\ \A l \in Lists, y \in Entry :
       <<l, y>> \in printed /\ l # TimerList /\ ~Has(lists[l], y) => l # ProtocolDatabase /\ Key(l, y) \in freed

Inv == TypeOK /\ ListsInv /\ StageInv /\ WalkInv /\ GoneInv /\ ListsShown

-----------------------------------------------------------------------------
(* What lies ahead of a cursor, by its place in the list.                  *)
LEMMA AheadForward ==
  ASSUME NEW S, NEW s \in Seq(S), Unique(s), ListHead \notin S, NEW l, l \notin Backward, NEW c, NEW k \in 0..Len(s),
         (k = 0 /\ c = ListHead) \/ (k > 0 /\ c = s[k])
  PROVE  \A y : Ahead(s, l, c, y) <=> \E j \in k + 1..Len(s) : s[j] = y
<1>1. CASE k = 0
  BY <1>1 DEF Ahead, Has
<1>2. CASE k > 0
  <2>1. k \in 1..Len(s) /\ c = s[k] /\ c # ListHead
    BY <1>2
  <2>2. \A i \in 1..Len(s) : s[i] = c <=> i = k
    BY <2>1 DEF Unique
  <2> QED
    BY <2>1, <2>2 DEF Ahead, Precedes
<1> QED
  BY <1>1, <1>2

(* Ahead, for a list that is walked from its tail.                         *)
LEMMA AheadBackward ==
  ASSUME NEW S, NEW s \in Seq(S), Unique(s), ListHead \notin S, NEW l, l \in Backward, NEW c, NEW k \in 1..Len(s) + 1,
         (k = Len(s) + 1 /\ c = ListHead) \/ (k <= Len(s) /\ c = s[k])
  PROVE  \A y : Ahead(s, l, c, y) <=> \E j \in 1..k - 1 : s[j] = y
<1>1. CASE k = Len(s) + 1
  BY <1>1 DEF Ahead, Has
<1>2. CASE k <= Len(s)
  <2>1. k \in 1..Len(s) /\ c = s[k] /\ c # ListHead
    BY <1>2
  <2>2. \A i \in 1..Len(s) : s[i] = c <=> i = k
    BY <2>1 DEF Unique
  <2> QED
    BY <2>1, <2>2 DEF Ahead, Precedes
<1> QED
  BY <1>1, <1>2

(* n is the next entry of a walk at c.                                     *)
Follows(s, l, c, n) ==
  /\ n # ListHead /\ Has(s, n) /\ Ahead(s, l, c, n) /\ ~Ahead(s, l, n, n)
  /\ \A y : Ahead(s, l, c, y) /\ y # n => Ahead(s, l, n, y)
  /\ \A y : Ahead(s, l, n, y) => Ahead(s, l, c, y)

(* An entry has one position on its list.                                  *)
LEMMA PositionIs ==
  ASSUME NEW l, Unique(lists[l]), NEW k \in 1..Len(lists[l])
  PROVE  In(l, lists[l][k]) /\ Position(l, lists[l][k]) = k
BY DEF Unique, In, Position

(* A walk that goes on from c is at the next entry; one that ends has      *)
(* nothing ahead.                                                          *)
LEMMA LinkIs ==
  ASSUME NEW S, NEW l, lists[l] \in Seq(S), Unique(lists[l]), ListHead \notin S,
         NEW c, c = ListHead \/ Has(lists[l], c)
  PROVE  \/ Link(l, c) = ListHead /\ \A y : ~Ahead(lists[l], l, c, y)
         \/ Follows(lists[l], l, c, Link(l, c))
<1> DEFINE s == lists[l]
<1>1. CASE l \notin Backward
  <2>1. PICK k \in 0..Len(s) : (k = 0 /\ c = ListHead) \/ (k > 0 /\ c = s[k])
    <3>1. CASE c = ListHead
      <4>1. 0 \in 0..Len(s)
        OBVIOUS
      <4> QED
        BY <3>1, <4>1
    <3>2. CASE Has(s, c)
      <4>1. PICK i \in 1..Len(s) : s[i] = c
        BY <3>2 DEF Has
      <4>2. i \in 0..Len(s) /\ i > 0
        OBVIOUS
      <4> QED
        BY <4>1, <4>2
    <3> QED
      BY <3>1, <3>2
  <2>2. \A y : Ahead(s, l, c, y) <=> \E j \in k + 1..Len(s) : s[j] = y
    BY <1>1, <2>1, AheadForward
  <2>3. CASE k = Len(s)
    <3>1. Link(l, c) = ListHead
      <4>1. CASE k = 0
        <5>1. lists[l] = <<>>
          BY <2>3, <4>1, EmptySeq
        <5> QED
          BY <1>1, <2>1, <4>1, <5>1 DEF Link, ForwardLink, Backward
      <4>2. CASE k > 0
        BY <1>1, <2>1, <2>3, <4>2, PositionIs DEF Link, ForwardLink, Backward
      <4> QED
        BY <4>1, <4>2
    <3> QED
      BY <2>2, <2>3, <3>1
  <2>4. CASE k < Len(s)
    <3>1. Link(l, c) = s[k + 1]
      <4>1. CASE k = 0
        BY <1>1, <2>1, <2>4, <4>1 DEF Link, ForwardLink, Backward
      <4>2. CASE k > 0
        BY <1>1, <2>1, <2>4, <4>2, PositionIs DEF Link, ForwardLink, Backward
      <4> QED
        BY <4>1, <4>2
    <3>2. k + 1 \in 1..Len(s) /\ s[k + 1] # ListHead
      BY <2>4
    <3>3. \A y : Ahead(s, l, s[k + 1], y) <=> \E j \in (k + 1) + 1..Len(s) : s[j] = y
      BY <1>1, <3>2, AheadForward
    <3>4. \A j \in k + 1..Len(s) : j = k + 1 \/ j \in (k + 1) + 1..Len(s)
      OBVIOUS
    <3>5. \A j \in (k + 1) + 1..Len(s) : j \in k + 1..Len(s) /\ s[j] # s[k + 1]
      BY <3>2 DEF Unique
    <3> QED
      BY <2>2, <3>1, <3>2, <3>3, <3>4, <3>5 DEF Follows, Has
  <2> QED
    BY <2>3, <2>4
<1>2. CASE l \in Backward
  <2>1. PICK k \in 1..Len(s) + 1 : (k = Len(s) + 1 /\ c = ListHead) \/ (k <= Len(s) /\ c = s[k])
    <3>1. CASE c = ListHead
      <4>1. Len(s) + 1 \in 1..Len(s) + 1
        OBVIOUS
      <4> QED
        BY <3>1, <4>1
    <3>2. CASE Has(s, c)
      <4>1. PICK i \in 1..Len(s) : s[i] = c
        BY <3>2 DEF Has
      <4>2. i \in 1..Len(s) + 1 /\ i <= Len(s)
        OBVIOUS
      <4> QED
        BY <4>1, <4>2
    <3> QED
      BY <3>1, <3>2
  <2>2. \A y : Ahead(s, l, c, y) <=> \E j \in 1..k - 1 : s[j] = y
    BY <1>2, <2>1, AheadBackward
  <2>3. CASE k = 1
    <3>1. Link(l, c) = ListHead
      <4>1. CASE Len(s) = 0
        BY <1>2, <2>1, <2>3, <4>1 DEF Link, BackLink, Backward
      <4>2. CASE Len(s) > 0
        BY <1>2, <2>1, <2>3, <4>2, PositionIs DEF Link, BackLink, Backward
      <4> QED
        BY <4>1, <4>2
    <3> QED
      BY <2>2, <2>3, <3>1
  <2>4. CASE k > 1
    <3>1. Link(l, c) = s[k - 1]
      <4>1. CASE k = Len(s) + 1
        BY <1>2, <2>1, <2>4, <4>1 DEF Link, BackLink, Backward
      <4>2. CASE k <= Len(s)
        BY <1>2, <2>1, <2>4, <4>2, PositionIs DEF Link, BackLink, Backward
      <4> QED
        BY <4>1, <4>2
    <3>2. k - 1 \in 1..Len(s) /\ s[k - 1] # ListHead
      BY <2>4
    <3>3. \A y : Ahead(s, l, s[k - 1], y) <=> \E j \in 1..(k - 1) - 1 : s[j] = y
      BY <1>2, <3>2, AheadBackward
    <3>4. \A j \in 1..k - 1 : j = k - 1 \/ j \in 1..(k - 1) - 1
      OBVIOUS
    <3>5. \A j \in 1..(k - 1) - 1 : j \in 1..k - 1 /\ s[j] # s[k - 1]
      BY <3>2 DEF Unique
    <3> QED
      BY <2>2, <3>1, <3>2, <3>3, <3>4, <3>5 DEF Follows, Has
  <2> QED
    BY <2>3, <2>4
<1> QED
  BY <1>1, <1>2

(* A walk that prints the next entry.                                      *)
LEMMA CursorShown ==
  ASSUME NEW s, NEW l, NEW c, NEW n \in Entry, NEW P, NEW D, NEW M,
         Cursor(s, l, c, P, D, M), c = ListHead \/ Has(s, c), Follows(s, l, c, n)
  PROVE  /\ Cursor(s, l, n, P \cup {<<l, n>>}, D \ {<<l, n>>}, M)
         /\ <<l, n>> \notin P \/ <<l, n>> \in M
<1>1. <<l, n>> \notin P \/ <<l, n>> \in M
  BY DEF Cursor, Follows
<1>2. n # ListHead /\ Has(s, n)
  BY DEF Follows
<1>3. ASSUME NEW y \in Entry, <<l, y>> \in D \ {<<l, n>>}
      PROVE  Has(s, y) /\ Ahead(s, l, n, y)
  BY <1>3 DEF Cursor, Follows
<1>4. ASSUME NEW y \in Entry, Has(s, y), <<l, y>> \in P \cup {<<l, n>>}, <<l, y>> \notin M
      PROVE  ~Ahead(s, l, n, y)
  <2>1. CASE y = n
    BY <2>1 DEF Follows
  <2>2. CASE y # n
    <3>1. <<l, y>> \in P
      BY <1>4, <2>2
    <3>2. c # ListHead /\ (Has(s, c) => ~Ahead(s, l, c, y))
      BY <1>4, <3>1 DEF Cursor
    <3> QED
      BY <3>2 DEF Follows
  <2> QED
    BY <2>1, <2>2
<1> QED
  BY <1>1, <1>2, <1>3, <1>4 DEF Cursor

(* A list that is edited at x while it is walked: x is entered, or removed, *)
(* or goes to the end, and then a walk that stands on it has nothing due.  *)
Edited(s, t, l, x, P, D2, M2) ==
  /\ Same(s, t, x)
  /\ <<l, x>> \notin D2
  /\ Has(t, x) /\ ~Has(s, x) => <<l, x>> \notin P
  /\ Has(t, x) /\ Has(s, x) =>
       l \notin Backward /\ (\A y : ~Precedes(t, x, y)) /\ <<l, x>> \in M2 /\ (Stands(l, x) => NoneIn(l, D2))

(* A cursor stands when its list is edited.                                *)
LEMMA CursorEdited ==
  ASSUME NEW s, NEW t, NEW l, NEW c, NEW P, NEW D, NEW D2, NEW M, NEW M2, NEW x, ListHead \notin Entry,
         x # ListHead, Cursor(s, l, c, P, D, M), D2 \subseteq D, M \subseteq M2, Edited(s, t, l, x, P, D2, M2), Stands(l, c)
  PROVE  Cursor(t, l, c, P, D2, M2)
<1>1. c \in Entry \cup {ListHead} /\ (c # ListHead => <<l, c>> \in P)
  BY DEF Cursor
<1>2. ASSUME NEW y \in Entry, <<l, y>> \in D2
      PROVE  Has(t, y) /\ (c = ListHead \/ Has(t, c) => Ahead(t, l, c, y))
  <2>1. y # x /\ <<l, y>> \in D /\ Has(s, y) /\ Has(t, y)
    BY <1>2 DEF Edited, Same, Cursor
  <2>2. CASE c = ListHead
    BY <2>1, <2>2 DEF Ahead
  <2>3. CASE c # ListHead /\ c # x
    <3>1. Has(t, c) => Has(s, c)
      BY <2>3, <2>1 DEF Edited, Same
    <3>2. Has(s, c) => Ahead(s, l, c, y)
      BY <1>2, <2>1 DEF Cursor
    <3> QED
      BY <2>1, <2>3, <3>1, <3>2 DEF Edited, Same, Ahead
  <2>4. CASE c # ListHead /\ c = x
    <3> SUFFICES ASSUME Has(t, x) PROVE FALSE
      BY <2>1, <2>4
    <3> QED
      BY <1>1, <1>2, <2>4 DEF Edited, NoneIn
  <2> QED
    BY <2>2, <2>3, <2>4
<1>3. ASSUME NEW y \in Entry, Has(t, y), <<l, y>> \in P, <<l, y>> \notin M2
      PROVE  c # ListHead /\ (Has(t, c) => ~Ahead(t, l, c, y))
  <2>1. y # x
    BY <1>3 DEF Edited
  <2>2. Has(s, y) /\ <<l, y>> \notin M
    BY <1>3, <2>1 DEF Edited, Same
  <2>3. c # ListHead /\ (Has(s, c) => ~Ahead(s, l, c, y))
    BY <1>3, <2>2 DEF Cursor
  <2>4. CASE c # x
    BY <2>1, <2>3, <2>4 DEF Edited, Same, Ahead
  <2>5. CASE c = x
    BY <1>1, <2>3, <2>5 DEF Edited, Ahead
  <2> QED
    BY <2>4, <2>5
<1> QED
  BY <1>1, <1>2, <1>3 DEF Cursor

(* The walk of the timers goes on while there is less due and more freed.  *)
LEMMA TimerKept ==
  ASSUME NEW s, NEW c, NEW D, NEW D2, NEW F, NEW F2, NEW B, TimerCursor(s, c, D, F, B), D2 \subseteq D, F \subseteq F2
  PROVE  TimerCursor(s, c, D2, F2, B)
<1> SUFFICES ASSUME c # ListHead PROVE \E C \in SUBSET Events : c \in C /\ Trailing(C, s, c, D2, F2, B)
  BY DEF TimerCursor
<1>1. PICK C \in SUBSET Events : c \in C /\ Trailing(C, s, c, D, F, B)
  BY DEF TimerCursor
<1>2. Trailing(C, s, c, D2, F2, B)
  BY <1>1 DEF Trailing, NoneIn
<1> QED
  BY <1>1, <1>2

(* A timer is closed: its memory is freed.                                 *)
LEMMA TimerClosed ==
  ASSUME NEW s, NEW t, NEW c, NEW D, NEW D2, NEW F, NEW F2, NEW B, NEW e, TimerCursor(s, c, D, F, B), D2 \subseteq D, F \subseteq F2,
         Same(s, t, e), ~Has(t, e), <<TimerList, e>> \notin D2, <<e>> \in F2
  PROVE  TimerCursor(t, c, D2, F2, B)
<1> SUFFICES ASSUME c # ListHead PROVE \E C \in SUBSET Events : c \in C /\ Trailing(C, t, c, D2, F2, B)
  BY DEF TimerCursor
<1>1. PICK C \in SUBSET Events : c \in C /\ Trailing(C, s, c, D, F, B)
  BY DEF TimerCursor
<1>2. ASSUME NEW x \in C, Has(t, x), NEW y \in Entry, <<TimerList, y>> \in D2
      PROVE  Precedes(t, y, x) \/ (y = x /\ x # c)
  <2>1. x # e /\ y # e /\ Has(s, x) /\ <<TimerList, y>> \in D
    BY <1>2 DEF Same
  <2>2. Precedes(s, y, x) \/ (y = x /\ x # c)
    BY <1>1, <2>1 DEF Trailing
  <2> QED
    BY <2>1, <2>2 DEF Same
<1>3. ASSUME NEW x \in C, ~Has(t, x), <<x>> \notin F2
      PROVE  B[x] \in C \/ (B[x] = ListHead /\ NoneIn(TimerList, D2))
  <2>1. x # e /\ ~Has(s, x) /\ <<x>> \notin F
    BY <1>3 DEF Same
  <2> QED
    BY <1>1, <2>1 DEF Trailing, NoneIn
<1>4. Trailing(C, t, c, D2, F2, B)
  BY <1>2, <1>3 DEF Trailing
<1> QED
  BY <1>1, <1>4

(* A timer leaves the list and keeps its link to the one before it.        *)
LEMMA TimerCancelled ==
  ASSUME NEW s, NEW t, NEW c, NEW D, NEW D2, NEW F, NEW B, NEW B2, NEW e \in Events, TimerCursor(s, c, D, F, B), D2 \subseteq D,
         Same(s, t, e), ~Has(t, e), Has(s, e), <<TimerList, e>> \notin D2,
         \A x \in Events : x # e => B2[x] = B[x],
         \/ B2[e] = ListHead /\ \A y : ~Precedes(s, y, e)
         \/ B2[e] \in Events \cup {Dummy} /\ B2[e] # e /\ Has(s, B2[e]) /\ \A y : Precedes(s, y, e) => y = B2[e] \/ Precedes(s, y, B2[e]),
         ~Has(s, Dummy)
  PROVE  TimerCursor(t, c, D2, F, B2)
<1> SUFFICES ASSUME c # ListHead PROVE \E C \in SUBSET Events : c \in C /\ Trailing(C, t, c, D2, F, B2)
  BY DEF TimerCursor
<1>1. PICK C \in SUBSET Events : c \in C /\ Trailing(C, s, c, D, F, B)
  BY DEF TimerCursor
<1> DEFINE b == B2[e]
<1> DEFINE C2 == IF e \in C /\ b # ListHead THEN C \cup {b} ELSE C
<1>2. e \in C => \A y \in Entry : <<TimerList, y>> \in D2 => Precedes(s, y, e)
  BY <1>1 DEF Trailing
<1>3. C2 \in SUBSET Events /\ c \in C2
  BY <1>1
<1>4. ASSUME NEW x \in C2, Has(t, x), NEW y \in Entry, <<TimerList, y>> \in D2
      PROVE  Precedes(t, y, x) \/ (y = x /\ x # c)
  <2>1. x # e /\ y # e /\ Has(s, x) /\ <<TimerList, y>> \in D
    BY <1>4 DEF Same
  <2>2. CASE x \in C
    <3>1. Precedes(s, y, x) \/ (y = x /\ x # c)
      BY <1>1, <2>1, <2>2 DEF Trailing
    <3> QED
      BY <2>1, <3>1 DEF Same
  <2>3. CASE x \notin C
    <3>1. e \in C /\ x = b /\ b # ListHead /\ x # c
      BY <1>1, <2>3
    <3>2. Precedes(s, y, e)
      BY <1>2, <1>4, <3>1
    <3>3. y = x \/ Precedes(s, y, x)
      BY <3>1, <3>2
    <3> QED
      BY <2>1, <3>1, <3>3 DEF Same
  <2> QED
    BY <2>2, <2>3
<1>5. ASSUME NEW x \in C2, ~Has(t, x), <<x>> \notin F
      PROVE  B2[x] \in C2 \/ (B2[x] = ListHead /\ NoneIn(TimerList, D2))
  <2>1. CASE x = e
    <3>1. e \in C
      BY <1>5, <2>1
    <3>2. CASE b = ListHead
      BY <1>2, <2>1, <3>1, <3>2, ListsAssumption DEF NoneIn
    <3>3. CASE b # ListHead
      BY <2>1, <3>1, <3>3
    <3> QED
      BY <3>2, <3>3
  <2>2. CASE x # e
    <3>1. x \in Events /\ ~Has(s, x) /\ B2[x] = B[x]
      BY <1>3, <1>5, <2>2 DEF Same
    <3>2. x \in C
      BY <3>1
    <3>3. B[x] \in C \/ (B[x] = ListHead /\ NoneIn(TimerList, D))
      BY <1>1, <1>5, <3>1, <3>2 DEF Trailing
    <3> QED
      BY <3>1, <3>3 DEF NoneIn
  <2> QED
    BY <2>1, <2>2
<1> HIDE DEF C2
<1>6. Trailing(C2, t, c, D2, F, B2)
  BY <1>4, <1>5 DEF Trailing
<1> QED
  BY <1>3, <1>6

(* A timer is armed, again or not, and is now at another place.  It is not *)
(* on the trail of the walk, or what lies behind it is no longer due.      *)
LEMMA TimerArmed ==
  ASSUME NEW s, NEW t, NEW c, NEW D, NEW D2, NEW F, NEW B, NEW e \in Events, TimerCursor(s, c, D, F, B), D2 \subseteq D,
         Same(s, t, e), Has(t, e), <<TimerList, e>> \notin D2,
         \/ \A y \in Entry : <<TimerList, y>> \in D2 => Precedes(t, y, e)
         \/ \E C \in SUBSET Events : c \in C /\ e \notin C /\ \A x \in C : ~Has(s, x) /\ B[x] \in Events => B[x] \in C
  PROVE  TimerCursor(t, c, D2, F, B)
<1> SUFFICES ASSUME c # ListHead PROVE \E C \in SUBSET Events : c \in C /\ Trailing(C, t, c, D2, F, B)
  BY DEF TimerCursor
<1>1. PICK C \in SUBSET Events : c \in C /\ Trailing(C, s, c, D, F, B)
  BY DEF TimerCursor
<1>2. ASSUME NEW x \in C, x # e, Has(t, x), NEW y \in Entry, <<TimerList, y>> \in D2
      PROVE  Precedes(t, y, x) \/ (y = x /\ x # c)
  <2>1. y # e /\ Has(s, x) /\ <<TimerList, y>> \in D
    BY <1>2 DEF Same
  <2>2. Precedes(s, y, x) \/ (y = x /\ x # c)
    BY <1>1, <2>1 DEF Trailing
  <2> QED
    BY <1>2, <2>1, <2>2 DEF Same
<1>3. ASSUME NEW x \in C, ~Has(t, x), <<x>> \notin F
      PROVE  ~Has(s, x) /\ (B[x] \in C \/ (B[x] = ListHead /\ NoneIn(TimerList, D2)))
  <2>1. x # e /\ ~Has(s, x)
    BY <1>3 DEF Same
  <2> QED
    BY <1>1, <1>3, <2>1 DEF Trailing, NoneIn
<1>4. CASE \A y \in Entry : <<TimerList, y>> \in D2 => Precedes(t, y, e)
  <2>1. Trailing(C, t, c, D2, F, B)
    BY <1>2, <1>3, <1>4 DEF Trailing
  <2> QED
    BY <1>1, <2>1
<1>5. CASE \E A \in SUBSET Events : c \in A /\ e \notin A /\ \A x \in A : ~Has(s, x) /\ B[x] \in Events => B[x] \in A
  <2>1. PICK A \in SUBSET Events : c \in A /\ e \notin A /\ \A x \in A : ~Has(s, x) /\ B[x] \in Events => B[x] \in A
    BY <1>5
  <2> DEFINE E == C \cap A
  <2>2. ASSUME NEW x \in E, ~Has(t, x), <<x>> \notin F
        PROVE  B[x] \in E \/ (B[x] = ListHead /\ NoneIn(TimerList, D2))
    BY <1>3, <2>1, <2>2
  <2>3. \A x \in E : x # e
    BY <2>1
  <2>4. c \in E /\ E \in SUBSET Events
    BY <1>1, <2>1
  <2>5. \A x \in E : x \in C
    OBVIOUS
  <2> HIDE DEF E
  <2>6. Trailing(E, t, c, D2, F, B)
    BY <1>2, <2>2, <2>3, <2>5 DEF Trailing
  <2> QED
    BY <2>4, <2>6
<1> QED
  BY <1>4, <1>5

-----------------------------------------------------------------------------
(* The lists are told apart by their names, their entries from the head.   *)
LEMMA ListNames ==
  /\ HandleList \in Lists /\ ProtocolDatabase \in Lists /\ SignalQueue \in Lists /\ TimerList \in Lists
  /\ EntriesOf(HandleList) = Handles /\ EntriesOf(ProtocolDatabase) = Protocols
  /\ EntriesOf(SignalQueue) = Events /\ EntriesOf(TimerList) = Events
  /\ \A h : EntriesOf(OnHandle(h)) = Protocols /\ OnHandle(h) \notin {HandleList, ProtocolDatabase, SignalQueue, TimerList}
  /\ \A p : EntriesOf(ByProtocol(p)) = Handles /\ ByProtocol(p) \notin {HandleList, ProtocolDatabase, SignalQueue, TimerList}
  /\ \A p : EntriesOf(NotifyOf(p)) = Events /\ NotifyOf(p) \notin {HandleList, ProtocolDatabase, SignalQueue, TimerList}
  /\ \A h, p : OnHandle(h) # ByProtocol(p) /\ OnHandle(h) # NotifyOf(p) /\ ByProtocol(h) # NotifyOf(p)
  /\ \A h, g : (OnHandle(h) = OnHandle(g) => h = g) /\ (ByProtocol(h) = ByProtocol(g) => h = g) /\ (NotifyOf(h) = NotifyOf(g) => h = g)
  /\ HandleList # ProtocolDatabase /\ HandleList # SignalQueue /\ HandleList # TimerList
  /\ ProtocolDatabase # SignalQueue /\ ProtocolDatabase # TimerList /\ SignalQueue # TimerList
  /\ \A h \in Handles : OnHandle(h) \in Lists
  /\ \A p \in Protocols : ByProtocol(p) \in Lists /\ NotifyOf(p) \in Lists
BY DEF Lists, HandleList, ProtocolDatabase, SignalQueue, TimerList, OnHandle, ByProtocol, NotifyOf, EntriesOf

(* What freed says when an entry leaves each kind of list.                 *)
LEMMA Keys ==
  /\ \A y : Key(HandleList, y) = <<y>> /\ Key(SignalQueue, y) = <<y>>
  /\ \A h, y : Key(OnHandle(h), y) = <<h, y>> /\ Key(ByProtocol(h), y) = <<y, h>> /\ Key(NotifyOf(h), y) = <<y>>
BY DEF Key, HandleList, SignalQueue, OnHandle, ByProtocol, NotifyOf

(* Entries are neither the head, nor NULL, nor DummyEvent.                 *)
LEMMA EntryTypes ==
  /\ \A l \in Lists : EntriesOf(l) \subseteq Entry
  /\ ListHead \notin Entry /\ NULL \notin Entry /\ Dummy \notin Entry /\ Dummy # ListHead /\ Dummy # NULL
BY ListsAssumption DEF EntriesOf, Entry

(* In, as a fact about sequences.                                          *)
LEMMA InIsHas == \A l, x : In(l, x) <=> Has(lists[l], x)
BY DEF In, Has

-----------------------------------------------------------------------------
(* A handler, between two steps of the application.                        *)
LEMMA HandlersKeep ==
  ASSUME Inv, UNCHANGED <<pc, list, at, inner, printed, again>>,
         DOMAIN lists' = Lists,
         \A l \in Lists : lists'[l] \in Seq(EntriesOf(l) \cup {Dummy}) /\ Unique(lists'[l]),
         \A l \in Lists :
           \/ lists'[l] = lists[l]
           \/ \E x \in Entry :
                /\ Same(lists[l], lists'[l], x) /\ <<l, x>> \notin due'
                /\ l # TimerList => Edited(lists[l], lists'[l], l, x, printed, due', moved')
                /\ ~Has(lists'[l], x) /\ l # TimerList => l # ProtocolDatabase /\ Key(l, x) \in freed',
         pc = "walk" /\ list = TimerList /\ TimerCursor(lists[TimerList], at, due, freed, back) =>
           TimerCursor(lists'[TimerList], at, due', freed', back'),
         due' \subseteq due, freed \subseteq freed', moved \subseteq moved',
         freed' \in SUBSET ({<<x>> : x \in Handles \cup Events} \cup (Handles \X Protocols)),
         moved' \in SUBSET Interfaces, back' \in [Events -> Events \cup {ListHead, NULL, Dummy}],
         \A h \in Handles, p \in Protocols : Has(lists'[OnHandle(h)], p) <=> Has(lists'[ByProtocol(p)], h),
         \A e \in Events : Has(lists'[SignalQueue], e) => <<e>> \notin freed'
  PROVE  Inv'
<1>1. TypeOK'
  BY DEF Inv, TypeOK, InnerShape
<1>2. ListsInv'
  <2>1. ASSUME NEW l \in Lists, Has(lists'[l], Dummy)
        PROVE  l = list /\ l \in Backward /\ pc \in {"find", "closeDummy", "freed"}
    <3>1. Has(lists[l], Dummy)
      <4>1. CASE lists'[l] # lists[l]
        <5>1. PICK x \in Entry : Same(lists[l], lists'[l], x)
          BY <4>1
        <5>2. Dummy # x
          BY EntryTypes
        <5> QED
          BY <2>1, <5>1, <5>2 DEF Same
      <4> QED
        BY <2>1, <4>1
    <3> QED
      BY <3>1 DEF Inv, ListsInv
  <2> QED
    BY <2>1 DEF ListsInv
<1>3. StageInv'
  BY DEF Inv, StageInv, Unprinted
<1>4. ASSUME NEW l \in Lists, l # TimerList, NEW c, Stands(l, c), Cursor(lists[l], l, c, printed, due, moved)
      PROVE  Cursor(lists'[l], l, c, printed, due', moved')
  <2>1. CASE lists'[l] = lists[l]
    <3>1. Cursor(lists[l], l, c, printed, due', moved')
      BY <1>4 DEF Cursor
    <3> QED
      BY <2>1, <3>1
  <2>2. CASE lists'[l] # lists[l]
    <3>1. PICK x \in Entry : Edited(lists[l], lists'[l], l, x, printed, due', moved')
      BY <1>4, <2>2
    <3>2. x # ListHead /\ ListHead \notin Entry
      BY EntryTypes
    <3> QED
      BY <1>4, <3>1, <3>2, CursorEdited
  <2> QED
    BY <2>1, <2>2
<1>5. WalkInv'
  <2>1. ASSUME pc' = "walk" PROVE Standing(list, at)'
    <3>1. Standing(list, at) /\ list \in Lists
      BY <2>1, ListNames DEF Inv, WalkInv, TypeOK
    <3>2. CASE list = TimerList
      BY <2>1, <3>1, <3>2 DEF Standing
    <3>3. CASE list # TimerList
      BY <1>4, <3>1, <3>3 DEF Standing, Stands
    <3> QED
      BY <3>2, <3>3
  <2>2. ASSUME pc' = "walk", inner' # <<>>, inner'[1].at # NULL
        PROVE  Cursor(lists'[inner'[1].list], inner'[1].list, inner'[1].at, printed', due', moved')
    <3>1. inner[1].list \in Lists /\ inner[1].list # TimerList
      BY <2>2, ListNames DEF Inv, TypeOK, InnerShape, Round
    <3>2. Stands(inner[1].list, inner[1].at)
      BY <2>2 DEF Stands, StandsOn
    <3> QED
      BY <1>4, <2>2, <3>1, <3>2 DEF Inv, WalkInv
  <2>3. \A k \in 1..Len(inner') : inner'[k].at = NULL =>
          (\A y \in Entry : <<inner'[k].list, y>> \notin printed') /\ \A y \in Entry : <<inner'[k].list, y>> \notin due'
    BY DEF Inv, WalkInv, Unprinted
  <2> QED
    BY <2>1, <2>2, <2>3 DEF WalkInv, Unprinted
<1>6. GoneInv'
  <2>1. ASSUME NEW l \in Lists, NEW y \in Entry, <<l, y>> \in due'
        PROVE  Has(lists'[l], y)
    BY <2>1 DEF Inv, GoneInv, Same
  <2>2. ASSUME NEW l \in Lists, NEW y \in Entry, <<l, y>> \in printed, l # TimerList, ~Has(lists'[l], y)
        PROVE  l # ProtocolDatabase /\ Key(l, y) \in freed'
    <3>1. CASE ~Has(lists[l], y)
      BY <2>2, <3>1 DEF Inv, GoneInv
    <3>2. CASE Has(lists[l], y)
      <4>1. PICK x \in Entry : Same(lists[l], lists'[l], x) /\ (~Has(lists'[l], x) => l # ProtocolDatabase /\ Key(l, x) \in freed')
        BY <2>2, <3>2
      <4>2. y = x
        BY <2>2, <3>2, <4>1 DEF Same
      <4> QED
        BY <2>2, <4>1, <4>2
    <3> QED
      BY <3>1, <3>2
  <2> QED
    BY <2>1, <2>2 DEF GoneInv
<1>7. ListsShown'
  BY DEF Inv, ListsShown, NothingMissed, ShownOnce, DummyUnlisted
<1> QED
  BY <1>1, <1>2, <1>3, <1>5, <1>6, <1>7 DEF Inv

(* The list of timers is left alone.                                       *)
LEMMA TimersLeft ==
  ASSUME UNCHANGED back, lists'[TimerList] = lists[TimerList], due' \subseteq due, freed \subseteq freed', NEW c,
         TimerCursor(lists[TimerList], c, due, freed, back)
  PROVE  TimerCursor(lists'[TimerList], c, due', freed', back')
<1>1. TimerCursor(lists[TimerList], c, due', freed', back)
  BY TimerKept
<1> QED
  BY <1>1

(* An entry goes onto a list that it is not on, or leaves one.             *)
LEMMA Entered ==
  ASSUME Inv, NEW l \in Lists, NEW x \in EntriesOf(l), ~Has(lists[l], x), NEW t,
         \/ t = Append(lists[l], x)
         \/ t = <<x>> \o lists[l]
         \/ \E k \in 0..Len(lists[l]) : t = Inserted(lists[l], k, x),
         <<l, x>> \notin printed
  PROVE  /\ t \in Seq(EntriesOf(l) \cup {Dummy}) /\ Unique(t) /\ Has(t, x) /\ Same(lists[l], t, x) /\ <<l, x>> \notin due
         /\ Edited(lists[l], t, l, x, printed, due, moved)
<1> DEFINE s == lists[l]
<1> DEFINE T == EntriesOf(l) \cup {Dummy}
<1>1. s \in Seq(T) /\ Unique(s) /\ x \in T /\ x \in Entry
  BY EntryTypes DEF Inv, TypeOK, ListsInv
<1> HIDE DEF s, T
<1>2. \E k \in 0..Len(s) : t = Inserted(s, k, x)
  <2>1. 0 \in 0..Len(s) /\ Len(s) \in 0..Len(s)
    BY <1>1
  <2> QED
    BY <1>1, <2>1, AppendIs, PrependIs DEF s
<1>3. t \in Seq(T) /\ Unique(t) /\ Has(t, x) /\ Same(s, t, x)
  BY <1>1, <1>2, InsertedSame DEF s
<1>4. <<l, x>> \notin due
  BY <1>1 DEF Inv, GoneInv
<1> QED
  BY <1>3, <1>4 DEF Edited, s, T

(* A list from which a handler removed x.                                  *)
LEMMA Left ==
  ASSUME Inv, NEW l \in Lists, NEW x, NEW t, t = RemoveFirst(lists[l], x), NEW D, <<l, x>> \notin D
  PROVE  /\ t \in Seq(EntriesOf(l) \cup {Dummy}) /\ Unique(t) /\ ~Has(t, x) /\ Same(lists[l], t, x)
         /\ Edited(lists[l], t, l, x, printed, D, moved)
<1>1. lists[l] \in Seq(EntriesOf(l) \cup {Dummy}) /\ Unique(lists[l])
  BY DEF Inv, TypeOK, ListsInv
<1>2. t \in Seq(EntriesOf(l) \cup {Dummy}) /\ Unique(t) /\ ~Has(t, x) /\ Same(lists[l], t, x)
  BY <1>1, RemovedSame
<1> QED
  BY <1>2 DEF Edited

(* InstallProtocolInterface keeps Inv.                                     *)
LEMMA InstallKeeps ==
  ASSUME Inv, NEW h \in Handles, NEW p \in Protocols, InstallProtocolInterface(h, p)
  PROVE  Inv'
<1>1. /\ ~Has(lists[OnHandle(h)], p) /\ <<h>> \notin freed /\ <<h, p>> \notin freed
      /\ UNCHANGED <<pc, list, at, inner, printed, again, back, freed, moved, due>>
  BY InIsHas DEF InstallProtocolInterface, Handler
<1>2. /\ lists'[HandleList] = IF In(HandleList, h) THEN lists[HandleList] ELSE Append(lists[HandleList], h)
      /\ lists'[OnHandle(h)] = <<p>> \o lists[OnHandle(h)]
      /\ lists'[ProtocolDatabase] = WithProtocol(p)
      /\ lists'[ByProtocol(p)] = Append(lists[ByProtocol(p)], h)
      /\ DOMAIN lists' = Lists
      /\ \A l \in Lists \ {HandleList, OnHandle(h), ProtocolDatabase, ByProtocol(p)} : lists'[l] = lists[l]
  BY ListNames DEF InstallProtocolInterface, Inv, TypeOK
<1>3. h \in Entry /\ p \in Entry
  BY DEF Entry
<1>4. ~Has(lists[ByProtocol(p)], h)
  BY <1>1 DEF Inv, ListsInv
<1> DEFINE Fine(l) == lists'[l] \in Seq(EntriesOf(l) \cup {Dummy}) /\ Unique(lists'[l])
<1> DEFINE EditedBy(l, x) == Has(lists'[l], x) /\ Same(lists[l], lists'[l], x) /\ <<l, x>> \notin due' /\ Edited(lists[l], lists'[l], l, x, printed, due', moved')
<1>5. ASSUME NEW l \in Lists PROVE lists[l] \in Seq(EntriesOf(l) \cup {Dummy}) /\ Unique(lists[l])
  BY DEF Inv, TypeOK, ListsInv
<1>6. Fine(HandleList) /\ (lists'[HandleList] = lists[HandleList] \/ EditedBy(HandleList, h))
  <2>1. CASE In(HandleList, h)
    BY <1>2, <1>5, <2>1, ListNames
  <2>2. CASE ~In(HandleList, h)
    <3>1. <<HandleList, h>> \notin printed
      BY <1>1, <1>3, <2>2, InIsHas, ListNames, Keys DEF Inv, GoneInv
    <3> QED
      BY <1>1, <1>2, <2>2, <3>1, Entered, InIsHas, ListNames
  <2> QED
    BY <2>1, <2>2
<1>7. Fine(OnHandle(h)) /\ EditedBy(OnHandle(h), p)
  <2>1. <<OnHandle(h), p>> \notin printed
    BY <1>1, <1>3, ListNames, Keys DEF Inv, GoneInv
  <2> QED
    BY <1>1, <1>2, <2>1, Entered, ListNames
<1>8. Fine(ProtocolDatabase) /\ (lists'[ProtocolDatabase] = lists[ProtocolDatabase] \/ EditedBy(ProtocolDatabase, p))
  <2>1. CASE In(ProtocolDatabase, p)
    BY <1>2, <1>5, <2>1, ListNames DEF WithProtocol
  <2>2. CASE ~In(ProtocolDatabase, p)
    <3>1. <<ProtocolDatabase, p>> \notin printed
      BY <1>3, <2>2, InIsHas, ListNames DEF Inv, GoneInv
    <3> QED
      BY <1>1, <1>2, <2>2, <3>1, Entered, InIsHas, ListNames DEF WithProtocol
  <2> QED
    BY <2>1, <2>2
<1>9. Fine(ByProtocol(p)) /\ EditedBy(ByProtocol(p), h)
  <2>1. <<ByProtocol(p), h>> \notin printed
    BY <1>1, <1>3, <1>4, ListNames, Keys DEF Inv, GoneInv
  <2> QED
    BY <1>1, <1>2, <1>4, <2>1, Entered, ListNames
<1>10. ASSUME NEW g \in Handles, NEW q \in Protocols
       PROVE  Has(lists'[OnHandle(g)], q) <=> Has(lists'[ByProtocol(q)], g)
  <2>1. Has(lists'[OnHandle(g)], q) <=> Has(lists[OnHandle(g)], q) \/ (g = h /\ q = p)
    <3>1. CASE g = h
      BY <1>7, <3>1 DEF Same
    <3>2. CASE g # h
      <4>1. OnHandle(g) \in Lists \ {HandleList, OnHandle(h), ProtocolDatabase, ByProtocol(p)}
        BY <3>2, ListNames
      <4> QED
        BY <1>2, <3>2, <4>1
    <3> QED
      BY <3>1, <3>2
  <2>2. Has(lists'[ByProtocol(q)], g) <=> Has(lists[ByProtocol(q)], g) \/ (g = h /\ q = p)
    <3>1. CASE q = p
      BY <1>9, <3>1 DEF Same
    <3>2. CASE q # p
      <4>1. ByProtocol(q) \in Lists \ {HandleList, OnHandle(h), ProtocolDatabase, ByProtocol(p)}
        BY <3>2, ListNames
      <4> QED
        BY <1>2, <3>2, <4>1
    <3> QED
      BY <3>1, <3>2
  <2> QED
    BY <2>1, <2>2 DEF Inv, ListsInv
<1>11. ASSUME NEW e \in Events, Has(lists'[SignalQueue], e) PROVE <<e>> \notin freed'
  BY <1>1, <1>2, <1>11, ListNames DEF Inv, ListsInv
<1>12. ASSUME NEW l \in Lists
       PROVE  /\ Fine(l)
              /\ lists'[l] = lists[l] \/ \E x \in Entry : EditedBy(l, x)
  BY <1>2, <1>3, <1>5, <1>6, <1>7, <1>8, <1>9
<1>13. /\ freed' \in SUBSET ({<<x>> : x \in Handles \cup Events} \cup (Handles \X Protocols))
       /\ moved' \in SUBSET Interfaces /\ back' \in [Events -> Events \cup {ListHead, NULL, Dummy}]
       /\ moved \subseteq moved' /\ freed \subseteq freed'
  BY <1>1 DEF Inv, TypeOK
<1>15. TimerCursor(lists[TimerList], at, due, freed, back) => TimerCursor(lists'[TimerList], at, due', freed', back')
  BY <1>1, <1>2, TimersLeft, ListNames
<1> HIDE DEF Entry
<1> QED
  BY <1>1, <1>2, <1>10, <1>11, <1>12, <1>13, <1>15, HandlersKeep

(* RegisterProtocolNotify keeps Inv.                                       *)
LEMMA RegisterKeeps ==
  ASSUME Inv, NEW e \in Events, NEW p \in Protocols, RegisterProtocolNotify(p, e)
  PROVE  Inv'
<1>1. /\ ~Has(lists[NotifyOf(p)], e) /\ <<e>> \notin freed
      /\ UNCHANGED <<pc, list, at, inner, printed, again, back, freed, moved, due>>
  BY InIsHas DEF RegisterProtocolNotify, Handler, Inv, ListsInv
<1>2. /\ lists'[ProtocolDatabase] = WithProtocol(p)
      /\ lists'[NotifyOf(p)] = Append(lists[NotifyOf(p)], e)
      /\ DOMAIN lists' = Lists
      /\ \A l \in Lists \ {ProtocolDatabase, NotifyOf(p)} : lists'[l] = lists[l]
  BY ListNames DEF RegisterProtocolNotify, Inv, TypeOK
<1>3. e \in Entry /\ p \in Entry
  BY DEF Entry
<1> DEFINE Fine(l) == lists'[l] \in Seq(EntriesOf(l) \cup {Dummy}) /\ Unique(lists'[l])
<1> DEFINE EditedBy(l, x) == Has(lists'[l], x) /\ Same(lists[l], lists'[l], x) /\ <<l, x>> \notin due' /\ Edited(lists[l], lists'[l], l, x, printed, due', moved')
<1>4. ASSUME NEW l \in Lists PROVE lists[l] \in Seq(EntriesOf(l) \cup {Dummy}) /\ Unique(lists[l])
  BY DEF Inv, TypeOK, ListsInv
<1>5. Fine(ProtocolDatabase) /\ (lists'[ProtocolDatabase] = lists[ProtocolDatabase] \/ EditedBy(ProtocolDatabase, p))
  <2>1. CASE In(ProtocolDatabase, p)
    BY <1>2, <1>4, <2>1, ListNames DEF WithProtocol
  <2>2. CASE ~In(ProtocolDatabase, p)
    <3>1. <<ProtocolDatabase, p>> \notin printed
      BY <1>3, <2>2, InIsHas, ListNames DEF Inv, GoneInv
    <3> QED
      BY <1>1, <1>2, <2>2, <3>1, Entered, InIsHas, ListNames DEF WithProtocol
  <2> QED
    BY <2>1, <2>2
<1>6. Fine(NotifyOf(p)) /\ EditedBy(NotifyOf(p), e)
  <2>1. <<NotifyOf(p), e>> \notin printed
    BY <1>1, <1>3, ListNames, Keys DEF Inv, GoneInv
  <2> QED
    BY <1>1, <1>2, <2>1, Entered, ListNames
<1>7. ASSUME NEW g \in Handles, NEW q \in Protocols
      PROVE  Has(lists'[OnHandle(g)], q) <=> Has(lists'[ByProtocol(q)], g)
  <2>1. lists'[OnHandle(g)] = lists[OnHandle(g)] /\ lists'[ByProtocol(q)] = lists[ByProtocol(q)]
    BY <1>2, ListNames
  <2> QED
    BY <2>1 DEF Inv, ListsInv
<1>8. ASSUME NEW d \in Events, Has(lists'[SignalQueue], d) PROVE <<d>> \notin freed'
  BY <1>1, <1>2, <1>8, ListNames DEF Inv, ListsInv
<1>9. ASSUME NEW l \in Lists
      PROVE  /\ Fine(l)
             /\ lists'[l] = lists[l] \/ \E x \in Entry : EditedBy(l, x)
  BY <1>2, <1>3, <1>4, <1>5, <1>6
<1>10. /\ freed' \in SUBSET ({<<x>> : x \in Handles \cup Events} \cup (Handles \X Protocols))
       /\ moved' \in SUBSET Interfaces /\ back' \in [Events -> Events \cup {ListHead, NULL, Dummy}]
       /\ moved \subseteq moved' /\ freed \subseteq freed'
  BY <1>1 DEF Inv, TypeOK
<1>11. TimerCursor(lists[TimerList], at, due, freed, back) => TimerCursor(lists'[TimerList], at, due', freed', back')
  BY <1>1, <1>2, TimersLeft, ListNames
<1> QED
  BY <1>1, <1>2, <1>7, <1>8, <1>9, <1>10, <1>11, HandlersKeep

(* CreateEvent keeps Inv.                                                  *)
LEMMA CreateEventKeeps ==
  ASSUME Inv, NEW e \in Events, CreateEvent(e)
  PROVE  Inv'
<1>1. /\ ~Has(lists[SignalQueue], e) /\ <<e>> \notin freed
      /\ lists' = [lists EXCEPT ![SignalQueue] = <<e>> \o lists[SignalQueue]]
      /\ UNCHANGED <<pc, list, at, inner, printed, again, back, freed, moved, due>>
  BY InIsHas DEF CreateEvent, Handler
<1>2. e \in EntriesOf(SignalQueue) /\ e \in Entry /\ SignalQueue \in Lists /\ SignalQueue # TimerList
  BY ListNames DEF Entry
<1>3. <<SignalQueue, e>> \notin printed
  BY <1>1, <1>2, Keys DEF Inv, GoneInv
<1> DEFINE t == <<e>> \o lists[SignalQueue]
<1>4. /\ t \in Seq(EntriesOf(SignalQueue) \cup {Dummy}) /\ Unique(t) /\ Has(t, e)
      /\ Same(lists[SignalQueue], t, e) /\ <<SignalQueue, e>> \notin due
      /\ Edited(lists[SignalQueue], t, SignalQueue, e, printed, due, moved)
  BY <1>1, <1>2, <1>3, Entered
<1>5. lists'[SignalQueue] = t /\ DOMAIN lists' = Lists /\ \A l \in Lists : l # SignalQueue => lists'[l] = lists[l]
  BY <1>1, <1>2 DEF Inv, TypeOK
<1> HIDE DEF t
<1>6. ASSUME NEW l \in Lists
      PROVE  /\ lists'[l] \in Seq(EntriesOf(l) \cup {Dummy}) /\ Unique(lists'[l])
             /\ \/ lists'[l] = lists[l]
                \/ \E x \in Entry :
                     /\ Has(lists'[l], x) /\ Same(lists[l], lists'[l], x) /\ <<l, x>> \notin due'
                     /\ Edited(lists[l], lists'[l], l, x, printed, due', moved')
  <2>1. CASE l = SignalQueue
    BY <1>1, <1>2, <1>4, <1>5, <2>1
  <2>2. CASE l # SignalQueue
    BY <1>5, <2>2 DEF Inv, TypeOK, ListsInv
  <2> QED
    BY <2>1, <2>2
<1>7. ASSUME NEW g \in Handles, NEW q \in Protocols
      PROVE  Has(lists'[OnHandle(g)], q) <=> Has(lists'[ByProtocol(q)], g)
  <2>1. lists'[OnHandle(g)] = lists[OnHandle(g)] /\ lists'[ByProtocol(q)] = lists[ByProtocol(q)]
    BY <1>5, ListNames
  <2> QED
    BY <2>1 DEF Inv, ListsInv
<1>8. ASSUME NEW d \in Events, Has(lists'[SignalQueue], d) PROVE <<d>> \notin freed'
  BY <1>1, <1>4, <1>5, <1>8 DEF Same, Inv, ListsInv
<1>9. /\ freed' \in SUBSET ({<<x>> : x \in Handles \cup Events} \cup (Handles \X Protocols))
      /\ moved' \in SUBSET Interfaces /\ back' \in [Events -> Events \cup {ListHead, NULL, Dummy}]
      /\ moved \subseteq moved' /\ freed \subseteq freed'
  BY <1>1 DEF Inv, TypeOK
<1>10. TimerCursor(lists[TimerList], at, due, freed, back) => TimerCursor(lists'[TimerList], at, due', freed', back')
  BY <1>1, <1>2, <1>5, TimersLeft, ListNames
<1> QED
  BY <1>1, <1>5, <1>6, <1>7, <1>8, <1>9, <1>10, HandlersKeep

(* A change to the list of timers only.                                    *)
LEMMA TimerListKeeps ==
  ASSUME Inv, NEW e \in Events, UNCHANGED <<pc, list, at, inner, printed, again, freed, moved>>,
         due' \subseteq due, <<TimerList, e>> \notin due', NEW t, lists' = [lists EXCEPT ![TimerList] = t],
         t \in Seq(EntriesOf(TimerList) \cup {Dummy}), Unique(t), Same(lists[TimerList], t, e),
         back' \in [Events -> Events \cup {ListHead, NULL, Dummy}],
         pc = "walk" /\ list = TimerList /\ TimerCursor(lists[TimerList], at, due, freed, back) => TimerCursor(t, at, due', freed, back')
  PROVE  Inv'
<1>1. DOMAIN lists' = Lists /\ lists'[TimerList] = t /\ \A m \in Lists \ {TimerList} : lists'[m] = lists[m]
  BY ListNames DEF Inv, TypeOK
<1>2. ASSUME NEW m \in Lists
      PROVE  /\ lists'[m] \in Seq(EntriesOf(m) \cup {Dummy}) /\ Unique(lists'[m])
             /\ \/ lists'[m] = lists[m]
                \/ m = TimerList /\ \E x \in Entry : Same(lists[m], lists'[m], x) /\ <<m, x>> \notin due'
  <2>1. CASE m = TimerList
    BY <1>1, <2>1 DEF Entry
  <2>2. CASE m # TimerList
    BY <1>1, <2>2 DEF Inv, TypeOK, ListsInv
  <2> QED
    BY <2>1, <2>2
<1>3. ASSUME NEW g \in Handles, NEW q \in Protocols
      PROVE  Has(lists'[OnHandle(g)], q) <=> Has(lists'[ByProtocol(q)], g)
  <2>1. lists'[OnHandle(g)] = lists[OnHandle(g)] /\ lists'[ByProtocol(q)] = lists[ByProtocol(q)]
    BY <1>1, ListNames
  <2> QED
    BY <2>1 DEF Inv, ListsInv
<1>4. ASSUME NEW d \in Events, Has(lists'[SignalQueue], d) PROVE <<d>> \notin freed'
  BY <1>1, <1>4, ListNames DEF Inv, ListsInv
<1>5. /\ freed' \in SUBSET ({<<x>> : x \in Handles \cup Events} \cup (Handles \X Protocols)) /\ freed \subseteq freed'
      /\ moved' \in SUBSET Interfaces /\ moved \subseteq moved'
  BY DEF Inv, TypeOK
<1> QED
  BY <1>1, <1>2, <1>3, <1>4, <1>5, HandlersKeep

(* The timers as a sequence.                                               *)
LEMMA TimersAre ==
  ASSUME Inv
  PROVE  /\ lists[TimerList] \in Seq(Events \cup {Dummy}) /\ Unique(lists[TimerList]) /\ EntriesOf(TimerList) = Events
         /\ pc = "walk" => ~Has(lists[TimerList], Dummy)
BY ListNames DEF Inv, TypeOK, ListsInv

(* SetTimer keeps Inv.                                                     *)
LEMMA SetTimerKeeps ==
  ASSUME Inv, NEW e \in Events, NEW k \in 0..Cardinality(Events), SetTimer(e, k)
  PROVE  Inv'
<1> DEFINE s == lists[TimerList]
<1> DEFINE others == RemoveFirst(s, e)
<1> DEFINE t == Inserted(others, k, e)
<1> DEFINE behind == IF e \in Trail THEN {<<TimerList, t[i]>> : i \in k + 1..Len(t)} ELSE {}
<1> DEFINE T == Events \cup {Dummy}
<1>1. /\ k <= Len(others) /\ lists' = [lists EXCEPT ![TimerList] = t] /\ due' = due \ ({<<TimerList, e>>} \cup behind)
      /\ UNCHANGED <<pc, list, at, inner, printed, again, back, freed, moved>>
  BY DEF SetTimer, Handler
<1>2. s \in Seq(T) /\ Unique(s) /\ EntriesOf(TimerList) = Events
  BY TimersAre
<1> HIDE DEF s
<1>3. others \in Seq(T) /\ Unique(others) /\ ~Has(others, e) /\ Same(s, others, e)
  BY <1>2, RemovedSame
<1> HIDE DEF others
<1>4. k \in 0..Len(others)
  <2>1. Len(others) \in Nat /\ k \in Int /\ k >= 0
    BY <1>3
  <2> QED
    BY <1>1, <2>1
<1>5. t \in Seq(T) /\ Unique(t) /\ Has(t, e) /\ Same(others, t, e)
  BY <1>3, <1>4, InsertedSame
<1>6. Same(s, t, e)
  BY <1>3, <1>5 DEF Same
<1>7. k + 1 \in 1..Len(t) /\ t[k + 1] = e
  <2>1. Len(t) = Len(others) + 1 /\ \A i \in 1..Len(others) + 1 : t[i] = IF i <= k THEN others[i] ELSE IF i = k + 1 THEN e ELSE others[i - 1]
    <3>1. others \in Seq(T) /\ k \in 0..Len(others) /\ e \in T
      BY <1>3, <1>4
    <3>2. t = Inserted(others, k, e)
      OBVIOUS
    <3> HIDE DEF T, t
    <3> QED
      BY <3>1, <3>2, InsertedIs
  <2>2. k + 1 \in 1..Len(others) + 1 /\ ~(k + 1 <= k)
    BY <1>3, <1>4
  <2> HIDE DEF t
  <2> QED
    BY <2>1, <2>2
<1> HIDE DEF t
<1>8. ASSUME pc = "walk", list = TimerList, TimerCursor(s, at, due, freed, back)
      PROVE  TimerCursor(t, at, due', freed, back)
  <2>1. due' \subseteq due /\ <<TimerList, e>> \notin due'
    BY <1>1
  <2>2. CASE e \in Trail
    <3>1. ASSUME NEW y \in Entry, <<TimerList, y>> \in due' PROVE Precedes(t, y, e)
      <4>1. y # e /\ Has(s, y)
        BY <2>1, <3>1, ListNames DEF Inv, GoneInv, s
      <4>2. Has(t, y)
        BY <1>6, <4>1 DEF Same
      <4>3. PICK i \in 1..Len(t) : t[i] = y
        BY <4>2 DEF Has
      <4>4. i \notin k + 1..Len(t)
        BY <1>1, <2>2, <3>1, <4>3
      <4>5. i < k + 1
        BY <1>7, <4>4
      <4> QED
        BY <1>7, <4>3, <4>5 DEF Precedes
    <3> QED
      BY <1>5, <1>6, <1>8, <2>1, <3>1, TimerArmed
  <2>3. CASE e \notin Trail
    <3>1. CASE at = ListHead
      BY <3>1 DEF TimerCursor
    <3>2. CASE at # ListHead
      <4>1. at \in Events
        BY <1>8, <3>2 DEF TimerCursor
      <4>2. PICK C \in SUBSET Events : at \in C /\ e \notin C /\ \A x \in C : ~In(TimerList, x) /\ back[x] \in Events => back[x] \in C
        BY <2>3, <4>1 DEF Trail
      <4>3. \A x \in C : ~Has(s, x) /\ back[x] \in Events => back[x] \in C
        BY <4>2, InIsHas DEF s
      <4> QED
        BY <1>5, <1>6, <1>8, <2>1, <4>2, <4>3, TimerArmed
    <3> QED
      BY <3>1, <3>2
  <2> QED
    BY <2>2, <2>3
<1>9. due' \subseteq due /\ <<TimerList, e>> \notin due' /\ back' \in [Events -> Events \cup {ListHead, NULL, Dummy}]
  BY <1>1 DEF Inv, TypeOK
<1> QED
  BY <1>1, <1>2, <1>5, <1>6, <1>8, <1>9, TimerListKeeps DEF s

(* What BackLink says of an entry of the list of timers.                   *)
LEMMA BackLinkIs ==
  ASSUME Inv, NEW e, Has(lists[TimerList], e), e # ListHead
  PROVE  LET s == lists[TimerList]  b == BackLink(TimerList, e)
         IN  \/ b = ListHead /\ \A y : ~Precedes(s, y, e)
             \/ b \in Events \cup {Dummy} /\ b # e /\ Has(s, b) /\ \A y : Precedes(s, y, e) => y = b \/ Precedes(s, y, b)
<1> DEFINE s == lists[TimerList]
<1>1. s \in Seq(Events \cup {Dummy}) /\ Unique(s)
  BY TimersAre
<1>2. PICK i \in 1..Len(s) : s[i] = e
  BY DEF Has
<1>3. In(TimerList, e) /\ Position(TimerList, e) = i
  BY <1>1, <1>2, PositionIs
<1>4. BackLink(TimerList, e) = IF i = 1 THEN ListHead ELSE s[i - 1]
  BY <1>3 DEF BackLink
<1> HIDE DEF s
<1>5. ASSUME NEW y, Precedes(s, y, e) PROVE \E j \in 1..i - 1 : s[j] = y
  BY <1>1, <1>2, <1>5 DEF Precedes, Unique
<1>6. CASE i = 1
  <2>1. \A y : ~Precedes(s, y, e)
    BY <1>5, <1>6
  <2> QED
    BY <1>4, <1>6, <2>1 DEF s
<1>7. CASE i > 1
  <2>1. i - 1 \in 1..Len(s) /\ s[i - 1] # e /\ s[i - 1] \in Events \cup {Dummy}
    BY <1>1, <1>2, <1>7 DEF Unique
  <2>2. ASSUME NEW y, Precedes(s, y, e) PROVE y = s[i - 1] \/ Precedes(s, y, s[i - 1])
    <3>1. PICK j \in 1..i - 1 : s[j] = y
      BY <1>5, <2>2
    <3>2. j \in 1..Len(s) /\ (j = i - 1 \/ j < i - 1)
      OBVIOUS
    <3> QED
      BY <2>1, <3>1, <3>2 DEF Precedes
  <2>3. Has(s, s[i - 1])
    BY <2>1 DEF Has
  <2>4. BackLink(TimerList, e) = s[i - 1]
    BY <1>4, <1>7
  <2> QED
    BY <2>1, <2>2, <2>3, <2>4 DEF s
<1>8. i = 1 \/ i > 1
  OBVIOUS
<1> QED
  BY <1>6, <1>7, <1>8

(* CancelTimer keeps Inv.                                                  *)
LEMMA CancelKeeps ==
  ASSUME Inv, NEW e \in Events, CancelTimer(e)
  PROVE  Inv'
<1> DEFINE s == lists[TimerList]
<1> DEFINE t == RemoveFirst(s, e)
<1> DEFINE b == BackLink(TimerList, e)
<1>1. /\ Has(s, e) /\ lists' = [lists EXCEPT ![TimerList] = t] /\ due' = due \ {<<TimerList, e>>}
      /\ back' = [back EXCEPT ![e] = b] /\ UNCHANGED <<pc, list, at, inner, printed, again, freed, moved>>
  BY InIsHas DEF CancelTimer, Handler
<1>2. s \in Seq(Events \cup {Dummy}) /\ Unique(s) /\ EntriesOf(TimerList) = Events /\ (pc = "walk" => ~Has(s, Dummy))
  BY TimersAre
<1>3. t \in Seq(Events \cup {Dummy}) /\ Unique(t) /\ ~Has(t, e) /\ Same(s, t, e)
  BY <1>2, RemovedSame
<1>4. \/ b = ListHead /\ \A y : ~Precedes(s, y, e)
      \/ b \in Events \cup {Dummy} /\ b # e /\ Has(s, b) /\ \A y : Precedes(s, y, e) => y = b \/ Precedes(s, y, b)
  BY <1>1, BackLinkIs, ListsAssumption
<1> HIDE DEF b, t
<1>5. back \in [Events -> Events \cup {ListHead, NULL, Dummy}]
  BY DEF Inv, TypeOK
<1>6. back' \in [Events -> Events \cup {ListHead, NULL, Dummy}] /\ back'[e] = b /\ \A x \in Events : x # e => back'[x] = back[x]
  BY <1>1, <1>4, <1>5
<1> HIDE DEF s
<1>7. ASSUME pc = "walk", TimerCursor(s, at, due, freed, back)
      PROVE  TimerCursor(t, at, due', freed, back')
  <2>1. due' \subseteq due /\ <<TimerList, e>> \notin due' /\ ~Has(s, Dummy)
    BY <1>1, <1>2, <1>7
  <2> QED
    BY <1>1, <1>3, <1>4, <1>6, <1>7, <2>1, TimerCancelled
<1>8. due' \subseteq due /\ <<TimerList, e>> \notin due'
  BY <1>1
<1> QED
  BY <1>1, <1>2, <1>3, <1>6, <1>7, <1>8, TimerListKeeps DEF s

(* ReinstallProtocolInterface keeps Inv.                                   *)
LEMMA ReinstallKeeps ==
  ASSUME Inv, NEW h \in Handles, NEW p \in Protocols, ReinstallProtocolInterface(h, p)
  PROVE  Inv'
<1> DEFINE l == ByProtocol(p)
<1> DEFINE s == lists[l]
<1> DEFINE others == RemoveFirst(s, h)
<1> DEFINE t == Append(others, h)
<1> DEFINE T == EntriesOf(l) \cup {Dummy}
<1>1. /\ Has(lists[OnHandle(h)], p) /\ lists' = [lists EXCEPT ![l] = t] /\ moved' = moved \cup {<<l, h>>}
      /\ due' = {d \in due : d[1] = l => d[2] # h /\ ~StandsOn(l, h)}
      /\ UNCHANGED <<pc, list, at, inner, printed, again, back, freed>>
  BY InIsHas DEF ReinstallProtocolInterface, Handler
<1>2. l \in Lists /\ l \notin {HandleList, ProtocolDatabase, SignalQueue, TimerList} /\ h \in T /\ h \in Entry /\ l # NotifyOf(p)
      /\ \A g : OnHandle(g) # l
  BY ListNames DEF Entry
<1>3. s \in Seq(T) /\ Unique(s) /\ Has(s, h)
  BY <1>1, <1>2 DEF Inv, TypeOK, ListsInv
<1>4. lists'[l] = t /\ DOMAIN lists' = Lists /\ \A m \in Lists : m # l => lists'[m] = lists[m]
  BY <1>1, <1>2 DEF Inv, TypeOK
<1> HIDE DEF s, l, T
<1>5. others \in Seq(T) /\ Unique(others) /\ ~Has(others, h) /\ Same(s, others, h)
  BY <1>3, RemovedSame
<1> HIDE DEF others
<1>6. t = Inserted(others, Len(others), h) /\ Len(others) \in 0..Len(others)
  BY <1>2, <1>5, AppendIs
<1>7. t \in Seq(T) /\ Unique(t) /\ Has(t, h) /\ Same(others, t, h)
  BY <1>2, <1>5, <1>6, InsertedSame
<1>8. Same(s, t, h)
  BY <1>5, <1>7 DEF Same
<1>9. \A y : ~Precedes(t, h, y)
  <2>1. Len(t) = Len(others) + 1 /\ t[Len(t)] = h
    BY <1>5
  <2> QED
    BY <1>5, <1>7, <2>1 DEF Precedes, Unique
<1> HIDE DEF t
<1>10. <<l, h>> \notin due' /\ due' \subseteq due /\ (StandsOn(l, h) => NoneIn(l, due'))
  BY <1>1 DEF NoneIn
<1>11. Stands(l, h) => StandsOn(l, h)
  BY <1>2 DEF Stands, Inv, TypeOK
<1>12. Edited(s, t, l, h, printed, due', moved')
  BY <1>1, <1>2, <1>3, <1>8, <1>9, <1>10, <1>11 DEF Edited, Backward
<1>13. ASSUME NEW m \in Lists
       PROVE  /\ lists'[m] \in Seq(EntriesOf(m) \cup {Dummy}) /\ Unique(lists'[m])
              /\ \/ lists'[m] = lists[m]
                 \/ \E x \in Entry :
                      /\ Has(lists'[m], x) /\ Same(lists[m], lists'[m], x) /\ <<m, x>> \notin due'
                      /\ Edited(lists[m], lists'[m], m, x, printed, due', moved')
  <2>1. CASE m = l
    BY <1>2, <1>4, <1>7, <1>8, <1>10, <1>12, <2>1 DEF s, T
  <2>2. CASE m # l
    BY <1>4, <2>2 DEF Inv, TypeOK, ListsInv
  <2> QED
    BY <2>1, <2>2
<1>14. ASSUME NEW g \in Handles, NEW q \in Protocols
       PROVE  Has(lists'[OnHandle(g)], q) <=> Has(lists'[ByProtocol(q)], g)
  <2>1. lists'[OnHandle(g)] = lists[OnHandle(g)]
    BY <1>2, <1>4, ListNames
  <2>2. Has(lists'[ByProtocol(q)], g) <=> Has(lists[ByProtocol(q)], g)
    <3>1. CASE ByProtocol(q) = l
      BY <1>3, <1>4, <1>7, <1>8, <3>1 DEF Same, s
    <3>2. CASE ByProtocol(q) # l
      BY <1>4, <3>2, ListNames
    <3> QED
      BY <3>1, <3>2
  <2> QED
    BY <2>1, <2>2 DEF Inv, ListsInv
<1>15. ASSUME NEW d \in Events, Has(lists'[SignalQueue], d) PROVE <<d>> \notin freed'
  BY <1>1, <1>2, <1>4, <1>15, ListNames DEF Inv, ListsInv
<1>16. /\ freed' \in SUBSET ({<<x>> : x \in Handles \cup Events} \cup (Handles \X Protocols)) /\ freed \subseteq freed'
       /\ moved' \in SUBSET Interfaces /\ moved \subseteq moved' /\ back' \in [Events -> Events \cup {ListHead, NULL, Dummy}]
  <2>1. <<l, h>> \in Interfaces
    BY DEF Interfaces, l
  <2> QED
    BY <1>1, <2>1 DEF Inv, TypeOK
<1>17. TimerCursor(lists[TimerList], at, due, freed, back) => TimerCursor(lists'[TimerList], at, due', freed', back')
  BY <1>1, <1>2, <1>4, <1>10, TimersLeft, ListNames
<1> QED
  BY <1>1, <1>4, <1>10, <1>13, <1>14, <1>15, <1>16, <1>17, HandlersKeep

(* UninstallProtocolInterface keeps Inv.                                   *)
LEMMA UninstallKeeps ==
  ASSUME Inv, NEW h \in Handles, NEW p \in Protocols, UninstallProtocolInterface(h, p)
  PROVE  Inv'
<1> DEFINE Alone == Len(lists[OnHandle(h)]) = 1
<1>1. /\ UNCHANGED <<pc, list, at, inner, printed, again, back, moved>>
      /\ due' = due \ {<<HandleList, h>>, <<OnHandle(h), p>>, <<ByProtocol(p), h>>}
      /\ freed' = freed \cup {<<h, p>>} \cup (IF Alone THEN {<<h>>} ELSE {})
  BY DEF UninstallProtocolInterface, Handler
<1>2. /\ lists'[HandleList] = IF Alone THEN RemoveFirst(lists[HandleList], h) ELSE lists[HandleList]
      /\ lists'[OnHandle(h)] = RemoveFirst(lists[OnHandle(h)], p)
      /\ lists'[ByProtocol(p)] = RemoveFirst(lists[ByProtocol(p)], h)
      /\ DOMAIN lists' = Lists
      /\ \A l \in Lists \ {HandleList, OnHandle(h), ByProtocol(p)} : lists'[l] = lists[l]
  BY ListNames DEF UninstallProtocolInterface, Inv, TypeOK
<1>3. h \in Entry /\ p \in Entry
  BY DEF Entry
<1> DEFINE Fine(l) == lists'[l] \in Seq(EntriesOf(l) \cup {Dummy}) /\ Unique(lists'[l])
<1> DEFINE EditedBy(l, x) == l # ProtocolDatabase /\ Key(l, x) \in freed' /\ ~Has(lists'[l], x) /\ Same(lists[l], lists'[l], x) /\ <<l, x>> \notin due' /\ Edited(lists[l], lists'[l], l, x, printed, due', moved')
<1>5. ASSUME NEW l \in Lists PROVE lists[l] \in Seq(EntriesOf(l) \cup {Dummy}) /\ Unique(lists[l])
  BY DEF Inv, TypeOK, ListsInv
<1>6. Fine(HandleList) /\ (lists'[HandleList] = lists[HandleList] \/ EditedBy(HandleList, h))
  <2>1. CASE ~Alone
    BY <1>2, <1>5, <2>1, ListNames
  <2>2. CASE Alone
    <3>1. <<HandleList, h>> \notin due' /\ <<h>> \in freed' /\ Key(HandleList, h) = <<h>>
      BY <1>1, <2>2, Keys
    <3>2. moved' = moved /\ lists'[HandleList] = RemoveFirst(lists[HandleList], h)
      BY <1>1, <1>2, <2>2
    <3> HIDE DEF Alone
    <3> QED
      BY <3>1, <3>2, Left, ListNames
  <2> QED
    BY <2>1, <2>2
<1>7. Fine(OnHandle(h)) /\ EditedBy(OnHandle(h), p)
  <2>1. moved' = moved /\ <<OnHandle(h), p>> \notin due' /\ <<h, p>> \in freed' /\ Key(OnHandle(h), p) = <<h, p>>
    BY <1>1, Keys
  <2> QED
    BY <1>2, <2>1, Left, ListNames
<1>8. Fine(ByProtocol(p)) /\ EditedBy(ByProtocol(p), h)
  <2>1. moved' = moved /\ <<ByProtocol(p), h>> \notin due' /\ <<h, p>> \in freed' /\ Key(ByProtocol(p), h) = <<h, p>>
    BY <1>1, Keys
  <2> QED
    BY <1>2, <2>1, Left, ListNames
<1>10. ASSUME NEW g \in Handles, NEW q \in Protocols
       PROVE  Has(lists'[OnHandle(g)], q) <=> Has(lists'[ByProtocol(q)], g)
  <2>1. Has(lists'[OnHandle(g)], q) <=> Has(lists[OnHandle(g)], q) /\ ~(g = h /\ q = p)
    <3>1. CASE g = h
      BY <1>7, <3>1 DEF Same
    <3>2. CASE g # h
      <4>1. OnHandle(g) \in Lists \ {HandleList, OnHandle(h), ByProtocol(p)}
        BY <3>2, ListNames
      <4> QED
        BY <1>2, <3>2, <4>1
    <3> QED
      BY <3>1, <3>2
  <2>2. Has(lists'[ByProtocol(q)], g) <=> Has(lists[ByProtocol(q)], g) /\ ~(g = h /\ q = p)
    <3>1. CASE q = p
      BY <1>8, <3>1 DEF Same
    <3>2. CASE q # p
      <4>1. ByProtocol(q) \in Lists \ {HandleList, OnHandle(h), ByProtocol(p)}
        BY <3>2, ListNames
      <4> QED
        BY <1>2, <3>2, <4>1
    <3> QED
      BY <3>1, <3>2
  <2> QED
    BY <2>1, <2>2 DEF Inv, ListsInv
<1>11. ASSUME NEW e \in Events, Has(lists'[SignalQueue], e) PROVE <<e>> \notin freed'
  <2>1. <<e>> \notin freed
    BY <1>1, <1>2, <1>11, ListNames DEF Inv, ListsInv
  <2>2. <<e>> # <<h>> /\ <<e>> # <<h, p>>
    BY ListsAssumption
  <2> QED
    BY <1>1, <2>1, <2>2
<1>12. ASSUME NEW l \in Lists
       PROVE  /\ Fine(l)
              /\ lists'[l] = lists[l] \/ \E x \in Entry : EditedBy(l, x)
  BY <1>2, <1>3, <1>5, <1>6, <1>7, <1>8
<1>13. /\ freed' \in SUBSET ({<<x>> : x \in Handles \cup Events} \cup (Handles \X Protocols))
       /\ moved' \in SUBSET Interfaces /\ back' \in [Events -> Events \cup {ListHead, NULL, Dummy}]
       /\ moved \subseteq moved' /\ freed \subseteq freed'
  BY <1>1 DEF Inv, TypeOK
<1>14. due' \subseteq due /\ freed \subseteq freed'
  BY <1>1
<1>15. TimerCursor(lists[TimerList], at, due, freed, back) => TimerCursor(lists'[TimerList], at, due', freed', back')
  BY <1>1, <1>2, <1>14, TimersLeft, ListNames
<1> HIDE DEF Entry
<1> QED
  BY <1>1, <1>2, <1>10, <1>11, <1>12, <1>13, <1>14, <1>15, HandlersKeep

(* CloseEvent keeps Inv.                                                   *)
LEMMA CloseEventKeeps ==
  ASSUME Inv, NEW e \in Events, CloseEvent(e)
  PROVE  Inv'
<1> DEFINE Named(l) == l[1] \in {"gEventSignalQueue", "mEfiTimerList", "ProtocolEntry->Notify"}
<1>1. /\ UNCHANGED <<pc, list, at, inner, printed, again, back, moved>>
      /\ lists' = [l \in Lists |-> IF Named(l) THEN RemoveFirst(lists[l], e) ELSE lists[l]]
      /\ due' = {d \in due : d[2] # e} /\ freed' = freed \cup {<<e>>}
  BY DEF CloseEvent, Handler
<1>2. ASSUME NEW l \in Lists, Named(l) PROVE l # ProtocolDatabase /\ Key(l, e) = <<e>> /\ <<l, e>> \notin due'
  BY <1>1, <1>2 DEF Key, ProtocolDatabase
<1>3. ASSUME NEW l \in Lists
      PROVE  /\ lists'[l] \in Seq(EntriesOf(l) \cup {Dummy}) /\ Unique(lists'[l])
             /\ \/ lists'[l] = lists[l]
                \/ /\ ~Has(lists'[l], e) /\ Same(lists[l], lists'[l], e) /\ l # ProtocolDatabase /\ Key(l, e) \in freed'
                   /\ <<l, e>> \notin due' /\ Edited(lists[l], lists'[l], l, e, printed, due', moved')
  <2>1. CASE Named(l)
    <3>1. <<e>> \in freed'
      BY <1>1
    <3>2. lists'[l] = RemoveFirst(lists[l], e)
      BY <1>1, <2>1
    <3> QED
      BY <1>1, <1>2, <2>1, <3>1, <3>2, Left
  <2>2. CASE ~Named(l)
    BY <1>1, <2>2 DEF Inv, TypeOK, ListsInv
  <2> QED
    BY <2>1, <2>2
<1>4. ASSUME NEW g \in Handles, NEW q \in Protocols
      PROVE  Has(lists'[OnHandle(g)], q) <=> Has(lists'[ByProtocol(q)], g)
  <2>1. ~Named(OnHandle(g)) /\ ~Named(ByProtocol(q))
    BY DEF OnHandle, ByProtocol
  <2>2. lists'[OnHandle(g)] = lists[OnHandle(g)] /\ lists'[ByProtocol(q)] = lists[ByProtocol(q)]
    BY <1>1, <2>1, ListNames
  <2> QED
    BY <2>2 DEF Inv, ListsInv
<1>5. ASSUME NEW d \in Events, Has(lists'[SignalQueue], d) PROVE <<d>> \notin freed'
  <2>1. Named(SignalQueue)
    BY DEF SignalQueue
  <2>2. d # e
    <3>1. lists'[SignalQueue] = RemoveFirst(lists[SignalQueue], e)
      BY <1>1, <2>1, ListNames
    <3>2. <<SignalQueue, e>> \notin due'
      BY <1>2, <2>1, ListNames
    <3>3. ~Has(lists'[SignalQueue], e)
      BY <3>1, <3>2, Left, ListNames
    <3> QED
      BY <1>5, <3>3
  <2>3. Has(lists[SignalQueue], d)
    BY <1>3, <1>5, <2>2, ListNames DEF Same
  <2>4. <<d>> \notin freed
    BY <2>3 DEF Inv, ListsInv
  <2> QED
    BY <1>1, <2>2, <2>4
<1>6. /\ freed' \in SUBSET ({<<x>> : x \in Handles \cup Events} \cup (Handles \X Protocols)) /\ freed \subseteq freed' /\ due' \subseteq due
      /\ moved' \in SUBSET Interfaces /\ moved \subseteq moved' /\ back' \in [Events -> Events \cup {ListHead, NULL, Dummy}]
  BY <1>1 DEF Inv, TypeOK
<1>7. e \in Entry /\ DOMAIN lists' = Lists
  BY <1>1 DEF Entry
<1>8. ASSUME TimerCursor(lists[TimerList], at, due, freed, back) PROVE TimerCursor(lists'[TimerList], at, due', freed', back')
  <2>1. Named(TimerList) /\ TimerList \in Lists
    BY ListNames DEF TimerList
  <2>2. lists'[TimerList] = RemoveFirst(lists[TimerList], e) /\ <<TimerList, e>> \notin due' /\ <<e>> \in freed' /\ back' = back
    BY <1>1, <1>2, <2>1
  <2>3. Same(lists[TimerList], lists'[TimerList], e) /\ ~Has(lists'[TimerList], e)
    BY <2>1, <2>2, Left
  <2> QED
    BY <1>6, <1>8, <2>2, <2>3, TimerClosed
<1> QED
  BY <1>1, <1>3, <1>4, <1>5, <1>6, <1>7, <1>8, HandlersKeep

-----------------------------------------------------------------------------
(* The application.  What another list's walk prints and has due does not  *)
(* move a walk.                                                            *)
LEMMA CursorElsewhere ==
  ASSUME NEW s, NEW l, NEW c, NEW P, NEW D, NEW M, NEW P2, NEW D2, Cursor(s, l, c, P, D, M),
         \A y \in Entry \cup {ListHead} : <<l, y>> \in P <=> <<l, y>> \in P2,
         \A y \in Entry : <<l, y>> \in D2 => <<l, y>> \in D
  PROVE  Cursor(s, l, c, P2, D2, M)
BY DEF Cursor

(* Outside of the walks nothing is due.                                    *)
LEMMA NoneDue ==
  ASSUME Inv, pc \notin {"walk", "freed", "null"}
  PROVE  due = {} /\ inner = <<>>
BY DEF Inv, StageInv, ListsShown, NothingMissed

(* While a list is walked, entries that are due may be on it.              *)
LEMMA NoneMissed == (\A d \in due : pc \in {"walk", "freed", "null"} /\ d[1] = list) => NothingMissed
BY DEF NothingMissed

(* Steps outside of the walks.                                             *)
LEMMA MovesKeep ==
  ASSUME Inv, pc \notin {"walk", "freed", "null"}, pc' \in Stops \ {"walk"},
         list' \in {HandleList, ProtocolDatabase, SignalQueue, TimerList},
         UNCHANGED <<lists, back, inner, printed, again, due, moved, freed>>, StageInv',
         \A l \in Lists : Has(lists[l], Dummy) => l = list' /\ pc' \in {"find", "closeDummy", "freed"}
  PROVE  Inv'
<1>1. due = {} /\ inner = <<>>
  BY NoneDue
<1>2. TypeOK'
  BY <1>1 DEF Inv, TypeOK, InnerShape
<1>3. ListsInv'
  BY DEF Inv, ListsInv
<1>4. WalkInv'
  BY <1>1 DEF WalkInv
<1>5. GoneInv'
  BY DEF Inv, GoneInv
<1>6. ListsShown'
  BY <1>1 DEF Inv, ListsShown, NothingMissed, ShownOnce, DummyUnlisted
<1> QED
  BY <1>2, <1>3, <1>4, <1>5, <1>6 DEF Inv

(* The walk of the handle list or of the protocol database begins.         *)
LEMMA WalkBegins ==
  ASSUME Inv, due = {}, NEW l \in {HandleList, ProtocolDatabase}, Walk(l), inner = <<>>,
         UNCHANGED <<lists, back, printed, again, moved, freed>>,
         Unprinted(l), Unprinted(SignalQueue), l = HandleList => Unprinted(ProtocolDatabase),
         \A m \in Lists : ~Has(lists[m], Dummy)
  PROVE  Inv'
<1>1. pc' = "walk" /\ list' = l /\ at' = ListHead /\ inner' = <<>> /\ due' = Entries(l)
  BY DEF Walk, Goto
<1>2. l \in Lists /\ l # TimerList /\ l # SignalQueue
  BY ListNames
<1>3. ASSUME NEW i \in 1..Len(lists[l]) PROVE lists[l][i] \in Entry
  <2>1. lists[l] \in Seq(EntriesOf(l) \cup {Dummy})
    BY <1>2 DEF Inv, TypeOK
  <2>2. lists[l][i] # Dummy
    BY <1>2 DEF Has
  <2> QED
    BY <1>2, <2>1, <2>2, EntryTypes
<1>4. due' \in SUBSET (Lists \X Entry)
  BY <1>1, <1>2, <1>3 DEF Entries
<1>5. \A m, y : <<m, y>> \in due' => m = l /\ Has(lists[l], y)
  BY <1>1 DEF Entries, Has
<1>6. TypeOK'
  BY <1>1, <1>4 DEF Inv, TypeOK, InnerShape, Stops
<1>7. ListsInv'
  BY DEF Inv, ListsInv
<1>8. StageInv'
  BY <1>1, <1>2 DEF Inv, StageInv, Unprinted
<1>9. Cursor(lists[l], l, ListHead, printed, due', moved)
  BY <1>2, <1>5 DEF Cursor, Ahead, Unprinted
<1>10. WalkInv'
  BY <1>1, <1>2, <1>9 DEF WalkInv, Standing
<1>11. GoneInv'
  BY <1>5 DEF Inv, GoneInv
<1>12. ListsShown'
  BY <1>1, <1>5, <1>4 DEF Inv, ListsShown, NothingMissed, ShownOnce, DummyUnlisted
<1> QED
  BY <1>6, <1>7, <1>8, <1>10, <1>11, <1>12 DEF Inv

(* DummyEvent is on a list only during a search for its head.              *)
LEMMA NoDummy ==
  ASSUME Inv, pc \notin {"find", "closeDummy", "freed"} \/ list \notin Backward, NEW l \in Lists
  PROVE  ~Has(lists[l], Dummy)
BY DEF Inv, ListsInv

(* GetLoadedImage keeps Inv.                                               *)
LEMMA GetLoadedImageKeeps == ASSUME Inv, GetLoadedImage PROVE Inv'
<1>1. pc = "images" /\ pc' \in {"find", "done"} /\ list' = list /\ UNCHANGED <<lists, back, inner, printed, again, due, moved, freed>>
  BY DEF GetLoadedImage, Goto
<1>2. list = HandleList /\ printed = {} /\ inner = <<>>
  BY <1>1, NoneDue DEF Inv, StageInv
<1>3. \A l \in Lists : ~Has(lists[l], Dummy)
  BY <1>1, NoDummy
<1>4. StageInv'
  BY <1>1, <1>2, ListNames DEF Inv, StageInv, Unprinted
<1> QED
  BY <1>1, <1>2, <1>3, <1>4, MovesKeep DEF Stops

(* Find keeps Inv.                                                         *)
LEMMA FindKeeps == ASSUME Inv, Find PROVE Inv'
<1>1. pc = "find" /\ UNCHANGED <<lists, back, printed, again, moved, freed>> /\ due = {} /\ inner = <<>>
  BY NoneDue DEF Find
<1>2. list \in {HandleList, ProtocolDatabase, SignalQueue, TimerList}
  BY DEF Inv, TypeOK
<1>3. \/ at' = ForwardLink(list, at) /\ UNCHANGED <<pc, list, inner, heads, due>>
      \/ \E found : AfterFind(found)
  BY DEF Find
<1>4. CASE at' = ForwardLink(list, at) /\ UNCHANGED <<pc, list, inner, heads, due>>
  <2>1. StageInv'
    BY <1>1, <1>4 DEF Inv, StageInv, Unprinted
  <2>2. \A l \in Lists : Has(lists[l], Dummy) => l = list' /\ pc' \in {"find", "closeDummy", "freed"}
    BY <1>4 DEF Inv, ListsInv
  <2> QED
    BY <1>1, <1>2, <1>4, <2>1, <2>2, MovesKeep DEF Stops
<1>5. ASSUME NEW found, AfterFind(found) PROVE Inv'
  <2>1. CASE list = HandleList
    <3>1. pc' = "firstProtocol" /\ UNCHANGED <<list, at, inner, due>>
      BY <1>5, <2>1, ListNames DEF AfterFind, Goto
    <3>2. StageInv'
      BY <1>1, <2>1, <3>1, ListNames DEF Inv, StageInv, Unprinted
    <3>3. \A l \in Lists : ~Has(lists[l], Dummy)
      BY <2>1, NoDummy, ListNames DEF Backward
    <3> QED
      BY <1>1, <1>2, <3>1, <3>2, <3>3, MovesKeep DEF Stops
  <2>2. CASE list = ProtocolDatabase
    <3>1. printed = {}
      BY <1>1, <2>2 DEF Inv, StageInv
    <3>2. \A l \in Lists : ~Has(lists[l], Dummy)
      BY <2>2, NoDummy, ListNames DEF Backward
    <3>3. CASE Walk(HandleList)
      BY <1>1, <3>1, <3>2, <3>3, WalkBegins DEF Unprinted
    <3>4. CASE Goto("done", list) /\ UNCHANGED <<at, inner, due>>
      <4>1. pc' = "done" /\ list' = list
        BY <3>4 DEF Goto
      <4>2. StageInv'
        BY <1>1, <3>1, <3>4, <4>1 DEF Inv, StageInv, Unprinted
      <4> QED
        BY <1>1, <1>2, <3>2, <3>4, <4>1, <4>2, MovesKeep DEF Stops
    <3> QED
      BY <1>5, <2>2, <3>3, <3>4, ListNames DEF AfterFind
  <2>3. CASE list \in Backward
    <3>1. pc' = "closeDummy" /\ UNCHANGED <<list, at, inner, due>>
      BY <1>5, <2>3, ListNames DEF AfterFind, Goto, Backward
    <3>2. StageInv'
      BY <1>1, <2>3, <3>1, ListNames DEF Inv, StageInv, Unprinted, Backward
    <3>3. \A l \in Lists : Has(lists[l], Dummy) => l = list' /\ pc' \in {"find", "closeDummy", "freed"}
      BY <3>1 DEF Inv, ListsInv
    <3> QED
      BY <1>1, <1>2, <3>1, <3>2, <3>3, MovesKeep DEF Stops
  <2> QED
    BY <1>2, <2>1, <2>2, <2>3 DEF Backward
<1> QED
  BY <1>3, <1>4, <1>5

(* FirstProtocol keeps Inv.                                                *)
LEMMA FirstProtocolKeeps == ASSUME Inv, FirstProtocol PROVE Inv'
<1>1. pc = "firstProtocol" /\ UNCHANGED <<lists, back, printed, again, moved, freed>> /\ due = {} /\ inner = <<>>
      /\ list = HandleList /\ printed = {}
  BY NoneDue DEF FirstProtocol, Inv, StageInv
<1>2. \A l \in Lists : ~Has(lists[l], Dummy)
  BY <1>1, NoDummy
<1>3. \/ Walk(HandleList)
      \/ Goto("done", list) /\ UNCHANGED <<at, inner, due>>
      \/ Goto("find", ProtocolDatabase) /\ UNCHANGED <<inner, due>>
  BY DEF FirstProtocol
<1>4. CASE Walk(HandleList)
  BY <1>1, <1>2, <1>4, WalkBegins DEF Unprinted
<1>5. CASE (Goto("done", list) \/ Goto("find", ProtocolDatabase)) /\ UNCHANGED <<inner, due>>
  <2>1. pc' \in {"done", "find"} /\ list' \in {HandleList, ProtocolDatabase}
    BY <1>1, <1>5 DEF Goto
  <2>2. StageInv'
    BY <1>1, <1>5, <2>1, ListNames DEF Inv, StageInv, Unprinted
  <2> QED
    BY <1>1, <1>2, <1>5, <2>1, <2>2, MovesKeep DEF Stops
<1> QED
  BY <1>3, <1>4, <1>5

(* A walk that ends has nothing due.  It is at the head, in its list, or   *)
(* at a timer that left the list as the first.                             *)
LEMMA EndOfWalk ==
  ASSUME Inv, NEW l \in Lists, NEW c, Standing(l, c), Readable(l, c), Link(l, c) = ListHead,
         l = TimerList => (\A y \in Entry : <<l, y>> \in due => Has(lists[l], y)) /\ ~Has(lists[l], Dummy)
  PROVE  NoneIn(l, due)
<1>1. lists[l] \in Seq(EntriesOf(l) \cup {Dummy}) /\ Unique(lists[l]) /\ ListHead \notin EntriesOf(l) \cup {Dummy}
  BY EntryTypes DEF Inv, TypeOK, ListsInv
<1>2. CASE c = ListHead \/ Has(lists[l], c)
  <2>1. \A y : ~Ahead(lists[l], l, c, y)
    BY <1>1, <1>2, LinkIs DEF Follows
  <2>2. CASE l # TimerList
    BY <1>2, <2>1, <2>2 DEF Standing, Cursor, NoneIn
  <2>3. CASE l = TimerList /\ c = ListHead
    BY <2>1, <2>3 DEF Ahead, NoneIn
  <2>4. CASE l = TimerList /\ c # ListHead
    <3>1. PICK C \in SUBSET Events : c \in C /\ Trailing(C, lists[l], c, due, freed, back)
      BY <2>4 DEF Standing, TimerCursor
    <3>2. \A y \in Entry : <<l, y>> \in due => Precedes(lists[l], y, c)
      BY <1>2, <2>4, <3>1 DEF Trailing
    <3> QED
      BY <2>1, <2>4, <3>2 DEF Ahead, Backward, NoneIn
  <2> QED
    BY <2>2, <2>3, <2>4
<1>3. CASE c # ListHead /\ ~Has(lists[l], c)
  <2>1. l = TimerList /\ c \in Events /\ <<c>> \notin freed
    BY <1>3, InIsHas DEF Readable
  <2>2. back[c] = ListHead
    BY <1>3, <2>1, InIsHas DEF Link, BackLink
  <2>3. PICK C \in SUBSET Events : c \in C /\ Trailing(C, lists[l], c, due, freed, back)
    BY <1>3, <2>1 DEF Standing, TimerCursor
  <2>4. ListHead \notin C
    BY <2>3, ListsAssumption
  <2> QED
    BY <1>3, <2>1, <2>2, <2>3, <2>4 DEF Trailing
<1> QED
  BY <1>2, <1>3

(* The next entry of another list than the timers' is on the list and was  *)
(* not printed, or was entered again.                                      *)
LEMMA WalkGoesOn ==
  ASSUME Inv, NEW l \in Lists, NEW c, l # TimerList, Cursor(lists[l], l, c, printed, due, moved), Readable(l, c), Link(l, c) # ListHead,
         ~Has(lists[l], Dummy)
  PROVE  LET n == Link(l, c)
         IN  /\ n \in EntriesOf(l) /\ n \in Entry /\ Has(lists[l], n)
             /\ Cursor(lists[l], l, n, printed \cup {<<l, n>>}, due \ {<<l, n>>}, moved)
             /\ <<l, n>> \notin printed \/ <<l, n>> \in moved
<1>1. lists[l] \in Seq(EntriesOf(l) \cup {Dummy}) /\ Unique(lists[l]) /\ ListHead \notin EntriesOf(l) \cup {Dummy}
  BY EntryTypes DEF Inv, TypeOK, ListsInv
<1>2. c = ListHead \/ Has(lists[l], c)
  BY InIsHas DEF Readable
<1>3. Follows(lists[l], l, c, Link(l, c))
  BY <1>1, <1>2, LinkIs
<1>4. Has(lists[l], Link(l, c)) /\ Link(l, c) # Dummy
  BY <1>3 DEF Follows
<1>5. Link(l, c) \in EntriesOf(l)
  BY <1>1, <1>4 DEF Has
<1> QED
  BY <1>2, <1>3, <1>4, <1>5, CursorShown, EntryTypes

(* The next timer is the one before, or the one that a timer out of the    *)
(* list names: a timer of the trail.                                       *)
LEMMA TimersGoOn ==
  ASSUME Inv, pc = "walk", NEW c, TimerCursor(lists[TimerList], c, due, freed, back), Readable(TimerList, c),
         Link(TimerList, c) # ListHead, Readable(TimerList, Link(TimerList, c))
  PROVE  LET n == Link(TimerList, c)
         IN  n \in Events /\ TimerCursor(lists[TimerList], n, due \ {<<TimerList, n>>}, freed, back)
<1> DEFINE s == lists[TimerList]
<1> DEFINE n == Link(TimerList, c)
<1> DEFINE D2 == due \ {<<TimerList, n>>}
<1>1. s \in Seq(Events \cup {Dummy}) /\ Unique(s) /\ ~Has(s, Dummy)
  BY TimersAre
<1>2. \A y \in Entry : <<TimerList, y>> \in due => Has(s, y)
  BY ListNames DEF Inv, GoneInv
<1>3. CASE c = ListHead \/ Has(s, c)
  <2>1. Follows(s, TimerList, c, n)
    BY <1>1, <1>3, LinkIs, ListsAssumption, EntryTypes
  <2>2. Has(s, n) /\ n # ListHead
    BY <2>1 DEF Follows
  <2>3. n \in Events
    BY <1>1, <2>2 DEF Has
  <2>4. \A y \in Entry : <<TimerList, y>> \in due => Ahead(s, TimerList, c, y)
    <3>1. CASE c = ListHead
      BY <1>2, <3>1 DEF Ahead
    <3>2. CASE c # ListHead
      <4>1. PICK C \in SUBSET Events : c \in C /\ Trailing(C, s, c, due, freed, back)
        BY <3>2 DEF TimerCursor
      <4> QED
        BY <1>3, <3>2, <4>1 DEF Trailing, Ahead, Backward
    <3> QED
      BY <3>1, <3>2
  <2>5. \A y \in Entry : <<TimerList, y>> \in D2 => Precedes(s, y, n)
    BY <2>1, <2>2, <2>4 DEF Follows, Ahead, Backward
  <2> HIDE DEF D2, n, s
  <2>6. Trailing({n}, s, n, D2, freed, back)
    BY <2>2, <2>5 DEF Trailing
  <2>7. TimerCursor(s, n, D2, freed, back)
    BY <2>3, <2>6 DEF TimerCursor
  <2> QED
    BY <2>3, <2>7 DEF D2, n, s
<1>4. CASE c # ListHead /\ ~Has(s, c)
  <2>1. c \in Events /\ <<c>> \notin freed
    BY <1>4, InIsHas DEF Readable
  <2>2. n = back[c]
    BY <1>4, <2>1, InIsHas DEF Link, BackLink
  <2>3. PICK C \in SUBSET Events : c \in C /\ Trailing(C, s, c, due, freed, back)
    BY <1>4 DEF TimerCursor
  <2>4. n \in C
    BY <1>4, <2>1, <2>2, <2>3 DEF Trailing
  <2> HIDE DEF n, s
  <2>5. ASSUME NEW x \in C, Has(s, x), NEW y \in Entry, <<TimerList, y>> \in D2
        PROVE  Precedes(s, y, x) \/ (y = x /\ x # n)
    BY <2>3, <2>5 DEF Trailing
  <2>6. ASSUME NEW x \in C, ~Has(s, x), <<x>> \notin freed
        PROVE  back[x] \in C \/ (back[x] = ListHead /\ NoneIn(TimerList, D2))
    BY <2>3, <2>6 DEF Trailing, NoneIn
  <2> HIDE DEF D2
  <2>7. Trailing(C, s, n, D2, freed, back)
    BY <2>5, <2>6 DEF Trailing
  <2>8. TimerCursor(s, n, D2, freed, back)
    BY <2>4, <2>7 DEF TimerCursor
  <2> QED
    BY <2>4, <2>8 DEF D2, n, s
<1> QED
  BY <1>3, <1>4

(* What printing an entry of list l leaves as it was.                      *)
LEMMA ShowKeeps ==
  ASSUME Inv, pc = "walk", NEW l \in Lists, NEW n \in Entry, Show(l, n), moved' = moved,
         l # TimerList => <<l, n>> \notin printed \/ <<l, n>> \in moved
  PROVE  /\ printed' = printed \cup {<<l, n>>} /\ due' = due \ {<<l, n>>}
         /\ printed' \in SUBSET (Lists \X Entry) /\ again' \in SUBSET (Lists \X Entry) /\ due' \in SUBSET (Lists \X Entry)
         /\ ShownOnce' /\ DummyUnlisted'
<1>1. printed' = printed \cup {<<l, n>>} /\ due' = due \ {<<l, n>>} /\ again' \subseteq again \cup {<<l, n>>}
      /\ (<<l, n>> \notin printed => again' = again)
  BY DEF Show
<1>2. printed' \in SUBSET (Lists \X Entry) /\ again' \in SUBSET (Lists \X Entry) /\ due' \in SUBSET (Lists \X Entry)
  BY <1>1 DEF Inv, TypeOK
<1>3. ShownOnce'
  <2>1. CASE l = TimerList
    BY <1>1, <2>1 DEF Inv, ListsShown, ShownOnce
  <2>2. CASE l # TimerList
    BY <1>1, <2>2 DEF Inv, ListsShown, ShownOnce
  <2> QED
    BY <2>1, <2>2
<1>4. DummyUnlisted'
  BY <1>2, EntryTypes DEF DummyUnlisted
<1> QED
  BY <1>1, <1>2, <1>3, <1>4

(* Only the list of the walk is due between two of its entries.            *)
LEMMA DumpEndKeeps == ASSUME Inv, DumpEnd PROVE Inv'
<1>1. pc = "walk" /\ inner = <<>> /\ Readable(list, at) /\ Link(list, at) = ListHead
      /\ UNCHANGED <<lists, back, printed, again, moved, freed>>
  BY DEF DumpEnd
<1>2. list \in Lists /\ list \in {HandleList, ProtocolDatabase, SignalQueue, TimerList}
  BY ListNames DEF Inv, TypeOK
<1>3. due = {}
  <2>1. \A y \in Entry : <<list, y>> \notin due
    BY <1>1, <1>2, EndOfWalk, NoDummy DEF Inv, WalkInv, GoneInv, NoneIn
  <2>2. \A d \in due : d[1] = list /\ d \in Lists \X Entry
    BY <1>1 DEF Inv, TypeOK, ListsShown, NothingMissed
  <2> QED
    BY <2>1, <2>2
<1>4. \A l \in Lists : ~Has(lists[l], Dummy)
  BY <1>1, NoDummy
<1>5. CASE list = HandleList
  <2>1. Walk(ProtocolDatabase)
    BY <1>5, ListNames DEF DumpEnd
  <2>2. Unprinted(ProtocolDatabase) /\ Unprinted(SignalQueue)
    BY <1>1, <1>5 DEF Inv, StageInv
  <2> QED
    BY <1>1, <1>3, <1>4, <2>1, <2>2, WalkBegins, ListNames
<1>6. CASE list # HandleList
  <2>1. pc' \in {"createSignal", "createTimer", "done"} /\ (pc' = "createSignal" => list = ProtocolDatabase)
        /\ UNCHANGED <<list, at, inner, due>>
    BY <1>2, <1>6, ListNames DEF DumpEnd, Goto
  <2>2. TypeOK'
    BY <1>1, <2>1 DEF Inv, TypeOK, InnerShape, Stops
  <2>3. ListsInv'
    BY <1>1, <1>4 DEF Inv, ListsInv
  <2>4. StageInv'
    BY <1>1, <2>1, ListNames DEF Inv, StageInv, Unprinted
  <2>5. WalkInv' /\ GoneInv'
    BY <1>1, <2>1 DEF Inv, WalkInv, GoneInv
  <2>6. ListsShown'
    BY <1>1, <1>3, <2>1 DEF Inv, ListsShown, NothingMissed, ShownOnce, DummyUnlisted
  <2> QED
    BY <2>2, <2>3, <2>4, <2>5, <2>6 DEF Inv
<1> QED
  BY <1>5, <1>6

(* DumpEntry keeps Inv.                                                    *)
LEMMA DumpEntryKeeps == ASSUME Inv, DumpEntry PROVE Inv'
<1> DEFINE n == Link(list, at)
<1>1. /\ pc = "walk" /\ inner = <<>> /\ Readable(list, at) /\ n # ListHead /\ Readable(list, n) /\ at' = n /\ Show(list, n)
      /\ UNCHANGED <<lists, back, pc, list, moved, freed>>
  BY DEF DumpEntry
<1>2. list \in Lists /\ list \in {HandleList, ProtocolDatabase, SignalQueue, TimerList}
  BY ListNames DEF Inv, TypeOK
<1>3. ~Has(lists[list], Dummy) /\ Standing(list, at)
  BY <1>1, <1>2, NoDummy DEF Inv, WalkInv
<1>4. /\ n \in EntriesOf(list) /\ n \in Entry
      /\ IF list = TimerList
           THEN TimerCursor(lists[list], n, due \ {<<list, n>>}, freed, back)
           ELSE Has(lists[list], n) /\ Cursor(lists[list], list, n, printed \cup {<<list, n>>}, due \ {<<list, n>>}, moved)
      /\ list # TimerList => <<list, n>> \notin printed
  <2>1. CASE list # TimerList
    <3>1. <<list, n>> \notin moved
      BY <1>2, ListNames DEF Inv, TypeOK, Interfaces
    <3> QED
      BY <1>1, <1>2, <1>3, <2>1, <3>1, WalkGoesOn DEF Standing
  <2>2. CASE list = TimerList
    BY <1>1, <1>3, <2>2, TimersGoOn, ListNames DEF Standing, Entry
  <2> QED
    BY <2>1, <2>2
<1>5. /\ printed' = printed \cup {<<list, n>>} /\ due' = due \ {<<list, n>>}
      /\ printed' \in SUBSET (Lists \X Entry) /\ again' \in SUBSET (Lists \X Entry) /\ due' \in SUBSET (Lists \X Entry)
      /\ ShownOnce' /\ DummyUnlisted'
  BY <1>1, <1>2, <1>4, ShowKeeps
<1>6. inner' = CASE list = HandleList -> <<Round(OnHandle(n), NULL)>>
                 [] list = ProtocolDatabase -> <<Round(ByProtocol(n), NULL), Round(NotifyOf(n), NULL)>>
                 [] OTHER -> <<>>
  <2>1. inner' = [i \in 1..Len(InnerOf(list, n)) |-> Round(InnerOf(list, n)[i], NULL)]
    BY <1>1 DEF DumpEntry, Round
  <2> HIDE DEF n
  <2>2. CASE list = HandleList
    <3>4. list # ProtocolDatabase
      BY <2>2, ListNames
    <3>1. InnerOf(list, n) = <<OnHandle(n)>>
      BY <2>2, <3>4 DEF InnerOf
    <3>2. inner' = [i \in 1..1 |-> Round(<<OnHandle(n)>>[i], NULL)]
      BY <2>1, <3>1
    <3>3. inner' = <<Round(OnHandle(n), NULL)>>
      BY <3>2
    <3> QED
      BY <2>2, <3>4, <3>3
  <2>3. CASE list = ProtocolDatabase
    <3>1. list # HandleList
      BY <2>3, ListNames
    <3>2. InnerOf(list, n) = <<ByProtocol(n), NotifyOf(n)>>
      BY <2>3, <3>1 DEF InnerOf
    <3>3. inner' = [i \in 1..2 |-> Round(<<ByProtocol(n), NotifyOf(n)>>[i], NULL)]
      BY <2>1, <3>2
    <3>4. inner' = <<Round(ByProtocol(n), NULL), Round(NotifyOf(n), NULL)>>
      BY <3>3
    <3> QED
      BY <2>3, <3>1, <3>4
  <2>4. CASE list \notin {HandleList, ProtocolDatabase}
    BY <2>1, <2>4 DEF InnerOf
  <2> QED
    BY <2>2, <2>3, <2>4
<1> HIDE DEF n
<1>7. InnerShape'
  BY <1>1, <1>2, <1>4, <1>6, ListNames DEF InnerShape
<1>8. TypeOK'
  BY <1>1, <1>5, <1>7 DEF Inv, TypeOK
<1>9. ListsInv'
  BY <1>1 DEF Inv, ListsInv
<1>10. StageInv'
  <2>1. \A m : m # list /\ (\A y \in Entry : <<m, y>> \notin printed) => \A y \in Entry : <<m, y>> \notin printed'
    BY <1>5
  <2>2. <<list', at'>> \in printed'
    BY <1>1, <1>5
  <2>3. inner' # <<>> => pc' = "walk"
    BY <1>1
  <2>4. pc' = "walk" /\ list' = HandleList => (\A y \in Entry : <<ProtocolDatabase, y>> \notin printed')
    BY <1>1, <2>1, ListNames DEF Inv, StageInv, Unprinted
  <2>5. pc' = "walk" /\ list' \in {HandleList, ProtocolDatabase} => (\A y \in Entry : <<SignalQueue, y>> \notin printed')
    BY <1>1, <2>1, ListNames DEF Inv, StageInv, Unprinted
  <2>6. ASSUME NEW h \in Handles, ~(\A y \in Entry : <<OnHandle(h), y>> \notin printed') PROVE <<HandleList, h>> \in printed'
    BY <1>2, <1>5, <2>1, <2>6, ListNames DEF Inv, StageInv, Unprinted
  <2>7. ASSUME NEW p \in Protocols,
               ~(\A y \in Entry : <<ByProtocol(p), y>> \notin printed') \/ ~(\A y \in Entry : <<NotifyOf(p), y>> \notin printed')
        PROVE  <<ProtocolDatabase, p>> \in printed'
    BY <1>2, <1>5, <2>1, <2>7, ListNames DEF Inv, StageInv, Unprinted
  <2> QED
    BY <1>1, <2>2, <2>3, <2>4, <2>5, <2>6, <2>7 DEF StageInv, Unprinted
<1>11. \A y : \A m : <<m, y>> \in due => m = list
  BY <1>1 DEF Inv, ListsShown, NothingMissed
<1>12. WalkInv'
  <2>1. Standing(list, at)'
    BY <1>1, <1>4, <1>5 DEF Standing
  <2>2. inner' # <<>> => inner'[1].at = NULL
    BY <1>6 DEF Round
  <2>3. ASSUME NEW k \in 1..Len(inner')
        PROVE  (\A y \in Entry : <<inner'[k].list, y>> \notin printed') /\ \A y \in Entry : <<inner'[k].list, y>> \notin due'
    <3>1. CASE list = HandleList
      <4>1. k = 1 /\ inner'[k].list = OnHandle(n) /\ n \in Handles
        BY <1>4, <1>6, <2>3, <3>1, ListNames DEF Round
      <4>2. \A y \in Entry : <<OnHandle(n), y>> \notin printed
        BY <1>4, <3>1, <4>1, ListNames DEF Inv, StageInv, Unprinted
      <4> QED
        BY <1>5, <1>11, <3>1, <4>1, <4>2, ListNames
    <3>2. CASE list = ProtocolDatabase
      <4>1. inner'[k].list \in {ByProtocol(n), NotifyOf(n)} /\ n \in Protocols
        BY <1>4, <1>6, <2>3, <3>2, ListNames DEF Round
      <4>2. \A y \in Entry : <<ByProtocol(n), y>> \notin printed /\ <<NotifyOf(n), y>> \notin printed
        BY <1>4, <3>2, <4>1, ListNames DEF Inv, StageInv, Unprinted
      <4> QED
        BY <1>5, <1>11, <3>2, <4>1, <4>2, ListNames
    <3>3. CASE list \notin {HandleList, ProtocolDatabase}
      BY <1>6, <2>3, <3>3
    <3> QED
      BY <3>1, <3>2, <3>3
  <2> QED
    BY <2>1, <2>2, <2>3 DEF WalkInv, Unprinted
<1>13. GoneInv'
  BY <1>1, <1>4, <1>5 DEF Inv, GoneInv
<1>14. NothingMissed'
  BY <1>1, <1>5 DEF Inv, ListsShown, NothingMissed
<1> QED
  BY <1>5, <1>8, <1>9, <1>10, <1>12, <1>13, <1>14 DEF Inv, ListsShown

(* The lists below an entry are no other walk's.                           *)
LEMMA InnerLists ==
  ASSUME Inv, pc = "walk", inner # <<>>
  PROVE  /\ list \in Lists /\ inner[1].list \in Lists /\ inner[1].list # list
         /\ inner[1].list \notin {HandleList, ProtocolDatabase, SignalQueue, TimerList}
         /\ list \in {HandleList, ProtocolDatabase}
         /\ inner[1].at \in Entry \cup {ListHead, NULL}
         /\ \/ inner = <<inner[1]>>
            \/ inner = <<inner[1], Round(NotifyOf(at), NULL)>> /\ inner[1].list # NotifyOf(at) /\ NotifyOf(at) # list
BY ListNames DEF Inv, TypeOK, InnerShape, Round

(* A round of an inner list leaves the other inner list alone.             *)
LEMMA InnerKept ==
  ASSUME Inv, pc = "walk", inner # <<>>, NEW a \in Entry \cup {ListHead}, inner' = [inner EXCEPT ![1].at = a]
  PROVE  /\ inner'[1].list = inner[1].list /\ inner'[1].at = a /\ inner' # <<>> /\ Len(inner') = Len(inner)
         /\ \A k \in 1..Len(inner) : k # 1 => inner'[k] = inner[k] /\ inner'[k].at = NULL /\ inner'[k].list # inner[1].list
         /\ UNCHANGED <<list, at>> => InnerShape'
<1>1. a \in Entry \cup {ListHead, NULL}
  OBVIOUS
<1> DEFINE Kept ==
      /\ inner'[1].list = inner[1].list /\ inner'[1].at = a /\ inner' # <<>> /\ Len(inner') = Len(inner)
      /\ \A k \in 1..Len(inner) : k # 1 => inner'[k] = inner[k] /\ inner'[k].at = NULL /\ inner'[k].list # inner[1].list
<1>2. ASSUME NEW l, NEW b, inner = <<Round(l, b)>>
      PROVE  Kept /\ inner' = <<Round(l, a)>>
  <2>1. inner' = <<Round(l, a)>>
    BY <1>2 DEF Round
  <2>2. Len(inner) = 1 /\ Len(inner') = 1 /\ inner[1] = Round(l, b) /\ inner'[1] = Round(l, a) /\ inner' # <<>>
    BY <1>2, <2>1
  <2> QED
    BY <2>1, <2>2 DEF Round
<1>3. ASSUME NEW l, NEW b, NEW m, l # m, inner = <<Round(l, b), Round(m, NULL)>>
      PROVE  Kept /\ inner' = <<Round(l, a), Round(m, NULL)>>
  <2>1. inner' = <<Round(l, a), Round(m, NULL)>>
    BY <1>3 DEF Round
  <2>2. /\ Len(inner) = 2 /\ Len(inner') = 2 /\ inner' # <<>>
        /\ inner[1] = Round(l, b) /\ inner'[1] = Round(l, a) /\ inner[2] = Round(m, NULL) /\ inner'[2] = Round(m, NULL)
    BY <1>3, <2>1
  <2>3. \A k \in 1..Len(inner) : k # 1 => k = 2
    BY <2>2
  <2> QED
    BY <1>3, <2>1, <2>2, <2>3 DEF Round
<1> HIDE DEF Kept
<1>4. CASE list = HandleList /\ at \in Handles /\ \E b \in Entry \cup {ListHead, NULL} : inner = <<Round(OnHandle(at), b)>>
  <2>1. Kept /\ inner' = <<Round(OnHandle(at), a)>>
    BY <1>2, <1>4
  <2>2. UNCHANGED <<list, at>> => InnerShape'
    BY <1>1, <1>4, <2>1 DEF InnerShape
  <2> QED
    BY <2>1, <2>2 DEF Kept
<1>5. CASE list = ProtocolDatabase /\ at \in Protocols
           /\ \E b \in Entry \cup {ListHead, NULL} : inner = <<Round(ByProtocol(at), b), Round(NotifyOf(at), NULL)>>
  <2>1. ByProtocol(at) # NotifyOf(at)
    BY DEF ByProtocol, NotifyOf
  <2>2. Kept /\ inner' = <<Round(ByProtocol(at), a), Round(NotifyOf(at), NULL)>>
    BY <1>3, <1>5, <2>1
  <2>3. UNCHANGED <<list, at>> => InnerShape'
    BY <1>1, <1>5, <2>2 DEF InnerShape
  <2> QED
    BY <2>2, <2>3 DEF Kept
<1>6. CASE list = ProtocolDatabase /\ at \in Protocols /\ \E b \in Entry \cup {ListHead, NULL} : inner = <<Round(NotifyOf(at), b)>>
  <2>1. Kept /\ inner' = <<Round(NotifyOf(at), a)>>
    BY <1>2, <1>6
  <2>2. UNCHANGED <<list, at>> => InnerShape'
    BY <1>1, <1>6, <2>1 DEF InnerShape
  <2> QED
    BY <2>1, <2>2 DEF Kept
<1> QED
  BY <1>4, <1>5, <1>6 DEF Inv, TypeOK, InnerShape

(* DumpInnerBegin keeps Inv.                                               *)
LEMMA DumpInnerBeginKeeps == ASSUME Inv, DumpInnerBegin PROVE Inv'
<1> DEFINE m == inner[1].list
<1>1. /\ pc = "walk" /\ inner # <<>> /\ inner[1].at = NULL /\ inner' = [inner EXCEPT ![1].at = ListHead]
      /\ due' = due \cup Entries(m) /\ UNCHANGED <<lists, back, pc, list, at, printed, again, moved, freed>>
  BY DEF DumpInnerBegin
<1>2. m \in Lists /\ m # list /\ m \notin {HandleList, ProtocolDatabase, SignalQueue, TimerList} /\ list \in Lists
  BY <1>1, InnerLists
<1>3. /\ inner'[1].list = m /\ inner'[1].at = ListHead /\ inner' # <<>> /\ Len(inner') = Len(inner)
      /\ \A k \in 1..Len(inner) : k # 1 => inner'[k] = inner[k] /\ inner'[k].at = NULL /\ inner'[k].list # m
      /\ InnerShape'
  BY <1>1, InnerKept
<1>4. ~Has(lists[m], Dummy) /\ Unprinted(m)
  <2>1. 1 \in 1..Len(inner)
    BY <1>1, InnerLists
  <2> QED
    BY <1>1, <1>2, <2>1, NoDummy DEF Inv, WalkInv
<1>5. due' \in SUBSET (Lists \X Entry) /\ \A l, y : <<l, y>> \in due' => <<l, y>> \in due \/ (l = m /\ Has(lists[m], y))
  <2>1. \A d \in Entries(m) : \E i \in 1..Len(lists[m]) : d = <<m, lists[m][i]>>
    BY DEF Entries
  <2>2. ASSUME NEW i \in 1..Len(lists[m]) PROVE lists[m][i] \in Entry /\ Has(lists[m], lists[m][i])
    <3>1. lists[m] \in Seq(EntriesOf(m) \cup {Dummy})
      BY <1>2 DEF Inv, TypeOK
    <3>2. lists[m][i] # Dummy /\ Has(lists[m], lists[m][i])
      BY <1>4 DEF Has
    <3> QED
      BY <1>2, <3>1, <3>2, EntryTypes
  <2> HIDE DEF m
  <2>3. \A d \in Entries(m) : \E y \in Entry : d = <<m, y>> /\ Has(lists[m], y)
    BY <2>1, <2>2
  <2> QED
    BY <1>1, <1>2, <2>3 DEF Inv, TypeOK
<1> HIDE DEF m
<1>6. TypeOK'
  BY <1>1, <1>3, <1>5 DEF Inv, TypeOK
<1>7. ListsInv'
  BY <1>1 DEF Inv, ListsInv
<1>8. StageInv'
  BY <1>1 DEF Inv, StageInv, Unprinted
<1>9. WalkInv'
  <2>1. Standing(list, at)'
    <3>1. list # TimerList /\ Cursor(lists[list], list, at, printed, due, moved)
      BY <1>1, InnerLists, ListNames DEF Inv, WalkInv, Standing
    <3>2. \A y \in Entry : <<list, y>> \in due' => <<list, y>> \in due
      BY <1>2, <1>5
    <3>3. Cursor(lists[list], list, at, printed, due', moved)
      BY <3>1, <3>2, CursorElsewhere
    <3> QED
      BY <1>1, <3>1, <3>3 DEF Standing
  <2>2. Cursor(lists'[inner'[1].list], inner'[1].list, inner'[1].at, printed', due', moved')
    <3>1. \A y \in Entry : <<m, y>> \in due' => Has(lists[m], y)
      BY <1>2, <1>5 DEF Inv, GoneInv
    <3>2. Cursor(lists[m], m, ListHead, printed, due', moved)
      BY <1>2, <1>4, <3>1 DEF Cursor, Ahead, Unprinted
    <3> QED
      BY <1>1, <1>3, <3>2
  <2>3. ASSUME NEW k \in 1..Len(inner'), inner'[k].at = NULL
        PROVE  (\A y \in Entry : <<inner'[k].list, y>> \notin printed') /\ \A y \in Entry : <<inner'[k].list, y>> \notin due'
    <3>1. k # 1
      BY <1>3, <2>3, ListsAssumption
    <3>2. k \in 1..Len(inner) /\ inner'[k] = inner[k] /\ inner'[k].list # m
      BY <1>3, <3>1
    <3> QED
      BY <1>1, <1>5, <2>3, <3>2 DEF Inv, WalkInv, Unprinted
  <2> QED
    BY <2>1, <2>2, <2>3 DEF WalkInv, Unprinted
<1>10. GoneInv'
  BY <1>1, <1>5 DEF Inv, GoneInv
<1>11. NothingMissed'
  <2>1. ASSUME NEW d \in due' PROVE d[1] = list \/ \E k \in 1..Len(inner') : inner'[k].list = d[1]
    <3>1. CASE d \in due
      <4>1. d[1] = list \/ \E k \in 1..Len(inner) : inner[k].list = d[1]
        BY <3>1 DEF Inv, ListsShown, NothingMissed
      <4>2. \A k \in 1..Len(inner) : inner'[k].list = inner[k].list
        BY <1>3 DEF m
      <4> QED
        BY <1>3, <4>1, <4>2
    <3>2. CASE d \notin due
      <4>1. d = <<d[1], d[2]>>
        BY <1>5
      <4>2. d[1] = m
        BY <1>5, <3>2, <4>1
      <4>3. 1 \in 1..Len(inner')
        BY <1>1, <1>3, InnerLists
      <4> QED
        BY <1>3, <4>2, <4>3
    <3> QED
      BY <3>1, <3>2
  <2> QED
    BY <1>1, <2>1 DEF NothingMissed
<1>12. ShownOnce' /\ DummyUnlisted'
  BY <1>1 DEF Inv, ListsShown, ShownOnce, DummyUnlisted
<1> QED
  BY <1>6, <1>7, <1>8, <1>9, <1>10, <1>11, <1>12 DEF Inv, ListsShown

(* DumpInner keeps Inv.                                                    *)
LEMMA DumpInnerKeeps == ASSUME Inv, DumpInner PROVE Inv'
<1> DEFINE m == inner[1].list
<1> DEFINE n == Link(m, inner[1].at)
<1>1. /\ pc = "walk" /\ inner # <<>> /\ inner[1].at # NULL /\ Readable(m, inner[1].at)
      /\ UNCHANGED <<lists, back, pc, list, at, moved, freed>>
  BY DEF DumpInner
<1>2. m \in Lists /\ m # list /\ m \notin {HandleList, ProtocolDatabase, SignalQueue, TimerList} /\ list \in Lists
  BY <1>1, InnerLists
<1>3. Cursor(lists[m], m, inner[1].at, printed, due, moved) /\ ~Has(lists[m], Dummy)
  BY <1>1, <1>2, NoDummy DEF Inv, WalkInv
<1>4. list # TimerList /\ Cursor(lists[list], list, at, printed, due, moved)
  BY <1>1, InnerLists, ListNames DEF Inv, WalkInv, Standing
<1>5. CASE n = ListHead
  <2>1. inner' = Tail(inner) /\ UNCHANGED <<printed, again, due>>
    BY <1>5 DEF DumpInner
  <2>2. \A y \in Entry : <<m, y>> \notin due
    BY <1>1, <1>2, <1>3, <1>5, EndOfWalk DEF Standing, NoneIn
  <2>3. inner' = <<>> \/ (inner' = <<Round(NotifyOf(at), NULL)>> /\ list = ProtocolDatabase /\ at \in Protocols /\ Len(inner) = 2 /\ inner[2] = Round(NotifyOf(at), NULL))
    <3>1. \A r : Tail(<<r>>) = <<>>
      OBVIOUS
    <3>2. \A r, q : Tail(<<r, q>>) = <<q>> /\ Len(<<r, q>>) = 2 /\ <<r, q>>[2] = q
      OBVIOUS
    <3>3. InnerShape
      BY DEF Inv, TypeOK
    <3> HIDE DEF m, n
    <3> QED
      BY <1>1, <2>1, <3>1, <3>2, <3>3 DEF InnerShape
  <2>4. InnerShape'
    BY <1>1, <2>3 DEF InnerShape
  <2>5. TypeOK'
    BY <1>1, <2>1, <2>4 DEF Inv, TypeOK
  <2>6. ListsInv'
    BY <1>1 DEF Inv, ListsInv
  <2>7. StageInv'
    BY <1>1, <2>1 DEF Inv, StageInv, Unprinted
  <2>8. ASSUME NEW k \in 1..Len(inner')
        PROVE  k = 1 /\ inner'[k] = Round(NotifyOf(at), NULL) /\ Len(inner) = 2 /\ inner[2] = Round(NotifyOf(at), NULL)
    BY <2>3, <2>8
  <2>9. WalkInv'
    <3>1. inner' # <<>> => inner'[1].at = NULL
      BY <2>3 DEF Round
    <3>2. ASSUME NEW k \in 1..Len(inner')
          PROVE  (\A y \in Entry : <<inner'[k].list, y>> \notin printed') /\ \A y \in Entry : <<inner'[k].list, y>> \notin due'
      <4>1. 2 \in 1..Len(inner) /\ inner[2].at = NULL /\ inner'[k].list = inner[2].list
        BY <2>8 DEF Round
      <4> QED
        BY <2>1, <4>1 DEF Inv, WalkInv, Unprinted
    <3> QED
      BY <1>1, <1>4, <2>1, <3>1, <3>2 DEF WalkInv, Unprinted, Standing
  <2>10. GoneInv'
    BY <1>1, <2>1 DEF Inv, GoneInv
  <2>11. NothingMissed'
    <3>1. ASSUME NEW d \in due PROVE d[1] = list
      <4>1. d = <<d[1], d[2]>> /\ d[2] \in Entry
        BY DEF Inv, TypeOK
      <4>2. d[1] # m
        BY <2>2, <4>1
      <4>3. ASSUME NEW k \in 1..Len(inner), inner[k].list = d[1] PROVE FALSE
        <5>1. k = 1 \/ inner[k].at = NULL
          BY <1>1, InnerLists DEF Round
        <5> QED
          BY <4>1, <4>2, <4>3, <5>1 DEF Inv, WalkInv
      <4> QED
        BY <4>3 DEF Inv, ListsShown, NothingMissed
    <3> QED
      BY <1>1, <2>1, <3>1, NoneMissed DEF NothingMissed
  <2>12. ShownOnce' /\ DummyUnlisted'
    BY <1>1, <2>1 DEF Inv, ListsShown, ShownOnce, DummyUnlisted
  <2> QED
    BY <2>5, <2>6, <2>7, <2>9, <2>10, <2>11, <2>12 DEF Inv, ListsShown
<1>6. CASE n # ListHead
  <2>1. inner' = [inner EXCEPT ![1].at = n] /\ Show(m, n)
    BY <1>6 DEF DumpInner
  <2>2. /\ n \in EntriesOf(m) /\ n \in Entry /\ Has(lists[m], n)
        /\ Cursor(lists[m], m, n, printed \cup {<<m, n>>}, due \ {<<m, n>>}, moved)
        /\ <<m, n>> \notin printed \/ <<m, n>> \in moved
    BY <1>1, <1>2, <1>3, <1>6, WalkGoesOn
  <2>3. /\ printed' = printed \cup {<<m, n>>} /\ due' = due \ {<<m, n>>}
        /\ printed' \in SUBSET (Lists \X Entry) /\ again' \in SUBSET (Lists \X Entry) /\ due' \in SUBSET (Lists \X Entry)
        /\ ShownOnce' /\ DummyUnlisted'
    BY <1>1, <1>2, <2>1, <2>2, ShowKeeps
  <2>4. /\ inner'[1].list = m /\ inner'[1].at = n /\ inner' # <<>> /\ Len(inner') = Len(inner)
        /\ \A k \in 1..Len(inner) : k # 1 => inner'[k] = inner[k] /\ inner'[k].at = NULL /\ inner'[k].list # m
        /\ InnerShape'
    BY <1>1, <2>1, <2>2, InnerKept
  <2> HIDE DEF n
  <2>5. TypeOK'
    BY <1>1, <2>3, <2>4 DEF Inv, TypeOK
  <2>6. ListsInv'
    BY <1>1 DEF Inv, ListsInv
  <2>7. StageInv'
    <3>1. \A l : l # m /\ (\A y \in Entry : <<l, y>> \notin printed) => \A y \in Entry : <<l, y>> \notin printed'
      BY <2>3
    <3>2. <<list, at>> \in printed
      BY <1>1 DEF Inv, StageInv
    <3>3. \A h \in Handles : m = OnHandle(h) => list = HandleList /\ at = h
      <4>1. m = OnHandle(at) \/ m = ByProtocol(at) \/ m = NotifyOf(at)
        BY <1>1 DEF Inv, TypeOK, InnerShape, Round
      <4>2. m = OnHandle(at) => list = HandleList
        BY <1>1, ListNames DEF Inv, TypeOK, InnerShape, Round
      <4> QED
        BY <4>1, <4>2 DEF OnHandle, ByProtocol, NotifyOf
    <3>4. \A p \in Protocols : m = ByProtocol(p) \/ m = NotifyOf(p) => list = ProtocolDatabase /\ at = p
      BY <1>1, ListNames DEF Inv, TypeOK, InnerShape, Round
    <3>5. ASSUME NEW h \in Handles, ~(\A y \in Entry : <<OnHandle(h), y>> \notin printed') PROVE <<HandleList, h>> \in printed'
      BY <2>3, <3>1, <3>2, <3>3, <3>5 DEF Inv, StageInv, Unprinted
    <3>6. ASSUME NEW p \in Protocols,
                 ~(\A y \in Entry : <<ByProtocol(p), y>> \notin printed') \/ ~(\A y \in Entry : <<NotifyOf(p), y>> \notin printed')
          PROVE  <<ProtocolDatabase, p>> \in printed'
      BY <2>3, <3>1, <3>2, <3>4, <3>6 DEF Inv, StageInv, Unprinted
    <3>7. pc' = "walk" /\ list' = HandleList => (\A y \in Entry : <<ProtocolDatabase, y>> \notin printed')
      BY <1>1, <1>2, <3>1 DEF Inv, StageInv, Unprinted
    <3>8. pc' = "walk" /\ list' \in {HandleList, ProtocolDatabase} => (\A y \in Entry : <<SignalQueue, y>> \notin printed')
      BY <1>1, <1>2, <3>1 DEF Inv, StageInv, Unprinted
    <3> QED
      BY <1>1, <2>3, <3>2, <3>5, <3>6, <3>7, <3>8 DEF StageInv, Unprinted
  <2>8. WalkInv'
    <3>1. Standing(list, at)'
      <4>1. \A y \in Entry \cup {ListHead} : <<list, y>> \in printed <=> <<list, y>> \in printed'
        BY <1>2, <2>3
      <4>2. \A y \in Entry : <<list, y>> \in due' => <<list, y>> \in due
        BY <2>3
      <4>3. Cursor(lists[list], list, at, printed', due', moved)
        BY <1>4, <4>1, <4>2, CursorElsewhere
      <4> QED
        BY <1>1, <1>4, <4>3 DEF Standing
    <3>2. Cursor(lists'[inner'[1].list], inner'[1].list, inner'[1].at, printed', due', moved')
      BY <1>1, <2>2, <2>3, <2>4
    <3>3. ASSUME NEW k \in 1..Len(inner'), inner'[k].at = NULL
          PROVE  (\A y \in Entry : <<inner'[k].list, y>> \notin printed') /\ \A y \in Entry : <<inner'[k].list, y>> \notin due'
      <4>1. k # 1
        BY <2>2, <2>4, <3>3, EntryTypes
      <4>2. k \in 1..Len(inner) /\ inner'[k] = inner[k] /\ inner'[k].list # m
        BY <2>4, <4>1
      <4> HIDE DEF m
      <4> QED
        BY <2>3, <3>3, <4>2 DEF Inv, WalkInv, Unprinted
    <3> QED
      BY <3>1, <3>2, <3>3 DEF WalkInv, Unprinted
  <2>9. GoneInv'
    <3>1. \A l, y : <<l, y>> \in printed' => <<l, y>> \in printed \/ (l = m /\ y = n)
      BY <2>3
    <3>2. due' \subseteq due
      BY <2>3
    <3> HIDE DEF m
    <3> QED
      BY <1>1, <2>2, <3>1, <3>2 DEF Inv, GoneInv
  <2>10. NothingMissed'
    <3>1. \A k \in 1..Len(inner) : inner'[k].list = inner[k].list
      BY <2>4
    <3>2. \A d \in due : d[1] = list \/ \E k \in 1..Len(inner) : inner[k].list = d[1]
      BY DEF Inv, ListsShown, NothingMissed
    <3>3. due' \subseteq due
      BY <2>3
    <3> QED
      BY <1>1, <2>4, <3>1, <3>2, <3>3 DEF NothingMissed
  <2> QED
    BY <2>3, <2>5, <2>6, <2>7, <2>8, <2>9, <2>10 DEF Inv, ListsShown
<1> QED
  BY <1>5, <1>6

(* DumpNull keeps Inv.                                                     *)
LEMMA DumpNullKeeps == ASSUME Inv, DumpNull PROVE Inv'
<1>1. pc = "walk" /\ pc' = "null" /\ UNCHANGED <<lists, back, list, at, inner, printed, again, due, moved, freed>>
  BY DEF DumpNull
<1>2. TypeOK'
  BY <1>1 DEF Inv, TypeOK, InnerShape, Stops
<1>3. ListsInv'
  BY <1>1 DEF Inv, ListsInv
<1>4. StageInv'
  BY <1>1 DEF Inv, StageInv, Unprinted
<1>5. WalkInv'
  BY <1>1 DEF Inv, WalkInv, Unprinted
<1>6. GoneInv' /\ ListsShown'
  BY <1>1 DEF Inv, GoneInv, ListsShown, NothingMissed, ShownOnce, DummyUnlisted
<1> QED
  BY <1>2, <1>3, <1>4, <1>5, <1>6 DEF Inv

(* ReadFreed keeps Inv.                                                    *)
LEMMA ReadFreedKeeps == ASSUME Inv, ReadFreed PROVE Inv'
<1>1. pc \in {"find", "walk"} /\ pc' = "freed" /\ UNCHANGED <<lists, back, list, at, inner, printed, again, due, moved, freed>>
  BY DEF ReadFreed
<1>2. TypeOK'
  BY <1>1 DEF Inv, TypeOK, InnerShape, Stops
<1>3. ListsInv'
  BY <1>1 DEF Inv, ListsInv
<1>4. StageInv'
  BY <1>1 DEF Inv, StageInv, Unprinted
<1>5. WalkInv'
  BY <1>1 DEF Inv, WalkInv, Unprinted
<1>6. GoneInv'
  BY <1>1 DEF Inv, GoneInv
<1>7. ListsShown'
  BY <1>1 DEF Inv, ListsShown, NothingMissed, ShownOnce, DummyUnlisted
<1> QED
  BY <1>2, <1>3, <1>4, <1>5, <1>6, <1>7 DEF Inv

-----------------------------------------------------------------------------
(* DummyEvent is entered in a list, or is not, and leaves it.              *)
LEMMA CreateDummyKeeps == ASSUME Inv, NEW l, NEW k \in Nat, k <= Len(lists[l]), CreateDummy(l, k) PROVE Inv'
<1>1. /\ l \in Backward /\ pc \in {"createSignal", "createTimer"} /\ (pc = "createSignal" => l = SignalQueue) /\ (pc = "createTimer" => l = TimerList)
      /\ lists' = [lists EXCEPT ![l] = Inserted(@, k, Dummy)]
      /\ pc' = "find" /\ list' = l /\ UNCHANGED <<back, inner, printed, again, due, moved, freed>>
  BY DEF CreateDummy, Goto, Backward
<1>2. due = {} /\ inner = <<>>
  BY <1>1, NoneDue
<1>3. l \in Lists /\ \A m \in Lists : ~Has(lists[m], Dummy)
  BY <1>1, NoDummy, ListNames DEF Backward
<1>4. /\ lists'[l] \in Seq(EntriesOf(l) \cup {Dummy}) /\ Unique(lists'[l]) /\ Same(lists[l], lists'[l], Dummy)
      /\ DOMAIN lists' = Lists /\ \A m \in Lists : m # l => lists'[m] = lists[m]
  <2>1. lists[l] \in Seq(EntriesOf(l) \cup {Dummy}) /\ Unique(lists[l]) /\ Dummy \in EntriesOf(l) \cup {Dummy} /\ k \in 0..Len(lists[l])
    BY <1>3 DEF Inv, TypeOK, ListsInv
  <2>2. LET t == Inserted(lists[l], k, Dummy)
        IN  t \in Seq(EntriesOf(l) \cup {Dummy}) /\ Unique(t) /\ Same(lists[l], t, Dummy)
    BY <1>3, <2>1, InsertedSame
  <2>3. lists'[l] = Inserted(lists[l], k, Dummy) /\ DOMAIN lists' = Lists /\ \A m \in Lists : m # l => lists'[m] = lists[m]
    BY <1>1, <1>3 DEF Inv, TypeOK
  <2> QED
    BY <2>2, <2>3
<1>5. \A m \in Lists, y \in Entry : Has(lists'[m], y) <=> Has(lists[m], y)
  BY <1>4, EntryTypes DEF Same
<1>6. TypeOK'
  BY <1>1, <1>2, <1>4 DEF Inv, TypeOK, InnerShape, Stops, Backward
<1>7. ListsInv'
  <2>1. ASSUME NEW m \in Lists, Has(lists'[m], Dummy) PROVE m = l
    BY <1>3, <1>4, <2>1
  <2>2. ASSUME NEW h \in Handles, NEW p \in Protocols PROVE Has(lists'[OnHandle(h)], p) <=> Has(lists'[ByProtocol(p)], h)
    BY <1>5, ListNames DEF Inv, ListsInv, Entry
  <2>3. ASSUME NEW e \in Events PROVE Has(lists'[SignalQueue], e) => <<e>> \notin freed'
    BY <1>1, <1>5, ListNames DEF Inv, ListsInv, Entry
  <2>4. \A m \in Lists : Unique(lists'[m])
    BY <1>4 DEF Inv, ListsInv
  <2> QED
    BY <1>1, <2>1, <2>2, <2>3, <2>4 DEF ListsInv
<1>8. StageInv'
  BY <1>1, <1>2, ListNames DEF Inv, StageInv, Unprinted, Backward
<1>9. WalkInv'
  BY <1>1, <1>2 DEF WalkInv
<1>10. GoneInv'
  BY <1>1, <1>2, <1>5 DEF Inv, GoneInv
<1>11. ListsShown'
  BY <1>1, <1>2 DEF Inv, ListsShown, NothingMissed, ShownOnce, DummyUnlisted
<1> QED
  BY <1>6, <1>7, <1>8, <1>9, <1>10, <1>11 DEF Inv

(* CreateSignalFails and CreateTimerFails keep Inv.                        *)
LEMMA CreateFailsKeeps == ASSUME Inv, CreateSignalFails \/ CreateTimerFails PROVE Inv'
<1>1. /\ pc \in {"createSignal", "createTimer"} /\ pc' \in {"createTimer", "done"} /\ list' = list
      /\ UNCHANGED <<lists, back, at, inner, printed, again, due, moved, freed>>
  BY DEF CreateSignalFails, CreateTimerFails, Goto
<1>2. list' \in {HandleList, ProtocolDatabase, SignalQueue, TimerList}
  BY <1>1 DEF Inv, TypeOK
<1>3. \A l \in Lists : ~Has(lists[l], Dummy)
  BY <1>1, NoDummy
<1>4. StageInv'
  BY <1>1 DEF Inv, StageInv, Unprinted
<1> QED
  BY <1>1, <1>2, <1>3, <1>4, MovesKeep DEF Stops

(* CloseDummy keeps Inv.                                                   *)
LEMMA CloseDummyKeeps == ASSUME Inv, CloseDummy PROVE Inv'
<1>1. /\ pc = "closeDummy" /\ lists' = [lists EXCEPT ![list] = RemoveFirst(@, Dummy)]
      /\ pc' \in {"walk", "done"} /\ list' = list /\ UNCHANGED <<back, inner, printed, again, moved, freed>>
      /\ pc' = "walk" => at' = ListHead /\ due' = due \cup (Entries(list) \ {<<list, Dummy>>})
      /\ pc' = "done" => UNCHANGED <<at, due>>
  BY DEF CloseDummy, ClosedDummy, Goto
<1>2. due = {} /\ inner = <<>>
  BY <1>1, NoneDue
<1>3. list \in Lists /\ list \in Backward /\ list \in {HandleList, ProtocolDatabase, SignalQueue, TimerList}
  BY <1>1, ListNames DEF Inv, TypeOK, StageInv, Backward
<1>4. /\ lists'[list] \in Seq(EntriesOf(list) \cup {Dummy}) /\ Unique(lists'[list]) /\ Same(lists[list], lists'[list], Dummy)
      /\ ~Has(lists'[list], Dummy) /\ DOMAIN lists' = Lists /\ \A m \in Lists : m # list => lists'[m] = lists[m]
  <2>1. lists[list] \in Seq(EntriesOf(list) \cup {Dummy}) /\ Unique(lists[list])
    BY <1>3 DEF Inv, TypeOK, ListsInv
  <2>2. LET t == RemoveFirst(lists[list], Dummy)
        IN  t \in Seq(EntriesOf(list) \cup {Dummy}) /\ Unique(t) /\ ~Has(t, Dummy) /\ Same(lists[list], t, Dummy)
    BY <2>1, RemovedSame
  <2>3. lists'[list] = RemoveFirst(lists[list], Dummy) /\ DOMAIN lists' = Lists /\ \A m \in Lists : m # list => lists'[m] = lists[m]
    BY <1>1, <1>3 DEF Inv, TypeOK
  <2> QED
    BY <2>2, <2>3
<1>5. \A m \in Lists, y \in Entry : Has(lists'[m], y) <=> Has(lists[m], y)
  BY <1>4, EntryTypes DEF Same
<1>6. \A m \in Lists : ~Has(lists'[m], Dummy)
  BY <1>4 DEF Inv, ListsInv
<1>7. due' \in SUBSET (Lists \X Entry) /\ \A m, y : <<m, y>> \in due' => pc' = "walk" /\ m = list /\ Has(lists'[list], y)
  <2>1. ASSUME NEW d \in Entries(list), d # <<list, Dummy>> PROVE \E y \in Entry : d = <<list, y>> /\ Has(lists[list], y)
    <3>1. PICK i \in 1..Len(lists[list]) : d = <<list, lists[list][i]>>
      BY DEF Entries
    <3>2. lists[list] \in Seq(EntriesOf(list) \cup {Dummy})
      BY <1>3 DEF Inv, TypeOK
    <3>3. lists[list][i] \in Entry
      BY <1>3, <2>1, <3>1, <3>2, EntryTypes
    <3> QED
      BY <3>1, <3>3 DEF Has
  <2>2. ASSUME NEW d \in due' PROVE pc' = "walk" /\ \E y \in Entry : d = <<list, y>> /\ Has(lists'[list], y)
    BY <1>1, <1>2, <1>3, <1>5, <2>1
  <2> QED
    BY <1>3, <2>2
<1>8. TypeOK'
  BY <1>1, <1>2, <1>4, <1>7 DEF Inv, TypeOK, InnerShape, Stops
<1>9. ListsInv'
  <2>1. ASSUME NEW h \in Handles, NEW p \in Protocols PROVE Has(lists'[OnHandle(h)], p) <=> Has(lists'[ByProtocol(p)], h)
    BY <1>5, ListNames DEF Inv, ListsInv, Entry
  <2>2. ASSUME NEW e \in Events PROVE Has(lists'[SignalQueue], e) => <<e>> \notin freed'
    BY <1>1, <1>5, ListNames DEF Inv, ListsInv, Entry
  <2>3. \A m \in Lists : Unique(lists'[m])
    BY <1>4 DEF Inv, ListsInv
  <2> QED
    BY <1>6, <2>1, <2>2, <2>3 DEF ListsInv
<1>10. StageInv'
  BY <1>1, <1>2, <1>3, ListNames DEF Inv, StageInv, Unprinted, Backward
<1>11. WalkInv'
  <2>1. list = SignalQueue => Unprinted(list)
    BY <1>1 DEF Inv, StageInv
  <2>2. list # TimerList => list = SignalQueue
    BY <1>3 DEF Backward
  <2>3. list # TimerList => Cursor(lists'[list], list, ListHead, printed, due', moved)
    BY <1>7, <2>1, <2>2 DEF Cursor, Ahead, Unprinted
  <2>4. pc' = "walk" => Standing(list, at)'
    BY <1>1, <2>3 DEF Standing, TimerCursor
  <2> QED
    BY <1>1, <1>2, <2>4 DEF WalkInv
<1>12. GoneInv'
  BY <1>1, <1>5, <1>7 DEF Inv, GoneInv
<1>13. ListsShown'
  <2>1. \A d \in due' : pc' = "walk" /\ d[1] = list
    BY <1>7
  <2> QED
    BY <1>1, <2>1 DEF Inv, ListsShown, NothingMissed, ShownOnce, DummyUnlisted
<1> QED
  BY <1>8, <1>9, <1>10, <1>11, <1>12, <1>13 DEF Inv

-----------------------------------------------------------------------------
(* The application starts with nothing printed on well formed lists.       *)
LEMMA InitInv == Init => Inv
<1> SUFFICES ASSUME Init PROVE Inv
  OBVIOUS
<1>1. /\ WellFormed(lists) /\ back = [e \in Events |-> NULL] /\ pc = "images" /\ list = HandleList
      /\ inner = <<>> /\ printed = {} /\ again = {} /\ due = {} /\ moved = {} /\ freed = {}
  BY ListsAssumption DEF Init
<1>2. \A l \in Lists : lists[l] \in Seq(EntriesOf(l)) /\ Unique(lists[l])
  BY <1>1 DEF WellFormed, IsInjective, Unique
<1>3. \A l \in Lists : lists[l] \in Seq(EntriesOf(l) \cup {Dummy}) /\ ~Has(lists[l], Dummy)
  <2>1. ASSUME NEW l \in Lists PROVE lists[l] \in Seq(EntriesOf(l) \cup {Dummy}) /\ ~Has(lists[l], Dummy)
    <3>1. lists[l] \in Seq(EntriesOf(l)) /\ Dummy \notin EntriesOf(l)
      BY <1>2, EntryTypes
    <3> QED
      BY <3>1 DEF Has
  <2> QED
    BY <2>1
<1>4. TypeOK
  BY <1>1, <1>3 DEF TypeOK, InnerShape, Stops, WellFormed
<1>5. ListsInv
  BY <1>1, <1>2, <1>3 DEF ListsInv, WellFormed, Has
<1>6. StageInv
  BY <1>1, ListNames DEF StageInv, Unprinted
<1>7. WalkInv /\ GoneInv /\ ListsShown
  BY <1>1 DEF WalkInv, GoneInv, ListsShown, NothingMissed, ShownOnce, DummyUnlisted
<1> QED
  BY <1>4, <1>5, <1>6, <1>7 DEF Inv

(* Every step of the application and of an event handler keeps Inv.        *)
LEMMA StepInv == Inv /\ [Next]_vars => Inv'
<1> SUFFICES ASSUME Inv, [Next]_vars PROVE Inv'
  OBVIOUS
<1>1. CASE UNCHANGED vars
  <2>1. UNCHANGED <<lists, back, pc, list, at, inner, printed, again, due, moved, freed>>
    BY <1>1 DEF vars
  <2> QED
    BY <2>1 DEF Inv, TypeOK, InnerShape, ListsInv, StageInv, Unprinted, WalkInv, Standing, GoneInv, ListsShown, NothingMissed, ShownOnce, DummyUnlisted
<1>2. CASE App
  <2>1. ASSUME NEW l, NEW k \in 0..Cardinality(Events), k <= Len(lists[l]), CreateDummy(l, k) PROVE Inv'
    BY <2>1, CreateDummyKeeps
  <2> QED
    BY <1>2, <2>1, GetLoadedImageKeeps, FindKeeps, FirstProtocolKeeps, DumpEntryKeeps, DumpEndKeeps, DumpInnerBeginKeeps, DumpInnerKeeps,
       DumpNullKeeps, ReadFreedKeeps, CreateFailsKeeps, CloseDummyKeeps DEF App
<1>3. CASE Handlers
  <2>1. ASSUME NEW h \in Handles, NEW p \in Protocols, InstallProtocolInterface(h, p) \/ UninstallProtocolInterface(h, p) \/ ReinstallProtocolInterface(h, p)
        PROVE  Inv'
    BY <2>1, InstallKeeps, UninstallKeeps, ReinstallKeeps
  <2>2. ASSUME NEW e \in Events, NEW p \in Protocols, RegisterProtocolNotify(p, e) PROVE Inv'
    BY <2>2, RegisterKeeps
  <2>3. ASSUME NEW e \in Events, CreateEvent(e) \/ CancelTimer(e) \/ CloseEvent(e) PROVE Inv'
    BY <2>3, CreateEventKeeps, CancelKeeps, CloseEventKeeps
  <2>4. ASSUME NEW e \in Events, NEW k \in 0..Cardinality(Events), SetTimer(e, k) PROVE Inv'
    BY <2>4, SetTimerKeeps
  <2> QED
    BY <1>3, <2>1, <2>2, <2>3, <2>4 DEF Handlers
<1> QED
  BY <1>1, <1>2, <1>3 DEF Next

(* The invariant of the dump: well formed lists, cursors that have all     *)
(* that is due ahead of them, and ListsShown.                              *)
THEOREM DumpInvariant == Spec => []Inv
<1>1. Init => Inv
  BY InitInv
<1>2. Inv /\ [Next]_vars => Inv'
  BY StepInv
<1> QED
  BY <1>1, <1>2, PTL DEF Spec

(* Whatever lists the platform has, and however often event handlers       *)
(* install, remove or move their entries between two steps of the          *)
(* application, DumpHandleList, DumpProtocolDatabase, DumpEventSignalQueue *)
(* and DumpEventTimerList miss no entry that is left alone but those past  *)
(* which a handler moves the entry that a walk stands on, print none twice *)
(* but timers and interfaces entered again, and never print DummyEvent.    *)
THEOREM DxeListsShown == Spec => []ListsShown
<1>1. Inv => ListsShown
  BY DEF Inv
<1> QED
  BY <1>1, DumpInvariant, PTL
=============================================================================
