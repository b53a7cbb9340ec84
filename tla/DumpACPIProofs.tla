--------------------------- MODULE DumpACPIProofs ---------------------------
(***************************************************************************)
(* Proofs about DumpACPI, for all machines, command lines and libraries:   *)
(* what is dumped, and what the .aml files hold.                           *)
(***************************************************************************)
EXTENDS DumpACPI, FiniteSetTheorems, SequenceTheorems, WellFoundedInduction, TLAPS

(* Induction on the natural numbers, for a set.                            *)
LEMMA Induction ==
  ASSUME NEW S, 0 \in S, \A n \in Nat : n \in S => n + 1 \in S
  PROVE  Nat \subseteq S
<1> DEFINE T == Nat \ S
<1> DEFINE R == OpToRel(<, Nat)
<1>1. SUFFICES ASSUME T # {} PROVE FALSE
  OBVIOUS
<1>2. IsWellFoundedOn(R, Nat)
  BY NatLessThanWellFounded
<1>3. PICK x \in T : \A y \in T : ~(<<y, x>> \in R)
  BY <1>1, <1>2, WFMin
<1>4. x \in Nat /\ x # 0 /\ x-1 \in Nat /\ x - 1 < x /\ x = (x-1) + 1
  OBVIOUS
<1>5. <<x-1,x>> \in R
  BY <1>4 DEF OpToRel
<1>6. x - 1 \in S
  <2> HIDE DEF R
  <2> QED BY <1>3, <1>4, <1>5
<1> QED BY <1>4, <1>6

(* A recursion over 0..m, with the step from n - 1 to n as a function.      *)
IsRecursion(f, V, base, move, m) ==
  f \in [0..m -> V] /\ f[0] = base /\ \A n \in 1..m : f[n] = move[n][f[n - 1]]

(* A function defined by recursion on the natural numbers exists.          *)
LEMMA Recursion ==
  ASSUME NEW V, NEW base \in V, NEW m \in Nat, NEW move, \A n \in 1..m : move[n] \in [V -> V]
  PROVE  \E f : IsRecursion(f, V, base, move, m)
<1> DEFINE S == {k \in Nat : k <= m => \E f : IsRecursion(f, V, base, move, k)}
<1>1. 0 \in S
  <2>1. IsRecursion([n \in 0..0 |-> base], V, base, move, 0)
    BY DEF IsRecursion
  <2> QED
    BY <2>1
<1>2. ASSUME NEW k \in Nat, k \in S PROVE k + 1 \in S
  <2>1. SUFFICES ASSUME k + 1 <= m PROVE \E f : IsRecursion(f, V, base, move, k + 1)
    OBVIOUS
  <2>2. PICK f : IsRecursion(f, V, base, move, k)
    BY <1>2, <2>1
  <2>3. f \in [0..k -> V] /\ f[0] = base /\ \A n \in 1..k : f[n] = move[n][f[n - 1]]
    BY <2>2 DEF IsRecursion
  <2> DEFINE v == move[k + 1][f[k]]
             g == [n \in 0..k + 1 |-> IF n = k + 1 THEN v ELSE f[n]]
  <2>4. v \in V
    BY <2>1, <2>3
  <2> HIDE DEF v
  <2>5. g \in [0..k + 1 -> V] /\ g[0] = base /\ g[k + 1] = v /\ \A n \in 0..k : g[n] = f[n]
    BY <2>3, <2>4
  <2> HIDE DEF g
  <2>6. ASSUME NEW n \in 1..k + 1 PROVE g[n] = move[n][g[n - 1]]
    <3>1. CASE n = k + 1
      <4>1. n - 1 = k /\ k \in 0..k
        BY <3>1
      <4> QED
        BY <2>5, <3>1, <4>1 DEF v
    <3>2. CASE n # k + 1
      <4>1. n \in 1..k /\ n \in 0..k /\ n - 1 \in 0..k
        BY <3>2
      <4> QED
        BY <2>3, <2>5, <4>1
    <3> QED
      BY <3>1, <3>2
  <2>7. IsRecursion(g, V, base, move, k + 1)
    BY <2>5, <2>6 DEF IsRecursion
  <2> QED
    BY <2>7
<1> HIDE DEF S
<1>3. Nat \subseteq S
  BY <1>1, <1>2, Induction
<1> QED
  BY <1>3 DEF S

-----------------------------------------------------------------------------
(* Of keeps the elements with the signature one after the other: f are the *)
(* prefixes of Of(s, sig), by the length of the prefix of s.               *)
KeepStep(f, s, sig, n) == IF s[n].sig = sig THEN Append(f[n - 1], s[n]) ELSE f[n - 1]
Prefixes(f, T, s, sig) ==
  /\ Of(s, sig) = f[Len(s)] /\ f[0] = <<>>
  /\ \A n \in 1..Len(s) : f[n] = KeepStep(f, s, sig, n)
  /\ \A n \in 0..Len(s) : f[n] \in Seq(T)

(* Of is what its recursion says, up to every position.                    *)
LEMMA OfIs ==
  ASSUME NEW T, NEW s \in Seq(T), NEW sig
  PROVE  \E f : Prefixes(f, T, s, sig)
<1> DEFINE m == Len(s)
           move == [n \in 1..m |-> [v \in Seq(T) |-> IF s[n].sig = sig THEN Append(v, s[n]) ELSE v]]
           Is(f) == f = [n \in 0..m |-> IF n = 0 THEN <<>> ELSE KeepStep(f, s, sig, n)]
           F == CHOOSE f : Is(f)
<1>1. m \in Nat /\ <<>> \in Seq(T) /\ \A n \in 1..m : s[n] \in T
  OBVIOUS
<1> HIDE DEF m
<1>2. \A n \in 1..m : move[n] \in [Seq(T) -> Seq(T)]
  BY <1>1
<1>3. \A n \in 1..m, v \in Seq(T) : move[n][v] = IF s[n].sig = sig THEN Append(v, s[n]) ELSE v
  OBVIOUS
<1> HIDE DEF move
<1>4. PICK f : IsRecursion(f, Seq(T), <<>>, move, m)
  BY <1>1, <1>2, Recursion
<1>5. f \in [0..m -> Seq(T)] /\ f[0] = <<>> /\ \A n \in 1..m : f[n] = move[n][f[n - 1]]
  BY <1>4 DEF IsRecursion
<1>6. \A n \in 1..m : n - 1 \in 0..m /\ n # 0
  BY <1>1
<1>7. \A n \in 1..m : f[n] = KeepStep(f, s, sig, n)
  BY <1>3, <1>5, <1>6 DEF KeepStep
<1>8. Is(f)
  BY <1>1, <1>5, <1>7
<1>9. Is(F)
  BY <1>8
<1>10. Of(s, sig) = F[m]
  BY DEF Of, KeepStep, m
<1> HIDE DEF F
<1>11. F[0] = <<>> /\ \A n \in 1..m : F[n] = KeepStep(F, s, sig, n)
  BY <1>1, <1>9
<1> DEFINE S == {n \in Nat : n <= m => F[n] \in Seq(T)}
<1>12. ASSUME NEW n \in Nat, n \in S PROVE n + 1 \in S
  <2>1. SUFFICES ASSUME n + 1 <= m PROVE F[n + 1] \in Seq(T)
    OBVIOUS
  <2>2. n + 1 \in 1..m /\ n <= m /\ (n + 1) - 1 = n
    BY <1>1, <2>1
  <2>3. F[n + 1] = KeepStep(F, s, sig, n + 1) /\ F[n] \in Seq(T) /\ s[n + 1] \in T
    BY <1>1, <1>11, <1>12, <2>2
  <2> QED
    BY <2>2, <2>3 DEF KeepStep
<1>13. Nat \subseteq S
  <2>1. 0 \in S
    BY <1>1, <1>11
  <2> HIDE DEF S
  <2> QED
    BY <1>12, <2>1, Induction
<1>14. \A n \in 0..m : F[n] \in Seq(T)
  BY <1>1, <1>13
<1> QED
  BY <1>10, <1>11, <1>14 DEF Prefixes, m

(* Selecting from a sequence gives a sequence.                             *)
LEMMA OfIsSeq ==
  ASSUME NEW T, NEW s \in Seq(T), NEW sig
  PROVE  Of(s, sig) \in Seq(T)
<1>1. Len(s) \in 0..Len(s)
  OBVIOUS
<1> QED
  BY <1>1, OfIs DEF Prefixes

(* Selecting from a concatenation is selecting from its parts.             *)
LEMMA OfConcat ==
  ASSUME NEW T, NEW s \in Seq(T), NEW t \in Seq(T), NEW sig
  PROVE  Of(s \o t, sig) = Of(s, sig) \o Of(t, sig)
<1>1. ASSUME NEW a \in Seq(T), NEW b \in Seq(T), NEW e \in T
      PROVE  Append(a \o b, e) = a \o Append(b, e)
  <2>1. a \o b \in Seq(T) /\ <<e>> \in Seq(T)
    OBVIOUS
  <2>2. Append(a \o b, e) = (a \o b) \o <<e>> /\ Append(b, e) = b \o <<e>>
    BY <2>1, AppendIsConcat
  <2>3. (a \o b) \o <<e>> = a \o (b \o <<e>>)
    BY <2>1, ConcatAssociative
  <2> QED
    BY <2>2, <2>3
<1> DEFINE u == s \o t  m == Len(s)  k == Len(t)
<1>0. u \in Seq(T) /\ Len(u) = m + k /\ m \in Nat /\ k \in Nat
  OBVIOUS
<1>2. (\A n \in 1..m : u[n] = s[n]) /\ \A n \in 1..k : u[m + n] = t[n]
  OBVIOUS
<1>3. PICK f : Prefixes(f, T, s, sig)
  BY OfIs
<1>4. PICK g : Prefixes(g, T, t, sig)
  BY OfIs
<1>5. PICK h : Prefixes(h, T, u, sig)
  BY <1>0, OfIs
<1>f. /\ Of(s, sig) = f[m] /\ f[0] = <<>>
      /\ \A n \in 1..m : f[n] = KeepStep(f, s, sig, n)
      /\ \A n \in 0..m : f[n] \in Seq(T)
  BY <1>3 DEF Prefixes
<1>g. /\ Of(t, sig) = g[k] /\ g[0] = <<>>
      /\ \A n \in 1..k : g[n] = KeepStep(g, t, sig, n)
      /\ \A n \in 0..k : g[n] \in Seq(T)
  BY <1>4 DEF Prefixes
<1>h. /\ Of(u, sig) = h[m + k] /\ h[0] = <<>>
      /\ \A n \in 1..m + k : h[n] = KeepStep(h, u, sig, n)
  BY <1>0, <1>5 DEF Prefixes
<1> HIDE DEF u, m, k
<1> DEFINE A == {n \in Nat : n <= m => h[n] = f[n]}
           B == {n \in Nat : n <= k => h[m + n] = f[m] \o g[n]}
<1>6. \A n \in Nat : n \in A => n + 1 \in A
  <2>1. SUFFICES ASSUME NEW n \in Nat, n \in A, n + 1 <= m PROVE h[n + 1] = f[n + 1]
    OBVIOUS
  <2>2. n + 1 \in 1..m /\ n + 1 \in 1..m + k /\ n <= m /\ (n + 1) - 1 = n
    BY <1>0, <2>1
  <2> QED
    BY <1>2, <1>f, <1>h, <2>1, <2>2 DEF KeepStep
<1>7. Nat \subseteq A
  <2>1. 0 \in A
    BY <1>f, <1>h
  <2> HIDE DEF A
  <2> QED
    BY <1>6, <2>1, Induction
<1>8. ASSUME NEW n \in Nat, n \in B PROVE n + 1 \in B
  <2>1. SUFFICES ASSUME n + 1 <= k PROVE h[m + (n + 1)] = f[m] \o g[n + 1]
    <3>1. n + 1 \in Nat
      OBVIOUS
    <3> QED
      BY <3>1, Zenon
  <2>2. n + 1 \in 1..k /\ m + (n + 1) \in 1..m + k /\ n <= k /\ (n + 1) - 1 = n /\ (m + (n + 1)) - 1 = m + n /\ n \in 0..k /\ m \in 0..m
    BY <1>0, <2>1
  <2>3. h[m + (n + 1)] = KeepStep(h, u, sig, m + (n + 1)) /\ g[n + 1] = KeepStep(g, t, sig, n + 1)
    BY <1>g, <1>h, <2>2
  <2>4. h[m + n] = f[m] \o g[n]
    BY <1>8, <2>2, Zenon
  <2>5. u[m + (n + 1)] = t[n + 1] /\ f[m] \in Seq(T) /\ g[n] \in Seq(T) /\ t[n + 1] \in T
    <3>1. t[n + 1] \in T
      BY <2>2 DEF k
    <3> QED
      BY <1>2, <1>f, <1>g, <2>2, <3>1
  <2>6. Append(f[m] \o g[n], t[n + 1]) = f[m] \o Append(g[n], t[n + 1])
    BY <1>1, <2>5, Zenon
  <2> QED
    BY <2>2, <2>3, <2>4, <2>5, <2>6 DEF KeepStep
<1>9. Nat \subseteq B
  <2>1. h[m] = f[m] /\ f[m] \in Seq(T) /\ m + 0 = m
    BY <1>0, <1>f, <1>7
  <2>2. f[m] \o <<>> = f[m]
    BY <2>1
  <2>3. 0 \in B
    BY <1>g, <2>1, <2>2
  <2> HIDE DEF B
  <2> QED
    BY <1>8, <2>3, Induction
<1>10. h[m + k] = f[m] \o g[k]
  <2>1. k \in Nat /\ k <= k
    BY <1>0
  <2>2. k \in B
    BY <1>9, <2>1, Zenon
  <2> QED
    BY <2>1, <2>2, Zenon
<1> QED
  BY <1>f, <1>g, <1>h, <1>10 DEF u

(* Nothing is selected where no entry has the signature.                   *)
LEMMA OfNone ==
  ASSUME NEW T, NEW s \in Seq(T), NEW sig, \A n \in 1..Len(s) : s[n].sig # sig
  PROVE  Of(s, sig) = <<>>
<1> DEFINE m == Len(s)
<1>0. PICK f : Prefixes(f, T, s, sig)
  BY OfIs
<1>1. Of(s, sig) = f[m] /\ f[0] = <<>> /\ \A n \in 1..m : f[n] = KeepStep(f, s, sig, n)
  BY <1>0 DEF Prefixes
<1>2. m \in Nat /\ \A n \in 1..m : s[n].sig # sig
  OBVIOUS
<1> HIDE DEF m
<1> DEFINE A == {n \in Nat : n <= m => f[n] = <<>>}
<1>3. \A n \in Nat : n \in A => n + 1 \in A
  <2>1. SUFFICES ASSUME NEW n \in Nat, n \in A, n + 1 <= m PROVE f[n + 1] = <<>>
    OBVIOUS
  <2>2. n + 1 \in 1..m /\ n <= m /\ (n + 1) - 1 = n
    BY <1>2, <2>1
  <2> QED
    BY <1>1, <1>2, <2>1, <2>2 DEF KeepStep
<1>4. Nat \subseteq A
  <2>1. 0 \in A
    BY <1>1
  <2> HIDE DEF A
  <2> QED
    BY <1>3, <2>1, Induction
<1> QED
  BY <1>1, <1>2, <1>4

(* Selecting from one entry.                                               *)
LEMMA OfSingle ==
  ASSUME NEW T, NEW s \in Seq(T), NEW sig, NEW i \in 1..Len(s), s[i].sig = sig,
         \A n \in 1..Len(s) : s[n].sig = sig => n = i
  PROVE  Of(s, sig) = <<s[i]>>
<1> DEFINE m == Len(s)
<1>0. PICK f : Prefixes(f, T, s, sig)
  BY OfIs
<1>1. Of(s, sig) = f[m] /\ f[0] = <<>> /\ \A n \in 1..m : f[n] = KeepStep(f, s, sig, n)
  BY <1>0 DEF Prefixes
<1>2. m \in Nat /\ i \in 1..m /\ \A n \in 1..m : s[n].sig = sig <=> n = i
  OBVIOUS
<1> HIDE DEF m
<1> DEFINE A == {n \in Nat : n <= m => f[n] = IF n < i THEN <<>> ELSE <<s[i]>>}
<1>3. \A n \in Nat : n \in A => n + 1 \in A
  <2>1. SUFFICES ASSUME NEW n \in Nat, n \in A, n + 1 <= m PROVE f[n + 1] = IF n + 1 < i THEN <<>> ELSE <<s[i]>>
    OBVIOUS
  <2>2. n + 1 \in 1..m /\ n <= m /\ (n + 1) - 1 = n
    BY <1>2, <2>1
  <2>3. f[n + 1] = IF n + 1 = i THEN Append(f[n], s[n + 1]) ELSE f[n]
    BY <1>1, <1>2, <2>2 DEF KeepStep
  <2>4. f[n] = IF n < i THEN <<>> ELSE <<s[i]>>
    BY <2>1, <2>2
  <2>5. \A x : Append(<<>>, x) = <<x>>
    OBVIOUS
  <2>6. CASE n + 1 < i
    BY <1>2, <2>2, <2>3, <2>4, <2>6
  <2>7. CASE n + 1 = i
    BY <1>2, <2>2, <2>3, <2>4, <2>5, <2>7
  <2>8. CASE n + 1 > i
    <3>1. ~(n < i) /\ n + 1 # i /\ ~(n + 1 < i)
      BY <1>2, <2>2, <2>8
    <3> QED
      BY <2>3, <2>4, <3>1
  <2> QED
    BY <1>2, <2>2, <2>6, <2>7, <2>8
<1>4. Nat \subseteq A
  <2>1. 0 \in A
    BY <1>1, <1>2
  <2> HIDE DEF A
  <2> QED
    BY <1>3, <2>1, Induction
<1> QED
  BY <1>1, <1>2, <1>4

(* Selecting from a sequence of length one.                                *)
LEMMA OfOne ==
  ASSUME NEW e, NEW sig
  PROVE  Of(<<e>>, sig) = IF e.sig = sig THEN <<e>> ELSE <<>>
<1> DEFINE s == <<e>>
<1>1. s \in Seq({e}) /\ Len(s) = 1 /\ s[1] = e
  OBVIOUS
<1> HIDE DEF s
<1>2. PICK f : Prefixes(f, {e}, s, sig)
  BY <1>1, OfIs
<1>3. 1 \in 1..Len(s) /\ 1 - 1 = 0
  BY <1>1
<1>4. f[1] = KeepStep(f, s, sig, 1)
  BY <1>2, <1>3 DEF Prefixes
<1>5. f[1] = IF e.sig = sig THEN Append(<<>>, e) ELSE <<>>
  BY <1>1, <1>2, <1>3, <1>4 DEF KeepStep, Prefixes
<1>6. Append(<<>>, e) = <<e>>
  OBVIOUS
<1> QED
  BY <1>1, <1>2, <1>5, <1>6 DEF s, Prefixes

(* Selecting from the empty sequence.                                      *)
LEMMA OfEmpty ==
  ASSUME NEW sig
  PROVE  Of(<<>>, sig) = <<>>
<1>1. <<>> \in Seq({}) /\ Len(<<>>) = 0 /\ 1..0 = {}
  OBVIOUS
<1>2. \A n \in 1..Len(<<>>) : <<>>[n].sig # sig
  BY <1>1
<1> QED
  BY <1>1, <1>2, OfNone

-----------------------------------------------------------------------------
(* The function that dumps a table with a signature, what a dump function  *)
(* can be given, and the output for a part of the full dump.               *)
FuncFor(sig) == IF sig \in Linked \cup RootSigns THEN sig ELSE "default"
Addrs == DOMAIN platform.rsdp \cup DOMAIN platform.table
         \cup (IF Rsdp = NULL THEN {} ELSE {ScanAcpiRSDT, ScanAcpiXSDT})
         \cup {Facs(t) : t \in DOMAIN platform.table} \cup {Dsdt(t) : t \in DOMAIN platform.table}
Sigs == {Sig(t) : t \in DOMAIN platform.table} \cup RootSigns \cup {"FACS", "DSDT", "default"}
Items == [addr : Addrs, sig : Sigs]
Dumped(s) == [i \in 1..Len(s) |-> [addr |-> s[i].addr, sig |-> FuncFor(s[i].sig)]]

(* Applying the registered functions gives a sequence.                     *)
LEMMA DumpedIsSeq ==
  ASSUME NEW s \in Seq(Items)
  PROVE  Dumped(s) \in Seq(Items) /\ Len(Dumped(s)) = Len(s)
<1>1. \A i \in 1..Len(s) : s[i] \in Items
  OBVIOUS
<1>2. \A e \in Items : [addr |-> e.addr, sig |-> FuncFor(e.sig)] \in Items
  BY DEF Items, FuncFor, Sigs
<1>3. \A i \in 1..Len(s) : [addr |-> s[i].addr, sig |-> FuncFor(s[i].sig)] \in Items
  BY <1>1, <1>2
<1>4. Len(s) \in Nat
  OBVIOUS
<1> HIDE DEF Items
<1> QED
  BY <1>3, <1>4 DEF Dumped

(* ... and respects concatenation.                                         *)
LEMMA DumpedConcat ==
  ASSUME NEW s \in Seq(Items), NEW t \in Seq(Items)
  PROVE  Dumped(s \o t) = Dumped(s) \o Dumped(t)
<1> DEFINE u == Dumped(s \o t)  v == Dumped(s)  w == Dumped(t)
<1>1. s \o t \in Seq(Items) /\ Len(s \o t) = Len(s) + Len(t) /\ Len(s) \in Nat /\ Len(t) \in Nat
  OBVIOUS
<1>2. u \in Seq(Items) /\ v \in Seq(Items) /\ w \in Seq(Items) /\ Len(u) = Len(s) + Len(t) /\ Len(v) = Len(s) /\ Len(w) = Len(t)
  BY <1>1, DumpedIsSeq
<1>3. \A i \in 1..Len(s) + Len(t) : u[i] = IF i <= Len(s) THEN v[i] ELSE w[i - Len(s)]
  <2>1. SUFFICES ASSUME NEW i \in 1..Len(s) + Len(t) PROVE u[i] = IF i <= Len(s) THEN v[i] ELSE w[i - Len(s)]
    OBVIOUS
  <2>2. u[i] = [addr |-> (s \o t)[i].addr, sig |-> FuncFor((s \o t)[i].sig)]
    BY <1>1 DEF Dumped
  <2>3. CASE i <= Len(s)
    <3>1. i \in 1..Len(s) /\ (s \o t)[i] = s[i]
      BY <2>3
    <3>2. v[i] = [addr |-> s[i].addr, sig |-> FuncFor(s[i].sig)]
      BY <3>1 DEF Dumped
    <3> HIDE DEF u, v, w
    <3> QED
      BY <2>2, <2>3, <3>1, <3>2
  <2>4. CASE ~(i <= Len(s))
    <3>1. i - Len(s) \in 1..Len(t) /\ (s \o t)[i] = t[i - Len(s)]
      BY <2>4
    <3>2. w[i - Len(s)] = [addr |-> t[i - Len(s)].addr, sig |-> FuncFor(t[i - Len(s)].sig)]
      BY <3>1 DEF Dumped
    <3> HIDE DEF u, v, w
    <3> QED
      BY <2>2, <2>4, <3>1, <3>2
  <2> QED
    BY <2>3, <2>4
<1> HIDE DEF u, v, w
<1>4. u = v \o w
  <2>1. v \o w \in Seq(Items) /\ Len(v \o w) = Len(u)
    <3>1. v \o w \in Seq(Items) /\ Len(v \o w) = Len(v) + Len(w)
      BY <1>2, ConcatProperties
    <3> QED
      BY <1>2, <3>1
  <2>2. \A i \in 1..Len(u) : (v \o w)[i] = u[i]
    BY <1>1, <1>2, <1>3, ConcatProperties
  <2> QED
    BY <1>2, <2>1, <2>2, SeqEqual
<1> QED
  BY <1>4 DEF u, v, w

(* ... and what it makes of one table.                                     *)
LEMMA DumpedDump ==
  ASSUME NEW t, NEW sig
  PROVE  Dumped(Dump(t, sig)) = Dump(t, FuncFor(sig))
<1>1. CASE t = NULL
  <2>1. 1..0 = {} /\ Len(<<>>) = 0
    OBVIOUS
  <2> QED
    BY <1>1, <2>1 DEF Dumped, Dump
<1>2. CASE t # NULL
  <2> DEFINE e == [addr |-> t, sig |-> sig]
  <2>1. Len(<<e>>) = 1 /\ <<e>>[1] = e
    OBVIOUS
  <2>2. Dumped(<<e>>) = [i \in 1..1 |-> [addr |-> <<e>>[i].addr, sig |-> FuncFor(<<e>>[i].sig)]]
    BY <2>1 DEF Dumped
  <2>3. \A i \in 1..1 : <<e>>[i].addr = t /\ <<e>>[i].sig = sig
    BY <2>1
  <2>4. Dumped(<<e>>) = [i \in 1..1 |-> [addr |-> t, sig |-> FuncFor(sig)]]
    BY <2>2, <2>3
  <2>5. \A x : <<x>> = [i \in 1..1 |-> x]
    OBVIOUS
  <2> QED
    BY <1>2, <2>4, <2>5 DEF Dump
<1> QED
  BY <1>1, <1>2

(* Selecting from the dump of one table.                                   *)
LEMMA OfDump ==
  ASSUME NEW t, NEW sig, NEW g
  PROVE  Of(Dump(t, sig), g) = IF sig = g THEN Dump(t, sig) ELSE <<>>
BY OfOne, OfEmpty DEF Dump

(* The dump of one table is a sequence of items.                           *)
LEMMA DumpIsSeq ==
  ASSUME NEW t \in Addrs \cup {NULL}, NEW sig \in Sigs
  PROVE  Dump(t, sig) \in Seq(Items)
<1>1. <<>> \in Seq(Items)
  OBVIOUS
<1>2. t # NULL => <<[addr |-> t, sig |-> sig]>> \in Seq(Items)
  <2>1. t # NULL => [addr |-> t, sig |-> sig] \in Items
    BY DEF Items
  <2> QED
    BY <2>1
<1> QED
  BY <1>1, <1>2 DEF Dump

-----------------------------------------------------------------------------
(* The registry has every signature once, and room for all of them.        *)
Registry(reg) == reg \in Seq(Linked) /\ Cardinality(Members(reg)) = Len(reg)

(* A sequence has finitely many members.                                   *)
LEMMA MembersFinite ==
  ASSUME NEW T, NEW s \in Seq(T)
  PROVE  IsFiniteSet(Members(s)) /\ Members(s) \subseteq T
<1>1. Len(s) \in Nat /\ IsFiniteSet(1..Len(s))
  BY FS_Interval
<1>2. s \in Surjection(1..Len(s), Members(s))
  BY DEF Surjection, Members
<1> QED
  BY <1>1, <1>2, FS_Surjection DEF Members

(* Finitely many dump functions are linked in.                             *)
LEMMA LinkedFinite == IsFiniteSet(Linked) /\ LibraryFuncs \in Seq(Linked) /\ OwnFuncs \in Seq(Linked)
<1>1. OwnFuncs \in Seq({"FACP", "FACS", "DSDT", "SSDT", "PSDT"})
  BY DEF OwnFuncs
<1>2. IsFiniteSet(Members(LibraryFuncs)) /\ IsFiniteSet(Members(OwnFuncs))
  BY <1>1, MembersFinite, AppAssumption
<1>3. \A T : \A s \in Seq(T) : Members(s) \subseteq Linked => s \in Seq(Linked)
  BY DEF Members
<1> QED
  BY <1>1, <1>2, <1>3, AppAssumption, FS_Union DEF Linked

(* One registration: linked functions, each once, none is lost.            *)
LEMMA RegisterKeeps ==
  ASSUME NEW reg, Registry(reg), NEW sig \in Linked
  PROVE  /\ Registry(RegisterDumpAcpiTable(reg, sig))
         /\ Members(RegisterDumpAcpiTable(reg, sig)) = Members(reg) \cup {sig}
<1>1. reg \in Seq(Linked) /\ Len(reg) \in Nat /\ Cardinality(Members(reg)) = Len(reg)
  BY DEF Registry
<1>2. IsFiniteSet(Members(reg)) /\ Members(reg) \subseteq Linked
  BY <1>1, MembersFinite
<1>3. CASE sig \in Members(reg)
  BY <1>3 DEF RegisterDumpAcpiTable
<1>4. CASE sig \notin Members(reg)
  <2>1. ~(Len(reg) >= MaxFuncs)
    <3>1. IsFiniteSet(Members(reg) \cup {sig}) /\ Cardinality(Members(reg) \cup {sig}) = Len(reg) + 1
      BY <1>1, <1>2, <1>4, FS_AddElement
    <3>2. IsFiniteSet(Linked) /\ Cardinality(Linked) <= MaxFuncs /\ MaxFuncs \in Nat /\ Cardinality(Linked) \in Nat
      BY LinkedFinite, AppAssumption, FS_CardinalityType
    <3>3. Members(reg) \cup {sig} \subseteq Linked
      BY <1>2
    <3>4. Cardinality(Members(reg) \cup {sig}) <= Cardinality(Linked)
      BY <3>2, <3>3, FS_Subset
    <3> QED
      BY <1>1, <3>1, <3>2, <3>4
  <2> DEFINE new == Append(reg, sig)
  <2>2. new \in Seq(Linked) /\ Len(new) = Len(reg) + 1 /\ new[Len(reg) + 1] = sig /\ \A i \in 1..Len(reg) : new[i] = reg[i]
    BY <1>1
  <2>3. RegisterDumpAcpiTable(reg, sig) = new
    BY <1>4, <2>1 DEF RegisterDumpAcpiTable
  <2> HIDE DEF new
  <2>4. Members(new) = Members(reg) \cup {sig}
    <3>1. 1..Len(new) = 1..Len(reg) \cup {Len(reg) + 1}
      BY <1>1, <2>2
    <3>2. Members(new) = {new[i] : i \in 1..Len(reg)} \cup {new[Len(reg) + 1]}
      BY <3>1 DEF Members
    <3>3. {new[i] : i \in 1..Len(reg)} = Members(reg)
      BY <2>2 DEF Members
    <3> QED
      BY <2>2, <3>2, <3>3
  <2>5. Cardinality(Members(new)) = Len(new)
    <3>1. Cardinality(Members(reg) \cup {sig}) = Cardinality(Members(reg)) + 1
      BY <1>2, <1>4, FS_AddElement
    <3> QED
      BY <1>1, <2>2, <2>4, <3>1
  <2> QED
    BY <2>2, <2>3, <2>4, <2>5 DEF Registry
<1> QED
  BY <1>3, <1>4

(* Registering a sequence leaves all of them in the registry.              *)
LEMMA RegisteredAll ==
  ASSUME NEW reg, Registry(reg), NEW sigs \in Seq(Linked)
  PROVE  /\ Registry(Registered(reg, sigs))
         /\ Members(Registered(reg, sigs)) = Members(reg) \cup Members(sigs)
<1> DEFINE m == Len(sigs)
           V == {v \in Seq(Linked) : Registry(v)}
           move == [n \in 1..m |-> [v \in V |-> RegisterDumpAcpiTable(v, sigs[n])]]
           Is(f) == f = [n \in 0..m |-> IF n = 0 THEN reg ELSE RegisterDumpAcpiTable(f[n - 1], sigs[n])]
           F == CHOOSE f : Is(f)
<1>1. m \in Nat /\ \A n \in 1..m : sigs[n] \in Linked
  OBVIOUS
<1> HIDE DEF m
<1>2. reg \in V /\ \A v \in V, n \in 1..m : RegisterDumpAcpiTable(v, sigs[n]) \in V
  BY <1>1, RegisterKeeps DEF Registry
<1>3. \A n \in 1..m : move[n] \in [V -> V] /\ \A v \in V : move[n][v] = RegisterDumpAcpiTable(v, sigs[n])
  BY <1>2
<1> HIDE DEF move
<1>4. PICK f : IsRecursion(f, V, reg, move, m)
  <2> HIDE DEF V
  <2> QED
    BY <1>1, <1>2, <1>3, Recursion
<1>5. f \in [0..m -> V] /\ f[0] = reg /\ \A n \in 1..m : f[n] = move[n][f[n - 1]]
  BY <1>4 DEF IsRecursion
<1>6. \A n \in 1..m : n - 1 \in 0..m /\ n # 0
  BY <1>1
<1> HIDE DEF V
<1>7. \A n \in 1..m : f[n] = RegisterDumpAcpiTable(f[n - 1], sigs[n])
  BY <1>3, <1>5, <1>6
<1>8. Is(f)
  BY <1>1, <1>5, <1>7
<1>9. Is(F)
  BY <1>8
<1>10. Registered(reg, sigs) = F[m]
  BY DEF Registered, m
<1> HIDE DEF F
<1>11. F[0] = reg /\ \A n \in 1..m : F[n] = RegisterDumpAcpiTable(F[n - 1], sigs[n])
  BY <1>1, <1>6, <1>9
<1> DEFINE Upto(n) == {sigs[i] : i \in 1..n}
           S == {n \in Nat : n <= m => Registry(F[n]) /\ Members(F[n]) = Members(reg) \cup Upto(n)}
<1>12. ASSUME NEW n \in Nat, n \in S PROVE n + 1 \in S
  <2>1. SUFFICES ASSUME n + 1 <= m PROVE Registry(F[n + 1]) /\ Members(F[n + 1]) = Members(reg) \cup Upto(n + 1)
    OBVIOUS
  <2>2. n + 1 \in 1..m /\ n <= m /\ (n + 1) - 1 = n
    BY <1>1, <2>1
  <2>3. F[n + 1] = RegisterDumpAcpiTable(F[n], sigs[n + 1])
    BY <1>11, <2>2
  <2>4. Registry(F[n]) /\ Members(F[n]) = Members(reg) \cup Upto(n) /\ sigs[n + 1] \in Linked
    BY <1>1, <1>12, <2>2
  <2>5. Registry(F[n + 1]) /\ Members(F[n + 1]) = Members(F[n]) \cup {sigs[n + 1]}
    BY <2>3, <2>4, RegisterKeeps
  <2>6. Upto(n + 1) = Upto(n) \cup {sigs[n + 1]}
    OBVIOUS
  <2> HIDE DEF Upto
  <2> QED
    BY <2>4, <2>5, <2>6
<1>13. Nat \subseteq S
  <2>1. 1..0 = {}
    OBVIOUS
  <2>2. 0 \in S
    BY <1>11, <2>1
  <2> HIDE DEF S
  <2> QED
    BY <1>12, <2>2, Induction
<1>14. m \in S /\ m <= m
  BY <1>1, <1>13
<1> QED
  BY <1>10, <1>14 DEF Members, m

-----------------------------------------------------------------------------
(* The inductive invariant: where the run is, what is registered, what has *)
(* been dumped of the full dump, and what the files hold.                  *)
InLoop == pc \in {"all_loop", "sign_loop"}
IsFadt(t) == t # NULL /\ Sig(t) = "FACP"
RootDump == Dump(Rsdp, "RSDP") \o Dump(ScanAcpiRSDT, "RSDT") \o Dump(ScanAcpiXSDT, "XSDT")

PlaceInv ==
  /\ platform \in Platforms /\ line \in CommandLines
  /\ pc \in {"constructors", "entry", "all", "sign", "all_loop", "sign_loop", "done", "fault", "undefined"}
  /\ data \in BOOLEAN /\ verb \in BOOLEAN
  /\ pc \in {"constructors", "entry"} => ~data
  /\ pc \in {"constructors", "entry", "all", "sign"} => out = <<>> /\ index = 0 /\ sub1 = NULL /\ sub2 = NULL
  /\ pc \in {"all", "all_loop"} => line.sign = None
  /\ pc \in {"sign", "sign_loop"} => line.sign # None
  /\ pc = "sign_loop" => line.sign \notin RootSigns
  /\ InLoop => Rsdp # NULL /\ rsdt = ScanAcpiRSDT /\ xsdt = ScanAcpiXSDT /\ index \in 0..Len(RootEntries)

RegistryInv ==
  /\ Registry(registry)
  /\ Members(registry) = CASE pc = "constructors" -> {}
                           [] pc = "entry" -> Members(LibraryFuncs)
                           [] OTHER -> Linked

SubInv ==
  /\ sub2 \in DOMAIN platform.table \cup {NULL}
  /\ pc = "sign_loop" =>
    /\ Of(EntryDumps[index], "FACS") = Dump(sub1, "FACS")
    /\ Of(EntryDumps[index], "DSDT") = Dump(sub2, "DSDT")
    /\ (\A i \in 1..index : ~IsFadt(RootEntries[i])) => sub1 = NULL /\ sub2 = NULL

OutInv ==
  /\ out \in Seq(Items)
  /\ pc = "all_loop" => out = Dumped(RootDump \o EntryDumps[index])
  /\ pc = "sign_loop" =>
       out = IF line.sign \in {"FACS", "DSDT"} THEN <<>> ELSE Dumped(Of(EntryDumps[index], line.sign))
  /\ Ran => out = Dumped(IF line.sign = None THEN FullDump ELSE Of(FullDump, line.sign))

FileForm(name) ==
  LET n == name[2]
      dumps == Of(out, name[1])
      file == files[name]
      left == {o[name].len : o \in {f \in OldFiles : name \in DOMAIN f}}
  IN  /\ file.table # NULL =>
           /\ n <= Len(dumps) /\ file.table = dumps[n].addr
           /\ \/ file.len = platform.table[file.table].len
              \/ file.len > platform.table[file.table].len /\ file.len \in left
      /\ ~data \/ n > fileIndex[name[1]] => \E o \in OldFiles : name \in DOMAIN o /\ file = o[name]
FilesInv ==
  /\ fileIndex \in [AmlKinds -> Nat] /\ failures \in 0..MaxIoFailures
  /\ DOMAIN files \subseteq AmlKinds \X (Nat \ {0})
  /\ data => \A k \in AmlKinds : fileIndex[k] = Len(Of(out, k))
  /\ pc \in {"constructors", "entry"} => \A k \in AmlKinds : fileIndex[k] = 0
  /\ \A name \in DOMAIN files : FileForm(name)

AppInv == PlaceInv /\ RegistryInv /\ SubInv /\ OutInv /\ FilesInv

-----------------------------------------------------------------------------
(* What the code reads of the machine stays what it is.                    *)
LEMMA Unchanged ==
  ASSUME UNCHANGED platform
  PROVE  /\ Rsdp' = Rsdp /\ ScanAcpiRSDT' = ScanAcpiRSDT /\ ScanAcpiXSDT' = ScanAcpiXSDT /\ RootEntries' = RootEntries
         /\ EntryDumps' = EntryDumps /\ RootDump' = RootDump /\ FullDump' = FullDump /\ Items' = Items
<1>1. Rsdp' = Rsdp /\ IsAcpi20' = IsAcpi20
  BY DEF Rsdp, IsAcpi20
<1>2. ScanAcpiRSDT' = ScanAcpiRSDT /\ ScanAcpiXSDT' = ScanAcpiXSDT
  BY <1>1 DEF ScanAcpiRSDT, ScanAcpiXSDT
<1>3. RootEntries' = RootEntries
  BY <1>1, <1>2 DEF RootEntries
<1>4. EntryDumps' = EntryDumps
  BY <1>3 DEF EntryDumps, EntryDump, Dump, Sig, Facs, Dsdt, Pointer
<1>5. RootDump' = RootDump
  BY <1>1, <1>2 DEF RootDump, Dump
<1>6. FullDump' = FullDump
  BY <1>1, <1>2, <1>3, <1>4 DEF FullDump, Dump
<1>7. Addrs' = Addrs
  BY <1>1, <1>2 DEF Addrs, Facs, Dsdt, Pointer
<1>8. Sigs' = Sigs
  BY DEF Sigs, Sig
<1> QED
  BY <1>1, <1>2, <1>3, <1>4, <1>5, <1>6, <1>7, <1>8 DEF Items

(* The root table the code goes through.                                   *)
LEMMA RootsForm ==
  ASSUME platform \in Platforms
  PROVE  /\ RootEntries \in Seq(DOMAIN platform.table \cup {NULL})
         /\ \A i \in 1..Len(RootEntries) :
              RootEntries[i] # NULL => Sig(RootEntries[i]) \notin RootSigns \cup {"FACS", "DSDT"}
         /\ \A i, j \in 1..Len(RootEntries) : IsFadt(RootEntries[i]) /\ IsFadt(RootEntries[j]) => i = j
<1>1. PlatformForm(platform)
  BY AppAssumption
<1>2. CASE RootEntries = <<>>
  <2>1. Len(<<>>) = 0 /\ 1..0 = {} /\ <<>> \in Seq(DOMAIN platform.table \cup {NULL})
    OBVIOUS
  <2> QED
    BY <1>2, <2>1
<1>3. CASE RootEntries # <<>>
  <2> DEFINE root == IF ScanAcpiXSDT # NULL THEN ScanAcpiXSDT ELSE ScanAcpiRSDT
  <2>1. Rsdp # NULL /\ root # NULL /\ RootEntries = platform.root[root].entries
    BY <1>3 DEF RootEntries
  <2>2. Rsdp \in DOMAIN platform.rsdp
    BY <1>1, <2>1 DEF PlatformForm, Rsdp
  <2>3. RootForm(platform, root, 4) \/ RootForm(platform, root, 8)
    BY <1>1, <2>2 DEF PlatformForm, ScanAcpiRSDT, ScanAcpiXSDT
  <2> HIDE DEF root
  <2> QED
    BY <2>1, <2>3 DEF RootForm, Sig, IsFadt
<1> QED
  BY <1>2, <1>3

(* In the loops the count of entries is that of the root table.            *)
LEMMA LoopEntries ==
  ASSUME PlaceInv, InLoop
  PROVE  EntryCount = Len(RootEntries) /\ (index < EntryCount => Entry = RootEntries[index + 1])
<1>1. platform \in Platforms /\ Rsdp # NULL /\ rsdt = ScanAcpiRSDT /\ xsdt = ScanAcpiXSDT
  BY DEF PlaceInv
<1>2. Rsdp \in DOMAIN platform.rsdp /\ PlatformForm(platform)
  BY <1>1, AppAssumption DEF PlatformForm, Rsdp
<1>3. RootForm(platform, ScanAcpiRSDT, 4) /\ (ScanAcpiXSDT # NULL => RootForm(platform, ScanAcpiXSDT, 8))
  BY <1>1, <1>2 DEF PlatformForm, ScanAcpiRSDT, ScanAcpiXSDT
<1>4. CASE Root = NULL
  <2>1. RootEntries = <<>> /\ EntryCount = 0 /\ Len(<<>>) = 0
    BY <1>1, <1>4 DEF Root, RootEntries, EntryCount
  <2> QED
    BY <2>1 DEF PlaceInv
<1>5. CASE Root # NULL
  <2>1. RootEntries = platform.root[Root].entries
    BY <1>1, <1>5 DEF Root, RootEntries
  <2>2. EntryCount = Len(RootEntries)
    BY <1>1, <1>3, <1>5, <2>1 DEF Root, EntryCount, RootForm
  <2> QED
    BY <2>1, <2>2 DEF Entry
<1> QED
  BY <1>4, <1>5

(* The tables of an entry: the table itself, and what a FADT leads to.     *)
LEMMA EntryDumpIsSeq ==
  ASSUME platform \in Platforms, NEW t \in DOMAIN platform.table \cup {NULL}
  PROVE  EntryDump(t) \in Seq(Items)
<1>1. CASE t = NULL
  <2>1. <<>> \in Seq(Items)
    OBVIOUS
  <2> QED
    BY <1>1, <2>1 DEF EntryDump
<1>2. CASE t # NULL
  <2>1. t \in Addrs /\ Facs(t) \in Addrs /\ Dsdt(t) \in Addrs /\ Sig(t) \in Sigs /\ "FACS" \in Sigs /\ "DSDT" \in Sigs
    BY <1>2 DEF Addrs, Sigs
  <2>2. Dump(t, Sig(t)) \in Seq(Items) /\ Dump(Facs(t), "FACS") \in Seq(Items) /\ Dump(Dsdt(t), "DSDT") \in Seq(Items)
    BY <2>1, DumpIsSeq
  <2>3. <<>> \in Seq(Items)
    OBVIOUS
  <2>4. Dump(Facs(t), "FACS") \o Dump(Dsdt(t), "DSDT") \in Seq(Items)
    BY <2>2, ConcatProperties
  <2>5. \A s, u \in Seq(Items) : s \o u \in Seq(Items)
    BY ConcatProperties
  <2> QED
    BY <1>2, <2>2, <2>3, <2>4, <2>5 DEF EntryDump
<1> QED
  BY <1>1, <1>2

(* What the recursion over the entries of the root table says.             *)
LEMMA EntryDumpsAre ==
  ASSUME platform \in Platforms
  PROVE  /\ EntryDumps[0] = <<>>
         /\ \A n \in 1..Len(RootEntries) : EntryDumps[n] = EntryDumps[n - 1] \o EntryDump(RootEntries[n])
         /\ \A n \in 0..Len(RootEntries) : EntryDumps[n] \in Seq(Items)
<1> DEFINE m == Len(RootEntries)  V == Seq(Items)
           move == [n \in 1..m |-> [v \in V |-> v \o EntryDump(RootEntries[n])]]
           Longer(v, n) == v \o EntryDump(RootEntries[n])
           Is(f) == f = [n \in 0..m |-> IF n = 0 THEN <<>> ELSE Longer(f[n - 1], n)]
           F == CHOOSE f : Is(f)
<1>1. m \in Nat /\ \A n \in 1..m : RootEntries[n] \in DOMAIN platform.table \cup {NULL}
  BY RootsForm
<1> HIDE DEF m
<1>2. <<>> \in V /\ \A v \in V, n \in 1..m : v \o EntryDump(RootEntries[n]) \in V
  <2>1. \A n \in 1..m : EntryDump(RootEntries[n]) \in Seq(Items)
    BY <1>1, EntryDumpIsSeq
  <2>2. \A s, u \in Seq(Items) : s \o u \in Seq(Items)
    BY ConcatProperties
  <2>3. <<>> \in Seq(Items)
    OBVIOUS
  <2> QED
    BY <2>1, <2>2, <2>3
<1> HIDE DEF V
<1>3. \A n \in 1..m : move[n] \in [V -> V] /\ \A v \in V : move[n][v] = v \o EntryDump(RootEntries[n])
  BY <1>2
<1> HIDE DEF move
<1>4. PICK f : IsRecursion(f, V, <<>>, move, m)
  BY <1>1, <1>2, <1>3, Recursion
<1>5. f \in [0..m -> V] /\ f[0] = <<>> /\ \A n \in 1..m : f[n] = move[n][f[n - 1]]
  BY <1>4 DEF IsRecursion
<1>6. \A n \in 1..m : n - 1 \in 0..m /\ n # 0 /\ n \in 0..m
  BY <1>1
<1>7. \A n \in 1..m : f[n] = f[n - 1] \o EntryDump(RootEntries[n])
  BY <1>3, <1>5, <1>6
<1>8. EntryDumps = F
  BY DEF EntryDumps, m
<1>9. Is(F)
  <2>1. \A n \in 1..m : f[n] = Longer(f[n - 1], n)
    BY <1>7
  <2> HIDE DEF Longer
  <2>2. Is(f)
    BY <1>1, <1>5, <2>1
  <2> QED
    BY <2>2
<1> HIDE DEF F
<1>10. F[0] = <<>> /\ \A n \in 1..m : F[n] = Longer(F[n - 1], n)
  <2> HIDE DEF Longer
  <2> QED
    BY <1>1, <1>6, <1>9
<1>11. F[0] = <<>> /\ \A n \in 1..m : F[n] = F[n - 1] \o EntryDump(RootEntries[n])
  BY <1>10
<1> DEFINE S == {n \in Nat : n <= m => F[n] \in V}
<1>12. ASSUME NEW n \in Nat, n \in S PROVE n + 1 \in S
  <2>1. SUFFICES ASSUME n + 1 <= m PROVE F[n + 1] \in V
    OBVIOUS
  <2>2. n + 1 \in 1..m /\ n <= m /\ (n + 1) - 1 = n
    BY <1>1, <2>1
  <2>3. F[n + 1] = F[n] \o EntryDump(RootEntries[n + 1]) /\ F[n] \in V
    BY <1>11, <1>12, <2>2
  <2> QED
    BY <1>2, <2>2, <2>3
<1>13. Nat \subseteq S
  <2>1. 0 \in S
    BY <1>2, <1>11
  <2> HIDE DEF S
  <2> QED
    BY <1>12, <2>1, Induction
<1>14. \A n \in 0..m : F[n] \in V
  BY <1>1, <1>13
<1> QED
  BY <1>8, <1>11, <1>14 DEF V, m

(* Concatenation stays in the sequences of items.                          *)
LEMMA Concats == \A s \in Seq(Items) : \A t \in Seq(Items) : s \o t \in Seq(Items)
BY ConcatProperties

(* OfConcat for all sequences of items.                                    *)
LEMMA OfConcats == \A s \in Seq(Items) : \A t \in Seq(Items) : \A g : Of(s \o t, g) = Of(s, g) \o Of(t, g)
<1>1. ASSUME NEW s \in Seq(Items), NEW t \in Seq(Items), NEW g PROVE Of(s \o t, g) = Of(s, g) \o Of(t, g)
  BY OfConcat
<1> QED
  BY <1>1, Zenon

(* OfIsSeq for all sequences of items.                                     *)
LEMMA OfSeqs == \A s \in Seq(Items) : \A g : Of(s, g) \in Seq(Items)
BY OfIsSeq

(* DumpedConcat for all sequences of items.                                *)
LEMMA DumpedConcats == \A s \in Seq(Items) : \A t \in Seq(Items) : Dumped(s \o t) = Dumped(s) \o Dumped(t)
BY DumpedConcat, Zenon

(* The dump of the root tables is a sequence of items.                     *)
LEMMA RootDumpIsSeq ==
  ASSUME platform \in Platforms, Rsdp # NULL
  PROVE  /\ RootDump \in Seq(Items)
         /\ Dump(Rsdp, "RSDP") \in Seq(Items) /\ Dump(ScanAcpiRSDT, "RSDT") \in Seq(Items) /\ Dump(ScanAcpiXSDT, "XSDT") \in Seq(Items)
<1>1. Rsdp \in Addrs /\ ScanAcpiRSDT \in Addrs /\ ScanAcpiXSDT \in Addrs
  BY AppAssumption DEF PlatformForm, Rsdp, Addrs
<1>2. "RSDP" \in Sigs /\ "RSDT" \in Sigs /\ "XSDT" \in Sigs
  BY DEF Sigs, RootSigns
<1>3. Dump(Rsdp, "RSDP") \in Seq(Items) /\ Dump(ScanAcpiRSDT, "RSDT") \in Seq(Items) /\ Dump(ScanAcpiXSDT, "XSDT") \in Seq(Items)
  BY <1>1, <1>2, DumpIsSeq
<1>4. \A s, u \in Seq(Items) : s \o u \in Seq(Items)
  BY ConcatProperties
<1> QED
  BY <1>3, <1>4 DEF RootDump

(* The part of the root tables and of an entry that has the signature.     *)
LEMMA OfRootDump ==
  ASSUME platform \in Platforms, Rsdp # NULL, NEW g
  PROVE  Of(RootDump, g) = CASE g = "RSDP" -> Dump(Rsdp, "RSDP") [] g = "RSDT" -> Dump(ScanAcpiRSDT, "RSDT")
                             [] g = "XSDT" -> Dump(ScanAcpiXSDT, "XSDT") [] OTHER -> <<>>
<1> DEFINE a == Dump(Rsdp, "RSDP")  b == Dump(ScanAcpiRSDT, "RSDT")  c == Dump(ScanAcpiXSDT, "XSDT")
<1>1. a \in Seq(Items) /\ b \in Seq(Items) /\ c \in Seq(Items)
  BY RootDumpIsSeq
<1>2. /\ Of(a, g) = (IF g = "RSDP" THEN a ELSE <<>>) /\ Of(b, g) = (IF g = "RSDT" THEN b ELSE <<>>)
      /\ Of(c, g) = (IF g = "XSDT" THEN c ELSE <<>>)
  BY OfDump
<1>3. RootDump = (a \o b) \o c
  BY DEF RootDump
<1> HIDE DEF a, b, c
<1>4. a \o b \in Seq(Items)
  BY <1>1, Concats
<1>5. Of(RootDump, g) = Of(a \o b, g) \o Of(c, g) /\ Of(a \o b, g) = Of(a, g) \o Of(b, g)
  <2>1. Of((a \o b) \o c, g) = Of(a \o b, g) \o Of(c, g)
    BY <1>1, <1>4, OfConcats, ZenonT(60)
  <2>2. Of(a \o b, g) = Of(a, g) \o Of(b, g)
    BY <1>1, OfConcats, ZenonT(60)
  <2> QED
    BY <1>3, <2>1, <2>2
<1>6. Of(RootDump, g) = IF g = "RSDP" THEN a ELSE IF g = "RSDT" THEN b ELSE IF g = "XSDT" THEN c ELSE <<>>
  <2>1. (a \o <<>>) \o <<>> = a /\ (<<>> \o b) \o <<>> = b /\ (<<>> \o <<>>) \o c = c /\ (<<>> \o <<>>) \o <<>> = <<>>
    BY <1>1
  <2> QED
    BY <1>2, <1>5, <2>1
<1> QED
  BY <1>6 DEF a, b, c

(* The part of the dump of an entry that has the signature.                *)
LEMMA OfEntryDump ==
  ASSUME platform \in Platforms, NEW t \in DOMAIN platform.table \cup {NULL},
         t # NULL => Sig(t) \notin RootSigns \cup {"FACS", "DSDT"}, NEW g
  PROVE  Of(EntryDump(t), g) = IF g = "FACS" THEN (IF IsFadt(t) THEN Dump(Facs(t), "FACS") ELSE <<>>)
                               ELSE IF g = "DSDT" THEN (IF IsFadt(t) THEN Dump(Dsdt(t), "DSDT") ELSE <<>>)
                               ELSE IF t # NULL /\ Sig(t) = g THEN Dump(t, g) ELSE <<>>
<1>1. CASE t = NULL
  BY <1>1, OfEmpty DEF EntryDump, IsFadt
<1>2. CASE t # NULL
  <2> DEFINE a == Dump(t, Sig(t))  b == Dump(Facs(t), "FACS")  c == Dump(Dsdt(t), "DSDT")
  <2>1. t \in Addrs /\ Facs(t) \in Addrs /\ Dsdt(t) \in Addrs /\ Sig(t) \in Sigs /\ "FACS" \in Sigs /\ "DSDT" \in Sigs
    BY <1>2 DEF Addrs, Sigs
  <2>2. a \in Seq(Items) /\ b \in Seq(Items) /\ c \in Seq(Items)
    BY <2>1, DumpIsSeq
  <2>3. /\ Of(a, g) = (IF Sig(t) = g THEN a ELSE <<>>) /\ Of(b, g) = (IF g = "FACS" THEN b ELSE <<>>)
        /\ Of(c, g) = (IF g = "DSDT" THEN c ELSE <<>>)
    BY OfDump
  <2>4. EntryDump(t) = a \o (IF IsFadt(t) THEN b \o c ELSE <<>>)
    BY <1>2 DEF EntryDump, IsFadt
  <2>5. Sig(t) = g => a = Dump(t, g)
    OBVIOUS
  <2> HIDE DEF a, b, c
  <2>6. b \o c \in Seq(Items) /\ Of(b \o c, g) = Of(b, g) \o Of(c, g)
    <3>1. b \o c \in Seq(Items)
      BY <2>2, Concats, Zenon
    <3>2. Of(b \o c, g) = Of(b, g) \o Of(c, g)
      BY <2>2, OfConcats, ZenonT(60)
    <3> QED
      BY <3>1, <3>2
  <2>7. CASE IsFadt(t)
    <3>1. Of(EntryDump(t), g) = Of(a, g) \o (Of(b, g) \o Of(c, g))
      <4>1. Of(a \o (b \o c), g) = Of(a, g) \o Of(b \o c, g)
        BY <2>2, <2>6, OfConcats, ZenonT(60)
      <4> QED
        BY <2>4, <2>6, <2>7, <4>1
    <3>2. Of(EntryDump(t), g) = IF g = "FACS" THEN b ELSE IF g = "DSDT" THEN c ELSE IF Sig(t) = g THEN a ELSE <<>>
      <4>1. a \o (<<>> \o <<>>) = a /\ <<>> \o (b \o <<>>) = b /\ <<>> \o (<<>> \o c) = c /\ <<>> \o (<<>> \o <<>>) = <<>>
        BY <2>2
      <4>2. Sig(t) # "FACS" /\ Sig(t) # "DSDT"
        BY <1>2
      <4> QED
        BY <2>3, <3>1, <4>1, <4>2
    <3> QED
      BY <1>2, <2>5, <2>7, <3>2 DEF b, c
  <2>8. CASE ~IsFadt(t)
    <3>1. EntryDump(t) = a
      BY <2>2, <2>4, <2>8
    <3> QED
      BY <1>2, <2>3, <2>5, <2>8, <3>1
  <2> QED
    BY <2>7, <2>8
<1> QED
  BY <1>1, <1>2

-----------------------------------------------------------------------------
(* One dump of an AML table at most, and that of a table of the machine.   *)
OneAml(s) == \A i \in 1..Len(s) :
  s[i].sig \in AmlKinds => s[i].addr \in DOMAIN platform.table /\ \A j \in 1..Len(s) : s[j].sig \in AmlKinds => j = i
NoAml(s) == \A i \in 1..Len(s) : s[i].sig \notin AmlKinds

(* At most one AML table in a concatenation.                               *)
LEMMA OneAmlConcat ==
  ASSUME NEW s \in Seq(Items), NEW t \in Seq(Items)
  PROVE  /\ NoAml(s) /\ NoAml(t) => NoAml(s \o t)
         /\ OneAml(s) /\ NoAml(t) => OneAml(s \o t)
         /\ NoAml(s) /\ OneAml(t) => OneAml(s \o t)
<1>1. /\ Len(s \o t) = Len(s) + Len(t) /\ Len(s) \in Nat /\ Len(t) \in Nat
      /\ \A i \in 1..Len(s \o t) :
           \/ i \in 1..Len(s) /\ (s \o t)[i] = s[i]
           \/ i - Len(s) \in 1..Len(t) /\ (s \o t)[i] = t[i - Len(s)]
  BY ConcatProperties
<1> DEFINE u == s \o t
<1>2. Len(u) = Len(s) + Len(t) /\ Len(s) \in Nat /\ Len(t) \in Nat
  BY <1>1
<1>3. \A i \in 1..Len(u) : (i \in 1..Len(s) /\ u[i] = s[i]) \/ (i - Len(s) \in 1..Len(t) /\ u[i] = t[i - Len(s)])
  BY <1>1
<1> HIDE DEF u
<1>4. NoAml(s) /\ NoAml(t) => NoAml(u)
  BY <1>2, <1>3 DEF NoAml
<1>5. OneAml(s) /\ NoAml(t) => OneAml(u)
  BY <1>2, <1>3 DEF NoAml, OneAml
<1>6. NoAml(s) /\ OneAml(t) => OneAml(u)
  <2>1. \A i, j \in 1..Len(u) : i - Len(s) = j - Len(s) => i = j
    BY <1>2
  <2> QED
    BY <1>2, <1>3, <2>1 DEF NoAml, OneAml
<1> QED
  BY <1>4, <1>5, <1>6 DEF u

(* The AML tables among the dump of one table.                             *)
LEMMA AmlOfDump ==
  ASSUME NEW t, NEW sig
  PROVE  /\ sig \notin AmlKinds => NoAml(Dump(t, sig))
         /\ t \in DOMAIN platform.table \cup {NULL} => OneAml(Dump(t, sig))
         /\ OneAml(<<>>) /\ NoAml(<<>>)
<1>1. NoAml(<<>>) /\ OneAml(<<>>)
  BY DEF NoAml, OneAml
<1>2. CASE t = NULL
  BY <1>1, <1>2 DEF Dump
<1>3. CASE t # NULL
  <2> DEFINE s == <<[addr |-> t, sig |-> sig]>>
  <2>1. Dump(t, sig) = s /\ Len(s) = 1 /\ s[1].sig = sig /\ s[1].addr = t
    BY <1>3 DEF Dump
  <2> HIDE DEF s
  <2> QED
    BY <1>1, <1>3, <2>1 DEF NoAml, OneAml
<1> QED
  BY <1>2, <1>3

(* Emit keeps what is known of the files.                                  *)
LEMMA EmitFiles ==
  ASSUME FilesInv, platform \in Platforms, UNCHANGED <<platform, data>>, data \in BOOLEAN, out \in Seq(Items),
         NEW dumps \in Seq(Items), NEW next, OneAml(dumps), Emit(dumps, next), pc' \notin {"constructors", "entry"}
  PROVE  FilesInv' /\ (out \in Seq(Items))'
<1>1. out' = out \o dumps /\ out' \in Seq(Items) /\ Items' = Items
  BY Unchanged, ConcatProperties DEF Emit
<1>2. \A k \in AmlKinds : Of(out', k) = Of(out, k) \o Of(dumps, k) /\ Of(out, k) \in Seq(Items) /\ Of(dumps, k) \in Seq(Items)
  <2>1. \A k : Of(out', k) = Of(out, k) \o Of(dumps, k)
    <3>1. \A k : Of(out \o dumps, k) = Of(out, k) \o Of(dumps, k)
      BY OfConcats, ZenonT(60)
    <3> QED
      BY <1>1, <3>1
  <2>2. \A k : Of(out, k) \in Seq(Items) /\ Of(dumps, k) \in Seq(Items)
    BY OfSeqs, Zenon
  <2> QED
    BY <2>1, <2>2
<1>3. PlatformForm(platform)
  BY AppAssumption
<1>4. \A name \in DOMAIN files : FileForm(name) /\ name \in AmlKinds \X (Nat \ {0}) /\ name[1] \in AmlKinds /\ name[2] \in Nat \ {0}
  BY DEF FilesInv
<1>5. \A o \in OldFiles : \A name \in DOMAIN o : o[name].table = NULL /\ o[name].len \in Nat
  BY AppAssumption
<1>6. CASE ~data
  <2>1. UNCHANGED <<fileIndex, files, failures>>
    BY <1>6 DEF Emit
  <2>2. ASSUME NEW name \in DOMAIN files' PROVE FileForm(name)'
    <3>1. name \in DOMAIN files /\ FileForm(name)
      BY <1>4, <2>1
    <3>2. PICK o \in OldFiles : name \in DOMAIN o /\ files[name] = o[name]
      BY <1>6, <3>1 DEF FileForm
    <3>3. files[name].table = NULL
      BY <1>5, <3>2
    <3> QED
      BY <2>1, <3>2, <3>3 DEF FileForm
  <2> QED
    BY <1>1, <1>6, <2>1, <2>2 DEF FilesInv
<1>7. CASE data /\ Aml(dumps) = {}
  <2>1. UNCHANGED <<fileIndex, files, failures>>
    BY <1>7 DEF Emit
  <2>2. ASSUME NEW k \in AmlKinds PROVE Of(out', k) = Of(out, k)
    <3>1. \A n \in 1..Len(dumps) : dumps[n].sig # k
      BY <1>7 DEF Aml
    <3>2. Of(dumps, k) = <<>>
      BY <3>1, OfNone
    <3>3. Of(out', k) = Of(out, k) \o Of(dumps, k) /\ Of(out, k) \in Seq(Items)
      BY <1>2
    <3>4. \A s \in Seq(Items) : s \o <<>> = s
      OBVIOUS
    <3> QED
      BY <3>2, <3>3, <3>4, Zenon
  <2>3. ASSUME NEW name \in DOMAIN files' PROVE FileForm(name)'
    <3>1. name \in DOMAIN files /\ FileForm(name) /\ Of(out', name[1]) = Of(out, name[1])
      BY <1>4, <2>1, <2>2
    <3> QED
      BY <2>1, <3>1 DEF FileForm
  <2>4. \A k \in AmlKinds : fileIndex[k] = Len(Of(out, k))
    BY <1>7 DEF FilesInv
  <2> QED
    BY <1>1, <2>1, <2>2, <2>3, <2>4 DEF FilesInv
<1>8. CASE data /\ Aml(dumps) # {}
  <2>1. PICK i \in Aml(dumps) : WriteAml(dumps[i].sig, dumps[i].addr)
    BY <1>8 DEF Emit
  <2>0. PICK name0 : name0 = <<dumps[i].sig, fileIndex[dumps[i].sig] + 1>>
    OBVIOUS
  <2> DEFINE kind == dumps[i].sig  t == dumps[i].addr
             old == IF name0 \in DOMAIN files THEN files[name0] ELSE [table |-> NULL, len |-> 0]
             new == platform.table[t].len
             Set(f) == [n \in DOMAIN files \cup {name0} |-> IF n = name0 THEN f ELSE files[n]]
  <2>2. i \in 1..Len(dumps) /\ kind \in AmlKinds /\ t \in DOMAIN platform.table /\ \A j \in 1..Len(dumps) : dumps[j].sig \in AmlKinds => j = i
    BY <2>1 DEF Aml, OneAml
  <2>3. /\ fileIndex' = [fileIndex EXCEPT ![kind] = @ + 1]
        /\ \/ files' = Set([table |-> t, len |-> IF old.len > new THEN old.len ELSE new]) /\ UNCHANGED failures
           \/ failures < MaxIoFailures /\ failures' = failures + 1 /\ (files' = Set(old) \/ files' = files)
    BY <2>0, <2>1 DEF WriteAml
  <2>4. new \in Nat
    BY <1>3, <2>2 DEF PlatformForm
  <2>5. Of(dumps, kind) = <<dumps[i]>> /\ \A k \in AmlKinds : k # kind => Of(dumps, k) = <<>>
    <3>1. Of(dumps, kind) = <<dumps[i]>>
      BY <2>2, OfSingle
    <3>2. ASSUME NEW k \in AmlKinds, k # kind PROVE Of(dumps, k) = <<>>
      <4>1. \A n \in 1..Len(dumps) : dumps[n].sig # k
        BY <2>2, <3>2
      <4> QED
        BY <4>1, OfNone
    <3> QED
      BY <3>1, <3>2
  <2>6. fileIndex \in [AmlKinds -> Nat] /\ \A k \in AmlKinds : fileIndex[k] = Len(Of(out, k))
    BY <1>8 DEF FilesInv
  <2>7. name0 \in AmlKinds \X (Nat \ {0}) /\ name0[1] = kind /\ name0[2] = fileIndex[kind] + 1
    BY <2>0, <2>2, <2>6
  <2>8. /\ fileIndex' \in [AmlKinds -> Nat] /\ fileIndex'[kind] = fileIndex[kind] + 1
        /\ \A k \in AmlKinds : k # kind => fileIndex'[k] = fileIndex[k]
    BY <2>2, <2>3, <2>6
  <2>9. /\ Len(Of(out', kind)) = Len(Of(out, kind)) + 1 /\ Of(out', kind)[Len(Of(out, kind)) + 1].addr = t
        /\ \A n \in 1..Len(Of(out, kind)) : Of(out', kind)[n] = Of(out, kind)[n]
        /\ \A k \in AmlKinds : k # kind => Of(out', k) = Of(out, k)
    <3>1. Of(out', kind) = Of(out, kind) \o <<dumps[i]>> /\ Of(out, kind) \in Seq(Items)
      BY <1>2, <2>2, <2>5
    <3>2. \A k \in AmlKinds : k # kind => Of(out', k) = Of(out, k)
      <4>1. \A s \in Seq(Items) : s \o <<>> = s
        BY ConcatEmptySeq
      <4> QED
        BY <1>2, <2>5, <4>1
    <3> DEFINE a == Of(out, kind)  b == Of(out', kind)
    <3>3. b = a \o <<dumps[i]>> /\ a \in Seq(Items) /\ dumps[i] \in Items
      BY <2>2, <3>1
    <3> HIDE DEF a, b
    <3>4. Len(b) = Len(a) + 1 /\ b[Len(a) + 1] = dumps[i] /\ \A n \in 1..Len(a) : b[n] = a[n]
      BY <3>3
    <3> QED
      BY <3>2, <3>4 DEF a, b
  <2> HIDE DEF kind, t
  (* the name the dump takes is one that only an earlier run has used *)
  <2>10. name0 \in DOMAIN files => \E o \in OldFiles : name0 \in DOMAIN o /\ files[name0] = o[name0]
    <3>1. fileIndex[kind] + 1 > fileIndex[kind]
      BY <2>2, <2>6
    <3> QED
      BY <1>4, <2>7, <3>1 DEF FileForm
  <2>11. old.table = NULL /\ old.len \in Nat
    BY <1>5, <2>10
  <2>12. old.len > new => old.len \in {o[name0].len : o \in {f \in OldFiles : name0 \in DOMAIN f}}
    <3>1. old.len > new => name0 \in DOMAIN files
      <4>1. 0 > new => FALSE
        BY <2>4
      <4> HIDE DEF new
      <4> QED
        BY <4>1
    <3> QED
      BY <2>10, <3>1
  <2> HIDE DEF old, new
  <2>13. \/ name0 \in DOMAIN files' /\ files'[name0] = [table |-> t, len |-> IF old.len > new THEN old.len ELSE new]
         \/ name0 \in DOMAIN files' /\ files'[name0] = old
         \/ files' = files
    BY <2>3
  <2>14. DOMAIN files' \subseteq DOMAIN files \cup {name0} /\ \A n \in DOMAIN files : n \in DOMAIN files' /\ (n # name0 => files'[n] = files[n])
    BY <2>3
  <2>15. failures' \in 0..MaxIoFailures
    BY <2>3, AppAssumption DEF FilesInv
  <2>16. ASSUME NEW name \in DOMAIN files', name # name0 PROVE FileForm(name)'
    <3>1. name \in DOMAIN files /\ files'[name] = files[name] /\ FileForm(name) /\ name[1] \in AmlKinds /\ name[2] \in Nat \ {0}
      BY <1>4, <2>14, <2>16
    <3>2. /\ name[2] <= Len(Of(out, name[1])) =>
               name[2] <= Len(Of(out', name[1])) /\ Of(out', name[1])[name[2]] = Of(out, name[1])[name[2]]
          /\ name[2] > fileIndex'[name[1]] => name[2] > fileIndex[name[1]]
      <4>1. PICK k \in AmlKinds, n \in Nat \ {0} : k = name[1] /\ n = name[2]
        BY <3>1
      <4>2. fileIndex[k] \in Nat /\ fileIndex'[k] >= fileIndex[k]
        BY <2>6, <2>8
      <4> DEFINE a == Of(out, k)  b == Of(out', k)
      <4>3. Len(a) = fileIndex[k] /\ (k = kind => Len(b) = Len(a) + 1 /\ \A x \in 1..Len(a) : b[x] = a[x]) /\ (k # kind => b = a)
        BY <2>6, <2>9
      <4> HIDE DEF a, b
      <4>4. n <= Len(a) => n <= Len(b) /\ b[n] = a[n]
        <5>1. SUFFICES ASSUME n <= Len(a) PROVE n <= Len(b) /\ b[n] = a[n]
          OBVIOUS
        <5>2. n \in 1..Len(a) /\ n <= Len(a) + 1
          BY <4>2, <4>3, <5>1
        <5> QED
          BY <4>3, <5>1, <5>2
      <4>5. n > fileIndex'[k] => n > fileIndex[k]
        BY <2>8, <4>1, <4>2
      <4> QED
        BY <4>1, <4>4, <4>5 DEF a, b
    <3> QED
      BY <1>8, <3>1, <3>2 DEF FileForm
  <2>17. ASSUME name0 \in DOMAIN files' PROVE FileForm(name0)'
    <3>1. ~(name0[2] > fileIndex'[name0[1]]) /\ data'
      BY <1>8, <2>2, <2>6, <2>7, <2>8
    <3>2. CASE files'[name0].table = NULL
      BY <3>1, <3>2 DEF FileForm
    <3>3. CASE files'[name0].table # NULL
      <4>1. files'[name0] = [table |-> t, len |-> IF old.len > new THEN old.len ELSE new]
        BY <2>11, <2>13, <2>17, <3>3 DEF old
      <4>2. files'[name0].table = t /\ files'[name0].len = (IF old.len > new THEN old.len ELSE new)
        BY <4>1
      <4>3. name0[2] <= Len(Of(out', name0[1])) /\ t = Of(out', name0[1])[name0[2]].addr
        BY <1>2, <2>2, <2>6, <2>7, <2>9
      <4>4. platform'.table[t].len = new
        BY DEF new
      <4> QED
        BY <2>4, <2>11, <2>12, <3>1, <4>2, <4>3, <4>4 DEF FileForm
    <3> QED
      BY <3>2, <3>3
  <2>18. \A k \in AmlKinds : fileIndex'[k] = Len(Of(out', k))
    BY <2>2, <2>6, <2>8, <2>9
  <2>19. DOMAIN files' \subseteq AmlKinds \X (Nat \ {0})
    BY <2>7, <2>14 DEF FilesInv
  <2> QED
    <3>1. \A name \in DOMAIN files' : FileForm(name)'
      BY <2>16, <2>17
    <3>2. (DOMAIN files)' \subseteq AmlKinds \X (Nat \ {0})
      BY <2>19
    <3>3. FilesInv'
      BY <2>8, <2>15, <2>18, <3>1, <3>2 DEF FilesInv
    <3> QED
      BY <1>1, <3>3
<1> QED
  BY <1>6, <1>7, <1>8

(* Files and dumps that stay what they are keep FilesInv.                  *)
LEMMA FilesSame ==
  ASSUME FilesInv, UNCHANGED <<platform, data, out, fileIndex, files, failures>>, pc' \notin {"constructors", "entry"}
  PROVE  FilesInv'
BY DEF FilesInv, FileForm

(* The names of the dump functions are not those of root tables.           *)
LEMMA FuncNames ==
  /\ \A g \in RootSigns \cup {"FACS", "DSDT", "FACP"} : FuncFor(g) = g
  /\ \A g : FuncFor(g) \in {g, "default"} /\ (g \notin RootSigns => FuncFor(g) = IF g \in Linked THEN g ELSE "default")
<1>1. Len(OwnFuncs) = 5 /\ OwnFuncs[1] = "FACP" /\ OwnFuncs[2] = "FACS" /\ OwnFuncs[3] = "DSDT"
  BY DEF OwnFuncs
<1>2. {"FACS", "DSDT", "FACP"} \subseteq Linked
  BY <1>1 DEF Members, Linked
<1> QED
  BY <1>2 DEF FuncFor

(* DumpSelectAcpiTable dumps by the registered function.                   *)
LEMMA DumpSelectIs ==
  ASSUME RegistryInv, pc \notin {"constructors", "entry"}, NEW t, Sig(t) \notin RootSigns
  PROVE  DumpSelectAcpiTable(t) = Dump(t, FuncFor(Sig(t)))
<1>1. Members(registry) = Linked
  BY DEF RegistryInv
<1> QED
  BY <1>1, FuncNames DEF DumpSelectAcpiTable, GetDumpAcpiTableFunc

(* What a round of DumpAcpiAllTable's loop emits for a table.              *)
LEMMA EntryEmits ==
  ASSUME PlaceInv, RegistryInv, pc \notin {"constructors", "entry"}, NEW t \in DOMAIN platform.table, t # NULL,
         Sig(t) \notin RootSigns \cup {"FACS", "DSDT"}
  PROVE  LET d == DumpSelectAcpiTable(t)
                  \o IF Sig(t) = "FACP" THEN Dump(Facs(t), "FACS") \o Dump(Dsdt(t), "DSDT") ELSE <<>>
         IN  d \in Seq(Items) /\ OneAml(d) /\ d = Dumped(EntryDump(t))
<1> DEFINE a == Dump(t, Sig(t))  b == Dump(Facs(t), "FACS")  c == Dump(Dsdt(t), "DSDT")
           a1 == Dump(t, FuncFor(Sig(t)))
<1>1. platform \in Platforms /\ PlatformForm(platform)
  BY AppAssumption DEF PlaceInv
<1>2. Dsdt(t) \in DOMAIN platform.table \cup {NULL}
  BY <1>1 DEF PlatformForm, Dsdt, Pointer
<1>3. DumpSelectAcpiTable(t) = a1
  BY DumpSelectIs
<1>4. a \in Seq(Items) /\ b \in Seq(Items) /\ c \in Seq(Items) /\ a1 \in Seq(Items)
  <2>1. t \in Addrs /\ Facs(t) \in Addrs /\ Dsdt(t) \in Addrs /\ Sig(t) \in Sigs /\ "FACS" \in Sigs /\ "DSDT" \in Sigs /\ FuncFor(Sig(t)) \in Sigs
    <3>1. FuncFor(Sig(t)) \in {Sig(t), "default"}
      BY FuncNames
    <3> QED
      BY <3>1 DEF Addrs, Sigs
  <2> QED
    BY <2>1, DumpIsSeq
<1>5. Dumped(a) = a1 /\ Dumped(b) = b /\ Dumped(c) = c
  BY DumpedDump, FuncNames
<1>6. NoAml(b) /\ OneAml(c) /\ OneAml(a1) /\ (Sig(t) = "FACP" => NoAml(a1))
  <2>1. "FACS" \notin AmlKinds /\ (Sig(t) = "FACP" => FuncFor(Sig(t)) \notin AmlKinds)
    BY FuncNames DEF AmlKinds
  <2> QED
    BY <1>2, <2>1, AmlOfDump
<1>7. EntryDump(t) = a \o IF Sig(t) = "FACP" THEN b \o c ELSE <<>>
  BY DEF EntryDump
<1> HIDE DEF a, b, c, a1
<1>8. CASE Sig(t) = "FACP"
  <2>1. b \o c \in Seq(Items)
    BY <1>4, Concats, Zenon
  <2>2. a1 \o (b \o c) \in Seq(Items)
    BY <1>4, <2>1, Concats, Zenon
  <2>3. OneAml(b \o c)
    BY <1>4, <1>6, OneAmlConcat
  <2>4. OneAml(a1 \o (b \o c))
    BY <1>4, <1>6, <1>8, <2>1, <2>3, OneAmlConcat
  <2>5. Dumped(b \o c) = b \o c
    <3>1. Dumped(b \o c) = Dumped(b) \o Dumped(c)
      BY <1>4, DumpedConcats, Zenon
    <3> QED
      BY <1>5, <3>1
  <2>6. Dumped(a \o (b \o c)) = a1 \o (b \o c)
    <3>1. Dumped(a \o (b \o c)) = Dumped(a) \o Dumped(b \o c)
      BY <1>4, <2>1, DumpedConcats, Zenon
    <3> QED
      BY <1>5, <2>5, <3>1
  <2> QED
    BY <1>3, <1>7, <1>8, <2>2, <2>4, <2>6 DEF b, c
<1>9. CASE Sig(t) # "FACP"
  <2>1. a \o <<>> = a /\ a1 \o <<>> = a1
    BY <1>4, ConcatEmptySeq
  <2> QED
    BY <1>3, <1>4, <1>5, <1>6, <1>7, <1>9, <2>1
<1> QED
  BY <1>8, <1>9

(* The full dump up to the next entry.                                     *)
LEMMA NextEntry ==
  ASSUME platform \in Platforms, NEW n \in 0..Len(RootEntries), n < Len(RootEntries)
  PROVE  /\ n + 1 \in 1..Len(RootEntries) /\ n + 1 \in 0..Len(RootEntries)
         /\ RootEntries[n + 1] \in DOMAIN platform.table \cup {NULL}
         /\ EntryDumps[n] \in Seq(Items) /\ EntryDump(RootEntries[n + 1]) \in Seq(Items)
         /\ EntryDumps[n + 1] = EntryDumps[n] \o EntryDump(RootEntries[n + 1])
         /\ RootEntries[n + 1] # NULL => Sig(RootEntries[n + 1]) \notin RootSigns \cup {"FACS", "DSDT"}
         /\ \A g : Of(EntryDumps[n + 1], g) = Of(EntryDumps[n], g) \o Of(EntryDump(RootEntries[n + 1]), g)
<1>1. n + 1 \in 1..Len(RootEntries) /\ n + 1 \in 0..Len(RootEntries) /\ (n + 1) - 1 = n
  BY RootsForm
<1>2. /\ RootEntries[n + 1] \in DOMAIN platform.table \cup {NULL}
      /\ RootEntries[n + 1] # NULL => Sig(RootEntries[n + 1]) \notin RootSigns \cup {"FACS", "DSDT"}
  BY <1>1, RootsForm
<1>3. EntryDumps[n] \in Seq(Items) /\ EntryDump(RootEntries[n + 1]) \in Seq(Items)
  BY <1>2, EntryDumpsAre, EntryDumpIsSeq
<1>4. EntryDumps[n + 1] = EntryDumps[n] \o EntryDump(RootEntries[n + 1])
  BY <1>1, EntryDumpsAre
<1>5. \A g : Of(EntryDumps[n] \o EntryDump(RootEntries[n + 1]), g) = Of(EntryDumps[n], g) \o Of(EntryDump(RootEntries[n + 1]), g)
  BY <1>3, OfConcats, ZenonT(60)
<1> QED
  BY <1>1, <1>2, <1>3, <1>4, <1>5

(* No root entry has the signature of a root table, and with another one   *)
(* the root tables have no part in what is selected.                       *)
LEMMA OfFullDump ==
  ASSUME platform \in Platforms, Rsdp # NULL, NEW g
  PROVE  /\ FullDump = RootDump \o EntryDumps[Len(RootEntries)] /\ FullDump \in Seq(Items)
         /\ g \in RootSigns => Of(FullDump, g) = Of(RootDump, g)
         /\ g \notin RootSigns => Of(FullDump, g) = Of(EntryDumps[Len(RootEntries)], g)
<1> DEFINE m == Len(RootEntries)  S == {n \in Nat : n <= m => Of(EntryDumps[n], g) = <<>>}
<1>1. m \in Nat /\ m \in 0..m
  BY RootsForm
<1>2. RootDump \in Seq(Items) /\ EntryDumps[m] \in Seq(Items)
  BY <1>1, RootDumpIsSeq, EntryDumpsAre
<1>3. FullDump = RootDump \o EntryDumps[m]
  BY DEF FullDump, RootDump
<1>4. FullDump \in Seq(Items)
  BY <1>2, <1>3, Concats
<1>5. Of(RootDump \o EntryDumps[m], g) = Of(RootDump, g) \o Of(EntryDumps[m], g)
  BY <1>2, OfConcats, ZenonT(60)
<1>6. Of(RootDump, g) \in Seq(Items) /\ Of(EntryDumps[m], g) \in Seq(Items)
  BY <1>2, OfSeqs, Zenon
<1>7. CASE g \in RootSigns
  <2> HIDE DEF m
  <2>1. ASSUME NEW n \in Nat, n \in S PROVE n + 1 \in S
    <3>1. SUFFICES ASSUME n + 1 <= m PROVE Of(EntryDumps[n + 1], g) = <<>>
      OBVIOUS
    <3>2. n \in 0..m /\ n < m /\ Of(EntryDumps[n], g) = <<>>
      BY <1>1, <2>1, <3>1
    <3>3. /\ Of(EntryDumps[n + 1], g) = Of(EntryDumps[n], g) \o Of(EntryDump(RootEntries[n + 1]), g)
          /\ RootEntries[n + 1] \in DOMAIN platform.table \cup {NULL}
          /\ RootEntries[n + 1] # NULL => Sig(RootEntries[n + 1]) \notin RootSigns \cup {"FACS", "DSDT"}
      BY <3>2, NextEntry DEF m
    <3>4. Of(EntryDump(RootEntries[n + 1]), g) = <<>>
      <4>1. g # "FACS" /\ g # "DSDT"
        BY <1>7 DEF RootSigns
      <4> QED
        BY <1>7, <3>3, <4>1, OfEntryDump
    <3> QED
      BY <3>2, <3>3, <3>4
  <2>2. 0 \in S
    BY EntryDumpsAre, OfEmpty
  <2>3. Nat \subseteq S
    <3> HIDE DEF S
    <3> QED
      BY <2>1, <2>2, Induction
  <2>4. Of(EntryDumps[m], g) = <<>>
    BY <1>1, <2>3
  <2> QED
    BY <1>3, <1>4, <1>5, <1>6, <1>7, <2>4 DEF m
<1>8. CASE g \notin RootSigns
  <2>1. Of(RootDump, g) = <<>>
    BY <1>8, OfRootDump DEF RootSigns
  <2> QED
    BY <1>3, <1>4, <1>5, <1>6, <1>8, <2>1
<1> QED
  BY <1>7, <1>8

-----------------------------------------------------------------------------
(* Init keeps AppInv.                                                      *)
LEMMA InitKeeps == Init => AppInv
<1> SUFFICES ASSUME Init PROVE AppInv
  OBVIOUS
<1>1. PlaceInv
  BY DEF Init, PlaceInv, InLoop
<1>2. RegistryInv
  <2>1. <<>> \in Seq(Linked) /\ Len(<<>>) = 0 /\ 1..0 = {}
    OBVIOUS
  <2>2. Members(<<>>) = {} /\ Cardinality({}) = 0
    BY <2>1, FS_EmptySet DEF Members
  <2> QED
    BY <2>1, <2>2 DEF Init, RegistryInv, Registry
<1>3. SubInv
  BY DEF Init, SubInv
<1>4. OutInv
  <2>1. <<>> \in Seq(Items)
    OBVIOUS
  <2> QED
    BY <2>1 DEF Init, OutInv, Ran
<1>5. FilesInv
  <2>1. fileIndex \in [AmlKinds -> Nat] /\ failures \in 0..MaxIoFailures /\ ~data /\ \A k \in AmlKinds : fileIndex[k] = 0
    BY AppAssumption DEF Init
  <2>2. files \in OldFiles /\ DOMAIN files \subseteq AmlKinds \X (Nat \ {0})
    BY AppAssumption DEF Init
  <2>3. \A name \in DOMAIN files : FileForm(name)
    BY <2>2, AppAssumption DEF FileForm
  <2> QED
    BY <2>1, <2>2, <2>3 DEF FilesInv
<1> QED
  BY <1>1, <1>2, <1>3, <1>4, <1>5 DEF AppInv

(* Stutter keeps AppInv.                                                   *)
LEMMA StutterKeeps == AppInv /\ UNCHANGED vars => AppInv'
<1> SUFFICES ASSUME AppInv, UNCHANGED vars PROVE AppInv'
  OBVIOUS
<1> USE DEF vars, appVars
<1>1. /\ Rsdp' = Rsdp /\ ScanAcpiRSDT' = ScanAcpiRSDT /\ ScanAcpiXSDT' = ScanAcpiXSDT /\ RootEntries' = RootEntries
      /\ EntryDumps' = EntryDumps /\ RootDump' = RootDump /\ FullDump' = FullDump /\ Items' = Items
  BY Unchanged
<1>2. PlaceInv'
  BY <1>1 DEF AppInv, PlaceInv, InLoop
<1>3. RegistryInv'
  BY DEF AppInv, RegistryInv
<1>4. SubInv'
  BY <1>1 DEF AppInv, SubInv, IsFadt, Sig
<1>5. OutInv'
  BY <1>1 DEF AppInv, OutInv, Ran
<1>6. FilesInv'
  BY DEF AppInv, FilesInv, FileForm
<1> QED
  BY <1>2, <1>3, <1>4, <1>5, <1>6 DEF AppInv

(* Constructors keeps AppInv.                                              *)
LEMMA ConstructorsKeeps == AppInv /\ Constructors => AppInv'
<1> SUFFICES ASSUME AppInv, Constructors PROVE AppInv'
  OBVIOUS
<1> USE DEF Constructors
<1>1. /\ Rsdp' = Rsdp /\ RootEntries' = RootEntries /\ EntryDumps' = EntryDumps /\ Items' = Items
  BY Unchanged
<1>2. PlaceInv'
  BY DEF AppInv, PlaceInv, InLoop
<1>3. RegistryInv'
  <2>1. Registry(registry) /\ Members(registry) = {}
    BY DEF AppInv, RegistryInv
  <2>2. Registry(Registered(registry, LibraryFuncs)) /\ Members(Registered(registry, LibraryFuncs)) = Members(LibraryFuncs)
    <3>1. /\ Registry(Registered(registry, LibraryFuncs))
          /\ Members(Registered(registry, LibraryFuncs)) = Members(registry) \cup Members(LibraryFuncs)
      BY <2>1, RegisteredAll, LinkedFinite
    <3> QED
      BY <2>1, <3>1
  <2> QED
    BY <2>2 DEF RegistryInv
<1>4. SubInv'
  BY DEF AppInv, SubInv
<1>5. OutInv'
  BY <1>1 DEF AppInv, OutInv, Ran
<1>6. FilesInv'
  BY DEF AppInv, PlaceInv, FilesInv, FileForm
<1> QED
  BY <1>2, <1>3, <1>4, <1>5, <1>6 DEF AppInv

(* EntryPoint keeps AppInv.                                                *)
LEMMA EntryPointKeeps == AppInv /\ DumpACPIEntryPoint => AppInv'
<1> SUFFICES ASSUME AppInv, DumpACPIEntryPoint PROVE AppInv'
  OBVIOUS
<1> USE DEF DumpACPIEntryPoint
<1>1. /\ Rsdp' = Rsdp /\ RootEntries' = RootEntries /\ EntryDumps' = EntryDumps /\ Items' = Items
  BY Unchanged
<1>2. PlaceInv'
  <2>1. CASE line.parses /\ ~line.help
    <3>1. data' \in BOOLEAN /\ verb' \in BOOLEAN
      BY <2>1, AppAssumption DEF AppInv, PlaceInv
    <3> QED
      BY <2>1, <3>1 DEF AppInv, PlaceInv, InLoop
  <2>2. CASE ~(line.parses /\ ~line.help)
    BY <2>2 DEF AppInv, PlaceInv, InLoop
  <2> QED
    BY <2>1, <2>2
<1>3. RegistryInv'
  <2>1. Registry(registry) /\ Members(registry) = Members(LibraryFuncs)
    BY DEF AppInv, RegistryInv
  <2>2. Registry(Registered(registry, OwnFuncs)) /\ Members(Registered(registry, OwnFuncs)) = Linked
    BY <2>1, RegisteredAll, LinkedFinite DEF Linked
  <2>3. pc' \notin {"constructors", "entry"}
    OBVIOUS
  <2> QED
    BY <2>2, <2>3 DEF RegistryInv
<1>4. SubInv'
  BY DEF AppInv, SubInv
<1>5. OutInv'
  <2>1. ~Ran' /\ pc' \notin {"all_loop", "sign_loop"}
    BY DEF Ran
  <2> QED
    BY <1>1, <2>1 DEF AppInv, OutInv
<1>6. FilesInv'
  <2>1. out = <<>> /\ ~data /\ \A k \in AmlKinds : fileIndex[k] = 0
    BY DEF AppInv, PlaceInv, FilesInv
  <2>2. \A k \in AmlKinds : fileIndex[k] = Len(Of(out, k))
    BY <2>1, OfEmpty
  <2>3. ASSUME NEW name \in DOMAIN files PROVE FileForm(name)'
    <3>1. \E o \in OldFiles : name \in DOMAIN o /\ files[name] = o[name]
      BY <2>1 DEF AppInv, FilesInv, FileForm
    <3>2. files[name].table = NULL
      BY <3>1, AppAssumption
    <3> QED
      BY <3>1, <3>2 DEF FileForm
  <2> QED
    BY <2>2, <2>3 DEF AppInv, FilesInv
<1> QED
  BY <1>2, <1>3, <1>4, <1>5, <1>6 DEF AppInv

(* NoRsdp keeps AppInv.                                                    *)
LEMMA NoRsdpKeeps == AppInv /\ NoRsdp => AppInv'
<1> SUFFICES ASSUME AppInv, NoRsdp PROVE AppInv'
  OBVIOUS
<1> USE DEF NoRsdp, appVars
<1>1. Rsdp' = Rsdp /\ FullDump' = FullDump /\ Items' = Items
  BY Unchanged
<1>2. PlaceInv'
  BY DEF AppInv, PlaceInv, InLoop
<1>3. RegistryInv'
  BY DEF AppInv, RegistryInv
<1>4. SubInv'
  BY DEF AppInv, SubInv
<1>5. OutInv'
  <2>1. FullDump = <<>> /\ out = <<>>
    BY DEF FullDump, AppInv, PlaceInv
  <2>2. Dumped(<<>>) = <<>>
    <3>1. 1..0 = {} /\ Len(<<>>) = 0
      OBVIOUS
    <3> QED
      BY <3>1 DEF Dumped
  <2> QED
    BY <1>1, <2>1, <2>2, OfEmpty DEF AppInv, OutInv, Ran
<1>6. FilesInv'
  BY FilesSame DEF AppInv
<1> QED
  BY <1>2, <1>3, <1>4, <1>5, <1>6 DEF AppInv

(* SelectNullEntry keeps AppInv.                                           *)
LEMMA SelectNullEntryKeeps == AppInv /\ SelectNullEntry => AppInv'
<1> SUFFICES ASSUME AppInv, SelectNullEntry PROVE AppInv'
  OBVIOUS
<1> USE DEF SelectNullEntry, appVars
<1>1. Rsdp' = Rsdp /\ Items' = Items
  BY Unchanged
<1>2. PlaceInv'
  BY DEF AppInv, PlaceInv, InLoop
<1>3. RegistryInv'
  BY DEF AppInv, RegistryInv
<1>4. SubInv'
  BY DEF AppInv, SubInv
<1>5. OutInv'
  BY <1>1 DEF AppInv, OutInv, Ran
<1>6. FilesInv'
  BY FilesSame DEF AppInv
<1> QED
  BY <1>2, <1>3, <1>4, <1>5, <1>6 DEF AppInv

(* DumpRoots keeps AppInv.                                                 *)
LEMMA DumpRootsKeeps == AppInv /\ DumpRoots => AppInv'
<1> SUFFICES ASSUME AppInv, DumpRoots PROVE AppInv'
  OBVIOUS
<1> DEFINE dumps == Dump(Rsdp, "RSDP") \o Dump(ScanAcpiRSDT, "RSDT") \o Dump(ScanAcpiXSDT, "XSDT")
<1>1. /\ Rsdp' = Rsdp /\ ScanAcpiRSDT' = ScanAcpiRSDT /\ ScanAcpiXSDT' = ScanAcpiXSDT /\ RootEntries' = RootEntries
      /\ EntryDumps' = EntryDumps /\ RootDump' = RootDump /\ FullDump' = FullDump /\ Items' = Items
  BY Unchanged DEF DumpRoots
<1>0. pc' \in {"all_loop", "undefined"}
  BY DEF DumpRoots, Emit, FreeFileName
<1>2. PlaceInv'
  <2>1. 0 \in 0..Len(RootEntries)
    BY RootsForm DEF AppInv, PlaceInv
  <2> QED
    BY <1>0, <1>1, <2>1 DEF AppInv, PlaceInv, InLoop, DumpRoots
<1>3. RegistryInv'
  BY <1>0 DEF AppInv, RegistryInv, DumpRoots
<1>4. SubInv'
  BY <1>0 DEF AppInv, SubInv, DumpRoots
<1>5. platform \in Platforms /\ Rsdp # NULL /\ out = <<>>
  BY DEF AppInv, PlaceInv, DumpRoots
<1>6. dumps = RootDump /\ RootDump \in Seq(Items) /\ Dumped(RootDump) = RootDump /\ OneAml(RootDump)
  <2> DEFINE a == Dump(Rsdp, "RSDP")  b == Dump(ScanAcpiRSDT, "RSDT")  c == Dump(ScanAcpiXSDT, "XSDT")
  <2>1. a \in Seq(Items) /\ b \in Seq(Items) /\ c \in Seq(Items) /\ RootDump = (a \o b) \o c /\ RootDump \in Seq(Items)
    BY <1>5, RootDumpIsSeq DEF RootDump
  <2>2. Dumped(a) = a /\ Dumped(b) = b /\ Dumped(c) = c
    BY DumpedDump, FuncNames DEF RootSigns
  <2>3. NoAml(a) /\ NoAml(b) /\ NoAml(c)
    BY AmlOfDump DEF AmlKinds
  <2> HIDE DEF a, b, c
  <2>4. a \o b \in Seq(Items)
    BY <2>1, Concats, Zenon
  <2>5. NoAml(a \o b)
    BY <2>1, <2>3, OneAmlConcat
  <2>6. NoAml((a \o b) \o c)
    BY <2>1, <2>3, <2>4, <2>5, OneAmlConcat
  <2>7. Dumped(a \o b) = Dumped(a) \o Dumped(b)
    BY <2>1, DumpedConcats, Zenon
  <2>8. Dumped((a \o b) \o c) = Dumped(a \o b) \o Dumped(c)
    BY <2>1, <2>4, DumpedConcats, Zenon
  <2>9. OneAml((a \o b) \o c)
    BY <2>6 DEF NoAml, OneAml
  <2> QED
    BY <2>1, <2>2, <2>7, <2>8, <2>9 DEF RootDump
<1> HIDE DEF dumps
<1>7. Emit(dumps, "all_loop")
  BY DEF DumpRoots, dumps
<1>8. PICK d : d = dumps
  OBVIOUS
<1>9. FilesInv' /\ (out \in Seq(Items))'
  <2>1. d \in Seq(Items) /\ OneAml(d) /\ Emit(d, "all_loop")
    BY <1>6, <1>7, <1>8
  <2> QED
    BY <1>0, <1>5, <2>1, EmitFiles DEF AppInv, PlaceInv, OutInv, DumpRoots
<1>10. OutInv'
  <2>0. CASE pc' = "undefined"
    BY <1>9, <2>0 DEF OutInv, Ran
  <2>1. out' = RootDump
    <3>1. out' = <<>> \o RootDump
      BY <1>5, <1>6, <1>7 DEF Emit
    <3> QED
      BY <1>6, <3>1
  <2>2. RootDump \o EntryDumps[0] = RootDump
    BY <1>5, <1>6, EntryDumpsAre
  <2>3. index' = 0
    BY DEF DumpRoots, AppInv, PlaceInv
  <2>4. out' = Dumped(RootDump \o EntryDumps[index'])
    BY <1>6, <2>1, <2>2, <2>3
  <2>5. Dumped(RootDump \o EntryDumps[index'])  = Dumped(RootDump \o EntryDumps[index])'
    BY <1>1 DEF Dumped
  <2>6. CASE pc' = "all_loop"
    BY <1>9, <2>4, <2>5, <2>6 DEF OutInv, Ran
  <2> QED
    BY <1>0, <2>0, <2>6
<1> QED
  BY <1>2, <1>3, <1>4, <1>9, <1>10 DEF AppInv

(* DumpEntry keeps AppInv.                                                 *)
LEMMA DumpEntryKeeps == AppInv /\ DumpEntry => AppInv'
<1> SUFFICES ASSUME AppInv, DumpEntry PROVE AppInv'
  OBVIOUS
<1> DEFINE t == RootEntries[index + 1]
<1>1. /\ Rsdp' = Rsdp /\ ScanAcpiRSDT' = ScanAcpiRSDT /\ ScanAcpiXSDT' = ScanAcpiXSDT /\ RootEntries' = RootEntries
      /\ EntryDumps' = EntryDumps /\ RootDump' = RootDump /\ FullDump' = FullDump /\ Items' = Items
  BY Unchanged DEF DumpEntry
<1>2. platform \in Platforms /\ Rsdp # NULL /\ index \in 0..Len(RootEntries) /\ pc = "all_loop" /\ InLoop
  BY DEF AppInv, PlaceInv, DumpEntry, InLoop
<1>3. Entry = t /\ index < Len(RootEntries)
  BY <1>2, LoopEntries DEF AppInv, DumpEntry
<1>4. /\ index + 1 \in 1..Len(RootEntries) /\ index + 1 \in 0..Len(RootEntries)
      /\ t \in DOMAIN platform.table \cup {NULL}
      /\ EntryDumps[index] \in Seq(Items) /\ EntryDump(t) \in Seq(Items)
      /\ EntryDumps[index + 1] = EntryDumps[index] \o EntryDump(t)
      /\ t # NULL => Sig(t) \notin RootSigns \cup {"FACS", "DSDT"}
  BY <1>2, <1>3, NextEntry
<1> HIDE DEF t
<1>5. pc' \in {"all_loop", "undefined"} /\ index' = index + 1
  BY <1>2 DEF DumpEntry, Emit, FreeFileName
<1>6. PlaceInv'
  BY <1>1, <1>2, <1>4, <1>5 DEF AppInv, PlaceInv, InLoop, DumpEntry
<1>7. RegistryInv'
  BY <1>2, <1>5 DEF AppInv, RegistryInv, DumpEntry
<1>8. SubInv'
  <2>1. t # NULL => Dsdt(t) \in DOMAIN platform.table \cup {NULL}
    BY <1>2, <1>4, AppAssumption DEF PlatformForm, Dsdt, Pointer
  <2>2. sub2' \in {sub2, Dsdt(t)} /\ (t = NULL => sub2' = sub2)
    BY <1>3 DEF DumpEntry
  <2> QED
    BY <1>5, <2>1, <2>2 DEF AppInv, SubInv, DumpEntry
<1>9. /\ FilesInv' /\ (out \in Seq(Items))' /\ out' = out \o Dumped(EntryDump(t))
  <2>1. CASE t = NULL
    <3>1. UNCHANGED <<platform, data, out, fileIndex, files, failures>>
      BY <1>3, <2>1 DEF DumpEntry
    <3>2. EntryDump(t) = <<>> /\ Dumped(<<>>) = <<>> /\ out \o <<>> = out
      <4>1. 1..0 = {} /\ Len(<<>>) = 0
        OBVIOUS
      <4> QED
        BY <2>1, <4>1 DEF EntryDump, Dumped, AppInv, OutInv
    <3> QED
      BY <1>1, <1>5, <3>1, <3>2, FilesSame DEF AppInv, OutInv
  <2>2. CASE t # NULL
    <3>1. PICK d : d = DumpSelectAcpiTable(t)
                       \o IF Sig(t) = "FACP" THEN Dump(Facs(t), "FACS") \o Dump(Dsdt(t), "DSDT") ELSE <<>>
      OBVIOUS
    <3>2. Emit(d, pc)
      BY <1>3, <2>2, <3>1 DEF DumpEntry
    <3>3. d \in Seq(Items) /\ OneAml(d) /\ d = Dumped(EntryDump(t))
      BY <1>2, <1>4, <2>2, <3>1, EntryEmits DEF AppInv
    <3>4. FilesInv' /\ (out \in Seq(Items))'
      BY <1>2, <1>5, <3>2, <3>3, EmitFiles DEF AppInv, PlaceInv, OutInv, DumpEntry
    <3> QED
      BY <3>2, <3>3, <3>4 DEF Emit
  <2> QED
    BY <2>1, <2>2
<1>10. OutInv'
  <2> DEFINE a == RootDump  b == EntryDumps[index]  c == EntryDump(t)
  <2>1. out = Dumped(a \o b)
    BY <1>2 DEF AppInv, OutInv
  <2>2. a \in Seq(Items) /\ b \in Seq(Items) /\ c \in Seq(Items)
    BY <1>2, <1>4, RootDumpIsSeq
  <2>3. EntryDumps[index'] = b \o c
    BY <1>4, <1>5
  <2> HIDE DEF a, b, c
  <2>4. a \o b \in Seq(Items)
    BY <2>2, Concats, Zenon
  <2>5. Dumped((a \o b) \o c) = Dumped(a \o b) \o Dumped(c)
    BY <2>2, <2>4, DumpedConcats, Zenon
  <2>6. (a \o b) \o c = a \o (b \o c)
    BY <2>2, ConcatAssociative
  <2>7. out' = Dumped(a \o (b \o c))
    BY <1>9, <2>1, <2>5, <2>6 DEF c
  <2>8. out' = Dumped(RootDump \o EntryDumps[index'])
    BY <2>3, <2>7 DEF a
  <2>9. Dumped(RootDump \o EntryDumps[index']) = Dumped(RootDump \o EntryDumps[index])'
    BY <1>1 DEF Dumped
  <2>10. CASE pc' = "all_loop"
    BY <1>9, <2>8, <2>9, <2>10 DEF OutInv, Ran
  <2>11. CASE pc' = "undefined"
    BY <1>9, <2>11 DEF OutInv, Ran
  <2> QED
    BY <1>5, <2>10, <2>11
<1> QED
  BY <1>6, <1>7, <1>8, <1>9, <1>10 DEF AppInv

(* SelectRoots keeps AppInv.                                               *)
LEMMA SelectRootsKeeps == AppInv /\ SelectRoots => AppInv'
<1> SUFFICES ASSUME AppInv, SelectRoots PROVE AppInv'
  OBVIOUS
<1>1. /\ Rsdp' = Rsdp /\ ScanAcpiRSDT' = ScanAcpiRSDT /\ ScanAcpiXSDT' = ScanAcpiXSDT /\ RootEntries' = RootEntries
      /\ EntryDumps' = EntryDumps /\ RootDump' = RootDump /\ FullDump' = FullDump /\ Items' = Items
  BY Unchanged DEF SelectRoots
<1>2. platform \in Platforms /\ Rsdp # NULL /\ out = <<>> /\ index = 0 /\ sub1 = NULL /\ sub2 = NULL /\ line.sign # None
  BY DEF AppInv, PlaceInv, SelectRoots
<1>3. pc' = "undefined" \/ pc' = IF line.sign \in RootSigns THEN "done" ELSE "sign_loop"
  BY DEF SelectRoots, RootSigns, Emit, FreeFileName
<1>4. PlaceInv'
  <2>1. 0 \in 0..Len(RootEntries)
    BY <1>2, RootsForm
  <2> QED
    BY <1>1, <1>2, <1>3, <2>1 DEF AppInv, PlaceInv, InLoop, SelectRoots
<1>5. RegistryInv'
  BY <1>3 DEF AppInv, RegistryInv, SelectRoots
<1>6. SubInv'
  <2>1. EntryDumps[0] = <<>> /\ Dump(NULL, "FACS") = <<>> /\ Dump(NULL, "DSDT") = <<>> /\ Of(<<>>, "FACS") = <<>> /\ Of(<<>>, "DSDT") = <<>>
    BY <1>2, EntryDumpsAre, OfEmpty DEF Dump
  <2>2. index' = 0 /\ sub1' = NULL /\ sub2' = NULL
    BY <1>2 DEF SelectRoots
  <2> QED
    BY <1>1, <2>1, <2>2 DEF SubInv, Dump
<1>7. PICK d : d = CASE line.sign = "RSDP" -> Dump(Rsdp, "RSDP") [] line.sign = "RSDT" -> Dump(ScanAcpiRSDT, "RSDT")
                     [] line.sign = "XSDT" -> Dump(ScanAcpiXSDT, "XSDT") [] OTHER -> <<>>
  OBVIOUS
<1>8. Emit(d, IF line.sign \in RootSigns THEN "done" ELSE "sign_loop")
  BY <1>7 DEF SelectRoots, RootSigns
<1>9. d \in Seq(Items) /\ OneAml(d) /\ Dumped(d) = d /\ d = Of(RootDump, line.sign)
  <2>1. d = Of(RootDump, line.sign)
    BY <1>2, <1>7, OfRootDump
  <2>2. \E x, g : d = Dump(x, g) /\ g \in RootSigns
    BY <1>7 DEF RootSigns, Dump
  <2>3. PICK x, g : d = Dump(x, g) /\ g \in RootSigns
    BY <2>2
  <2>4. Dumped(d) = d
    BY <2>3, DumpedDump, FuncNames
  <2>5. OneAml(d)
    <3>1. NoAml(Dump(x, g))
      BY <2>3, AmlOfDump DEF AmlKinds, RootSigns
    <3> QED
      BY <2>3, <3>1 DEF NoAml, OneAml
  <2>6. d \in Seq(Items)
    BY <1>2, <2>1, RootDumpIsSeq, OfSeqs
  <2> QED
    BY <2>1, <2>4, <2>5, <2>6
<1>10. FilesInv' /\ (out \in Seq(Items))'
  BY <1>2, <1>3, <1>8, <1>9, EmitFiles DEF AppInv, PlaceInv, OutInv, SelectRoots
<1>11. ASSUME pc' = "undefined" PROVE OutInv'
  BY <1>10, <1>11 DEF OutInv, Ran
<1>12. ASSUME pc' # "undefined" PROVE OutInv'
  <2>1. out' = d
    <3>1. out' = <<>> \o d
      BY <1>2, <1>8 DEF Emit
    <3> QED
      BY <1>9, <3>1
  <2>2. CASE line.sign \in RootSigns
    <3>1. out' = Dumped(Of(FullDump, line.sign))
      BY <1>2, <1>9, <2>1, <2>2, OfFullDump
    <3>2. Dumped(Of(FullDump, line.sign))' = Dumped(Of(FullDump, line.sign))
      BY <1>1 DEF Dumped, SelectRoots
    <3>3. pc' = "done" /\ line' = line /\ line.sign # None
      BY <1>2, <1>3, <1>12, <2>2 DEF SelectRoots
    <3> QED
      BY <1>10, <3>1, <3>2, <3>3 DEF OutInv, Ran
  <2>3. CASE line.sign \notin RootSigns
    <3>1. d = <<>>
      BY <1>7, <2>3 DEF RootSigns
    <3>2. EntryDumps[0] = <<>> /\ Of(<<>>, line.sign) = <<>> /\ Dumped(<<>>) = <<>>
      <4>1. 1..0 = {} /\ Len(<<>>) = 0
        OBVIOUS
      <4> QED
        BY <1>2, <4>1, EntryDumpsAre, OfEmpty DEF Dumped
    <3>3. pc' = "sign_loop" /\ line' = line /\ index' = 0
      BY <1>2, <1>3, <1>12, <2>3 DEF SelectRoots
    <3>4. Dumped(Of(EntryDumps[index], line.sign))' = <<>>
      BY <1>1, <3>2, <3>3 DEF Dumped
    <3> QED
      BY <1>10, <2>1, <3>1, <3>3, <3>4 DEF OutInv, Ran
  <2> QED
    BY <2>2, <2>3
<1> QED
  BY <1>4, <1>5, <1>6, <1>10, <1>11, <1>12 DEF AppInv

(* SelectEntry keeps AppInv.                                               *)
LEMMA SelectEntryKeeps == AppInv /\ SelectEntry => AppInv'
<1> SUFFICES ASSUME AppInv, SelectEntry PROVE AppInv'
  OBVIOUS
<1> DEFINE t == RootEntries[index + 1]
<1>1. /\ Rsdp' = Rsdp /\ ScanAcpiRSDT' = ScanAcpiRSDT /\ ScanAcpiXSDT' = ScanAcpiXSDT /\ RootEntries' = RootEntries
      /\ EntryDumps' = EntryDumps /\ RootDump' = RootDump /\ FullDump' = FullDump /\ Items' = Items
  BY Unchanged DEF SelectEntry
<1>2. /\ platform \in Platforms /\ Rsdp # NULL /\ index \in 0..Len(RootEntries) /\ pc = "sign_loop" /\ InLoop
      /\ line.sign # None /\ line.sign \notin RootSigns
  BY DEF AppInv, PlaceInv, SelectEntry, InLoop
<1>3. Entry = t /\ index < Len(RootEntries)
  BY <1>2, LoopEntries DEF AppInv, SelectEntry
<1>4. /\ index + 1 \in 1..Len(RootEntries) /\ index + 1 \in 0..Len(RootEntries)
      /\ t \in DOMAIN platform.table \cup {NULL}
      /\ EntryDumps[index] \in Seq(Items) /\ EntryDump(t) \in Seq(Items)
      /\ t # NULL => Sig(t) \notin RootSigns \cup {"FACS", "DSDT"}
      /\ \A g : Of(EntryDumps[index + 1], g) = Of(EntryDumps[index], g) \o Of(EntryDump(t), g)
  BY <1>2, <1>3, NextEntry
<1>5. IsFadt(t) => \A i \in 1..index : ~IsFadt(RootEntries[i])
  BY <1>2, <1>4, RootsForm
<1> HIDE DEF t
<1>6. pc' \in {"sign_loop", "undefined"} /\ index' = index + 1 /\ t # NULL /\ line' = line
  BY <1>2, <1>3 DEF SelectEntry, Emit, FreeFileName
<1>7. t \in DOMAIN platform.table /\ Sig(t) \notin RootSigns /\ Sig(t) # "FACS" /\ Sig(t) # "DSDT"
  BY <1>4, <1>6
<1>8. PlaceInv'
  BY <1>1, <1>2, <1>4, <1>6 DEF AppInv, PlaceInv, InLoop, SelectEntry
<1>9. RegistryInv'
  BY <1>2, <1>6 DEF AppInv, RegistryInv, SelectEntry
<1>10. \A g : Of(EntryDumps[index], g) \in Seq(Items)
  BY <1>4, OfSeqs
<1>11. SubInv'
  <2>1. Dsdt(t) \in DOMAIN platform.table \cup {NULL}
    BY <1>2, <1>7, AppAssumption DEF PlatformForm, Dsdt, Pointer
  <2>2. /\ Of(EntryDumps[index], "FACS") = Dump(sub1, "FACS") /\ Of(EntryDumps[index], "DSDT") = Dump(sub2, "DSDT")
        /\ (\A i \in 1..index : ~IsFadt(RootEntries[i])) => sub1 = NULL /\ sub2 = NULL
        /\ sub2 \in DOMAIN platform.table \cup {NULL}
    BY <1>2 DEF AppInv, SubInv
  <2>3. /\ sub1' = (IF IsFadt(t) THEN Facs(t) ELSE sub1) /\ sub2' = (IF IsFadt(t) THEN Dsdt(t) ELSE sub2)
    BY <1>3, <1>6 DEF SelectEntry, IsFadt
  <2>4. /\ Of(EntryDump(t), "FACS") = (IF IsFadt(t) THEN Dump(Facs(t), "FACS") ELSE <<>>)
        /\ Of(EntryDump(t), "DSDT") = (IF IsFadt(t) THEN Dump(Dsdt(t), "DSDT") ELSE <<>>)
    BY <1>2, <1>4, OfEntryDump
  <2>5. Of(EntryDumps[index + 1], "FACS") = Dump(sub1', "FACS") /\ Of(EntryDumps[index + 1], "DSDT") = Dump(sub2', "DSDT")
    <3>1. CASE IsFadt(t)
      <4>1. Dump(sub1, "FACS") = <<>> /\ Dump(sub2, "DSDT") = <<>>
        BY <1>5, <2>2, <3>1 DEF Dump
      <4>2. <<>> \o Dump(Facs(t), "FACS") = Dump(Facs(t), "FACS") /\ <<>> \o Dump(Dsdt(t), "DSDT") = Dump(Dsdt(t), "DSDT")
        <5>1. Dump(Facs(t), "FACS") \in Seq(Items) /\ Dump(Dsdt(t), "DSDT") \in Seq(Items)
          BY <1>4, <2>4, <3>1, OfSeqs
        <5> QED
          BY <5>1
      <4> QED
        BY <1>4, <2>2, <2>3, <2>4, <3>1, <4>1, <4>2
    <3>2. CASE ~IsFadt(t)
      <4>1. Dump(sub1, "FACS") \o <<>> = Dump(sub1, "FACS") /\ Dump(sub2, "DSDT") \o <<>> = Dump(sub2, "DSDT")
        BY <1>10, <2>2
      <4> QED
        BY <1>4, <2>2, <2>3, <2>4, <3>2, <4>1
    <3> QED
      BY <3>1, <3>2
  <2>6. (\A i \in 1..index + 1 : ~IsFadt(RootEntries[i])) => sub1' = NULL /\ sub2' = NULL
    <3>1. (\A i \in 1..index + 1 : ~IsFadt(RootEntries[i])) => ~IsFadt(t) /\ \A i \in 1..index : ~IsFadt(RootEntries[i])
      BY <1>2, <1>4 DEF t
    <3> QED
      BY <2>2, <2>3, <3>1
  <2>7. platform' = platform /\ sub2' \in DOMAIN platform.table \cup {NULL}
    BY <2>1, <2>2, <2>3 DEF SelectEntry
  <2>8. \A i \in 1..index' : IsFadt(RootEntries[i])' = IsFadt(RootEntries[i])
    BY <1>1 DEF IsFadt, Sig, SelectEntry
  <2> QED
    BY <1>1, <1>6, <2>5, <2>6, <2>7, <2>8 DEF SubInv, Dump
<1>12. PICK d : d = IF Sig(t) = line.sign THEN DumpSelectAcpiTable(t) ELSE <<>>
  OBVIOUS
<1>13. Emit(d, pc)
  BY <1>3, <1>12 DEF SelectEntry
<1>14. d = (IF Sig(t) = line.sign THEN Dump(t, FuncFor(Sig(t))) ELSE <<>>) /\ d \in Seq(Items) /\ OneAml(d)
  <2>1. DumpSelectAcpiTable(t) = Dump(t, FuncFor(Sig(t)))
    BY <1>2, <1>7, DumpSelectIs DEF AppInv
  <2>2. Dump(t, FuncFor(Sig(t))) \in Seq(Items)
    <3>1. t \in Addrs /\ FuncFor(Sig(t)) \in Sigs
      BY <1>7, FuncNames DEF Addrs, Sigs
    <3> QED
      BY <3>1, DumpIsSeq
  <2>3. OneAml(Dump(t, FuncFor(Sig(t)))) /\ OneAml(<<>>) /\ <<>> \in Seq(Items)
    BY <1>7, AmlOfDump
  <2> QED
    BY <1>12, <2>1, <2>2, <2>3
<1>15. FilesInv' /\ (out \in Seq(Items))'
  BY <1>2, <1>6, <1>13, <1>14, EmitFiles DEF AppInv, PlaceInv, OutInv, SelectEntry
<1>16. OutInv'
  <2> DEFINE g == line.sign  e == EntryDump(t)  b == Of(EntryDumps[index], g)
  <2>1. out = (IF g \in {"FACS", "DSDT"} THEN <<>> ELSE Dumped(b)) /\ out' = out \o d
    BY <1>2, <1>13 DEF AppInv, OutInv, Emit
  <2>2. CASE g \in {"FACS", "DSDT"}
    <3>1. d = <<>>
      BY <1>7, <1>14, <2>2
    <3>2. out' = <<>>
      BY <2>1, <2>2, <3>1
    <3> QED
      BY <1>6, <1>15, <2>2, <3>2 DEF OutInv, Ran
  <2>3. CASE g \notin {"FACS", "DSDT"}
    <3>1. Of(e, g) = (IF Sig(t) = g THEN Dump(t, g) ELSE <<>>)
      BY <1>2, <1>4, <1>6, <2>3, OfEntryDump
    <3>2. d = Dumped(Of(e, g))
      <4>1. Dumped(<<>>) = <<>>
        <5>1. 1..0 = {} /\ Len(<<>>) = 0
          OBVIOUS
        <5> QED
          BY <5>1 DEF Dumped
      <4>2. Dumped(Dump(t, g)) = Dump(t, FuncFor(g))
        BY DumpedDump
      <4> QED
        BY <1>14, <3>1, <4>1, <4>2
    <3>3. b \in Seq(Items) /\ Of(e, g) \in Seq(Items)
      BY <1>4, <1>10, OfSeqs
    <3>4. Dumped(b \o Of(e, g)) = Dumped(b) \o Dumped(Of(e, g))
      BY <3>3, DumpedConcats
    <3>5. out' = Dumped(Of(EntryDumps[index'], g))
      BY <1>4, <1>6, <2>1, <2>3, <3>2, <3>4
    <3>6. Dumped(Of(EntryDumps[index], line.sign))' = Dumped(Of(EntryDumps[index'], g))
      BY <1>1, <1>6 DEF Dumped
    <3> QED
      BY <1>6, <1>15, <2>3, <3>5, <3>6 DEF OutInv, Ran
  <2> QED
    BY <2>2, <2>3
<1> QED
  BY <1>8, <1>9, <1>11, <1>15, <1>16 DEF AppInv

(* LoopEnds keeps AppInv.                                                  *)
LEMMA LoopEndsKeeps == AppInv /\ LoopEnds => AppInv'
<1> SUFFICES ASSUME AppInv, LoopEnds PROVE AppInv'
  OBVIOUS
<1>1. Rsdp' = Rsdp /\ FullDump' = FullDump /\ Items' = Items
  BY Unchanged DEF LoopEnds
<1>2. platform \in Platforms /\ Rsdp # NULL /\ index \in 0..Len(RootEntries) /\ InLoop
  BY DEF AppInv, PlaceInv, LoopEnds, InLoop
<1>3. index = Len(RootEntries) /\ EntryDumps[index] \in Seq(Items)
  <2>1. index >= Len(RootEntries) /\ Len(RootEntries) \in Nat
    BY <1>2, LoopEntries, RootsForm DEF AppInv, LoopEnds
  <2> QED
    BY <1>2, <2>1, EntryDumpsAre
<1>4. pc' \in {"done", "undefined"} /\ line' = line
  BY DEF LoopEnds, Emit, FreeFileName
<1>5. PlaceInv'
  BY <1>4 DEF AppInv, PlaceInv, InLoop, LoopEnds, appVars
<1>6. RegistryInv'
  BY <1>2, <1>4 DEF AppInv, RegistryInv, LoopEnds, appVars, InLoop
<1>7. SubInv'
  BY <1>4 DEF AppInv, SubInv, LoopEnds, appVars
<1>8. PICK d : d = CASE pc = "sign_loop" /\ line.sign = "FACS" -> Dump(sub1, "FACS")
                     [] pc = "sign_loop" /\ line.sign = "DSDT" -> Dump(sub2, "DSDT")
                     [] OTHER -> <<>>
  OBVIOUS
<1>9. Emit(d, "done")
  BY <1>8 DEF LoopEnds
<1>10. d \in Seq(Items) /\ OneAml(d)
  <2>1. <<>> \in Seq(Items) /\ OneAml(<<>>)
    BY AmlOfDump
  <2>2. pc = "sign_loop" => Dump(sub1, "FACS") \in Seq(Items) /\ Dump(sub2, "DSDT") \in Seq(Items)
    BY <1>3, OfSeqs DEF AppInv, SubInv
  <2>3. OneAml(Dump(sub2, "DSDT"))
    BY AmlOfDump DEF AppInv, SubInv
  <2>4. OneAml(Dump(sub1, "FACS"))
    <3>1. NoAml(Dump(sub1, "FACS"))
      BY AmlOfDump DEF AmlKinds
    <3> QED
      BY <3>1 DEF NoAml, OneAml
  <2> QED
    BY <1>8, <2>1, <2>2, <2>3, <2>4
<1>11. FilesInv' /\ (out \in Seq(Items))'
  BY <1>2, <1>4, <1>9, <1>10, EmitFiles DEF AppInv, PlaceInv, OutInv, LoopEnds, appVars
<1>12. out' = out \o d /\ out \in Seq(Items)
  BY <1>9 DEF Emit, AppInv, OutInv
<1>13. FullDump = RootDump \o EntryDumps[index] /\ \A g : g \notin RootSigns => Of(FullDump, g) = Of(EntryDumps[index], g)
  BY <1>2, <1>3, OfFullDump
<1>14. out' = Dumped(IF line.sign = None THEN FullDump ELSE Of(FullDump, line.sign))
  <2>1. CASE pc = "all_loop"
    <3>1. d = <<>> /\ line.sign = None /\ out = Dumped(FullDump)
      BY <1>8, <1>13, <2>1 DEF AppInv, PlaceInv, OutInv
    <3> QED
      BY <1>12, <3>1
  <2>2. CASE pc = "sign_loop"
    <3>1. line.sign # None /\ Of(FullDump, line.sign) = Of(EntryDumps[index], line.sign)
      BY <1>13, <2>2 DEF AppInv, PlaceInv
    <3>2. CASE line.sign \notin {"FACS", "DSDT"}
      <4>1. d = <<>> /\ out = Dumped(Of(EntryDumps[index], line.sign))
        BY <1>8, <2>2, <3>2 DEF AppInv, OutInv
      <4> QED
        BY <1>12, <3>1, <4>1
    <3>3. CASE line.sign \in {"FACS", "DSDT"}
      <4>1. out = <<>> /\ out' = d
        BY <1>10, <1>12, <2>2, <3>3 DEF AppInv, OutInv
      <4>2. d = Of(EntryDumps[index], line.sign)
        BY <1>8, <2>2, <3>3 DEF AppInv, SubInv
      <4>3. Dumped(d) = d
        <5>1. Dumped(Dump(sub1, "FACS")) = Dump(sub1, "FACS") /\ Dumped(Dump(sub2, "DSDT")) = Dump(sub2, "DSDT")
          BY DumpedDump, FuncNames
        <5> QED
          BY <1>8, <2>2, <3>3, <5>1
      <4> QED
        BY <3>1, <4>1, <4>2, <4>3
    <3> QED
      BY <3>2, <3>3
  <2> QED
    BY <1>2, <2>1, <2>2 DEF InLoop
<1>15. OutInv'
  <2>1. Dumped(IF line.sign = None THEN FullDump ELSE Of(FullDump, line.sign))'
        = Dumped(IF line.sign = None THEN FullDump ELSE Of(FullDump, line.sign))
    BY <1>1, <1>4 DEF Dumped
  <2> QED
    BY <1>4, <1>11, <1>14, <2>1 DEF OutInv, Ran
<1> QED
  BY <1>5, <1>6, <1>7, <1>11, <1>15 DEF AppInv

-----------------------------------------------------------------------------
(* The parts of the properties that follow from the invariant.             *)
LEMMA TypesHold == AppInv => TypeOK
<1> SUFFICES ASSUME AppInv PROVE TypeOK
  OBVIOUS
<1>1. Len(registry) <= MaxFuncs
  <2>1. registry \in Seq(Linked) /\ Cardinality(Members(registry)) = Len(registry)
    BY DEF AppInv, RegistryInv, Registry
  <2>2. Members(registry) \subseteq Linked
    BY <2>1, MembersFinite
  <2>3. Cardinality(Members(registry)) <= Cardinality(Linked) /\ Cardinality(Linked) \in Nat
    BY <2>2, LinkedFinite, FS_Subset, FS_CardinalityType
  <2> QED
    BY <2>1, <2>3, AppAssumption
<1>2. pc \in {"all_loop", "sign_loop"} =>
        IF Root = NULL THEN index = 0 ELSE index \in 0..Len(platform.root[Root].entries)
  <2>1. SUFFICES ASSUME InLoop PROVE IF Root = NULL THEN index = 0 ELSE index \in 0..Len(platform.root[Root].entries)
    BY DEF InLoop
  <2>2. Rsdp # NULL /\ rsdt = ScanAcpiRSDT /\ xsdt = ScanAcpiXSDT /\ index \in 0..Len(RootEntries)
    BY <2>1 DEF AppInv, PlaceInv
  <2>3. CASE Root = NULL
    <3>1. RootEntries = <<>> /\ Len(<<>>) = 0
      BY <2>2, <2>3 DEF Root, RootEntries
    <3> QED
      BY <2>2, <2>3, <3>1
  <2>4. CASE Root # NULL
    BY <2>2, <2>4 DEF Root, RootEntries
  <2> QED
    BY <2>3, <2>4
<1> QED
  BY <1>1, <1>2 DEF AppInv, PlaceInv, FilesInv, TypeOK

(* The full dump is a sequence of items.                                   *)
LEMMA FullDumpIsSeq ==
  ASSUME platform \in Platforms
  PROVE  FullDump \in Seq(Items)
<1>1. CASE Rsdp = NULL
  <2>1. <<>> \in Seq(Items)
    OBVIOUS
  <2> QED
    BY <1>1, <2>1 DEF FullDump
<1>2. CASE Rsdp # NULL
  BY <1>2, OfFullDump
<1> QED
  BY <1>1, <1>2

(* The registered functions dump the same tables.                          *)
LEMMA AddressesDumped ==
  ASSUME NEW s \in Seq(Items)
  PROVE  Addresses(Dumped(s)) = Addresses(s)
<1>1. Len(Dumped(s)) = Len(s) /\ Len(s) \in Nat
  BY DumpedIsSeq
<1>2. \A i \in 1..Len(s) : Dumped(s)[i].addr = s[i].addr
  BY DEF Dumped
<1> QED
  BY <1>1, <1>2 DEF Addresses

(* What has been dumped of the full dump is what is asked for.             *)
LEMMA OutputHolds == AppInv => AllTablesDumped /\ SignSelects /\ DispatchedRight
<1> SUFFICES ASSUME AppInv, Ran PROVE AllTablesDumped /\ SignSelects /\ DispatchedRight
  BY DEF AllTablesDumped, SignSelects, DispatchedRight
<1> DEFINE shown == IF line.sign = None THEN FullDump ELSE Of(FullDump, line.sign)
<1>1. out = Dumped(shown)
  BY DEF AppInv, OutInv
<1>2. FullDump \in Seq(Items)
  BY FullDumpIsSeq DEF AppInv, PlaceInv
<1>3. shown \in Seq(Items)
  BY <1>2, OfSeqs
<1>4. shown \in Seq(Members(FullDump))
  <2>1. FullDump \in Seq(Members(FullDump))
    BY <1>2 DEF Members
  <2>2. Of(FullDump, line.sign) \in Seq(Members(FullDump))
    BY <2>1, OfIsSeq
  <2> QED
    BY <2>1, <2>2
<1>5. Addresses(out) = Addresses(shown)
  BY <1>1, <1>3, AddressesDumped
<1>6. AllTablesDumped /\ SignSelects
  BY <1>5 DEF AllTablesDumped, SignSelects
<1> HIDE DEF shown
<1>7. \A i \in 1..Len(out) : shown[i] \in Members(FullDump) /\ out[i] = [addr |-> shown[i].addr, sig |-> FuncFor(shown[i].sig)]
  <2>1. Len(out) = Len(shown)
    BY <1>1, <1>3, DumpedIsSeq
  <2> QED
    BY <1>1, <1>3, <1>4, <2>1 DEF Dumped
<1>8. DispatchedRight
  BY <1>7 DEF DispatchedRight, FuncFor
<1> QED
  BY <1>6, <1>8

(* Where a run of DumpACPI is determines what it has dumped of the full    *)
(* dump of the machine and what each .aml file holds.                      *)
THEOREM AppInvariant == Spec => []AppInv
<1>1. Init => AppInv
  BY InitKeeps
<1>2. AppInv /\ [Next]_vars => AppInv'
  BY StutterKeeps, ConstructorsKeeps, EntryPointKeeps, NoRsdpKeeps, DumpRootsKeeps, DumpEntryKeeps,
     SelectRootsKeeps, SelectEntryKeeps, SelectNullEntryKeeps, LoopEndsKeeps DEF Next
<1> QED
  BY <1>1, <1>2, PTL DEF Spec

(* A run of DumpACPI dumps the tables the command line asks for, every one *)
(* and in order, each by the function its library or DumpACPI has for it.  *)
THEOREM TablesAreRight == Spec => []TablesRight
<1>1. AppInv => TablesRight
  BY TypesHold, OutputHolds DEF TablesRight
<1> QED
  BY <1>1, AppInvariant, PTL

(* The n-th dump of a kind of AML table is what Kind_n.aml begins with.    *)
THEOREM AmlFilesHold == Spec => []AmlFilesMatch
<1>1. AppInv => AmlFilesMatch
  BY DEF AppInv, FilesInv, FileForm, AmlFilesMatch
<1> QED
  BY <1>1, AppInvariant, PTL
=============================================================================
