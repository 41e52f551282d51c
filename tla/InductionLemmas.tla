-------------------------- MODULE InductionLemmas --------------------------
(***************************************************************************)
(* Induction, and what it gives for the operators the models take from the *)
(* community modules: sums over finite sets, and the places of the parts   *)
(* of a flattened sequence.                                                *)
(*                                                                         *)
(* The induction theorems of the library speak of any predicate.  These    *)
(* speak of any set, that of the things with the property, which the       *)
(* provers can be given.                                                   *)
(***************************************************************************)
EXTENDS Integers, FiniteSets, SequencesExt, SequenceTheorems, FiniteSetTheorems,
        WellFoundedInduction, TLAPS

\* A set that has 0, and with each number the next one, has them all.
LEMMA SetInduction ==
  ASSUME NEW S, 0 \in S, \A n \in Nat : n \in S => n + 1 \in S
  PROVE  Nat \subseteq S
<1> SUFFICES ASSUME Nat \ S # {} PROVE FALSE
  OBVIOUS
<1>1. PICK x \in Nat \ S : \A y \in Nat \ S : ~(<<y, x>> \in OpToRel(<, Nat))
  BY NatLessThanWellFounded, WFMin
<1>2. \A y \in Nat : y < x => y \in S
  BY <1>1 DEF OpToRel
<1>3. x # 0 /\ x - 1 \in Nat /\ x - 1 < x /\ x = (x - 1) + 1
  OBVIOUS
<1> QED
  BY <1>1, <1>2, <1>3

\* A set has every subset of a finite one when it has each whose own subsets it
\* has.
LEMMA SizeInduction ==
  ASSUME NEW S, IsFiniteSet(S), NEW Good, 
         \A s \in SUBSET S : (\A r \in SUBSET s : r # s => r \in Good) => s \in Good
  PROVE  SUBSET S \subseteq Good
<1> DEFINE Upto == {n \in Nat : \A s \in SUBSET S : Cardinality(s) <= n => s \in Good}
<1>s. \A s \in SUBSET S : IsFiniteSet(s) /\ Cardinality(s) \in Nat
  BY FS_Subset, FS_CardinalityType
<1>e. \A s \in SUBSET S : Cardinality(s) = 0 => s = {}
  BY <1>s, FS_EmptySet
<1>r. \A s \in SUBSET S : \A r \in SUBSET s : r # s => Cardinality(r) < Cardinality(s)
  BY <1>s, FS_Subset
<1>1. 0 \in Upto
  BY <1>s, <1>e
<1>2. ASSUME NEW n \in Nat, n \in Upto PROVE n + 1 \in Upto
  <2> SUFFICES ASSUME NEW s \in SUBSET S, Cardinality(s) <= n + 1 PROVE s \in Good
    OBVIOUS
  <2>1. ASSUME NEW r \in SUBSET s, r # s PROVE r \in Good
    <3>1. Cardinality(r) <= n /\ r \in SUBSET S
      BY <1>s, <1>r, <2>1
    <3> QED
      BY <1>2, <3>1
  <2> QED
    BY <2>1
<1>3. Nat \subseteq Upto
  <2> HIDE DEF Upto
  <2> QED
    BY <1>1, <1>2, SetInduction
<1> QED
  BY <1>3, <1>s

-----------------------------------------------------------------------------
(* Sums *)

\* The equation of the recursive function in MapThenFoldSet, for a sum.
Chosen(s) == CHOOSE x \in s : TRUE
Total(f, g, s) == IF s = {} THEN 0 ELSE f[Chosen(s)] + g[s \ {Chosen(s)}]
IsTotal(g, f, S) == g = [s \in SUBSET S |-> Total(f, g, s)]

\* The recursion on the subsets of a finite set has a solution.
LEMMA TotalsExist ==
  ASSUME NEW S, IsFiniteSet(S), NEW f
  PROVE  \E g : IsTotal(g, f, S)
<1> DEFINE Upto(n) == \E g : \A s \in SUBSET S : Cardinality(s) <= n => g[s] = Total(f, g, s)
<1>s. \A s \in SUBSET S : IsFiniteSet(s) /\ Cardinality(s) \in Nat
  BY FS_Subset, FS_CardinalityType
<1>r. \A s \in SUBSET S : s # {} => 
        /\ Chosen(s) \in s /\ s \ {Chosen(s)} \in SUBSET S
        /\ Cardinality(s \ {Chosen(s)}) = Cardinality(s) - 1
  BY <1>s, FS_RemoveElement DEF Chosen
<1>e. \A s \in SUBSET S : Cardinality(s) = 0 => s = {}
  BY <1>s, FS_EmptySet
<1>1. Upto(0)
  <2> DEFINE g == [s \in SUBSET S |-> 0]
  <2>1. \A s \in SUBSET S : Cardinality(s) <= 0 => g[s] = Total(f, g, s)
    BY <1>s, <1>e DEF Total
  <2> QED
    BY <2>1
<1>2. ASSUME NEW n \in Nat, Upto(n) PROVE Upto(n + 1)
  <2>1. PICK g : \A s \in SUBSET S : Cardinality(s) <= n => g[s] = Total(f, g, s)
    BY <1>2
  <2> DEFINE h == [s \in SUBSET S |-> Total(f, g, s)]
  <2>2. ASSUME NEW s \in SUBSET S, Cardinality(s) <= n PROVE h[s] = g[s]
    BY <2>1, <2>2
  <2>3. ASSUME NEW s \in SUBSET S, Cardinality(s) <= n + 1 PROVE h[s] = Total(f, h, s)
    <3>1. h[s] = Total(f, g, s)
      OBVIOUS
    <3>2. CASE s = {}
      BY <3>1, <3>2 DEF Total
    <3>3. CASE s # {}
      <4>1. h[s \ {Chosen(s)}] = g[s \ {Chosen(s)}]
        <5>1. s \ {Chosen(s)} \in SUBSET S /\ Cardinality(s \ {Chosen(s)}) <= n
          BY <1>s, <1>r, <2>3, <3>3
        <5> HIDE DEF h
        <5> QED
          BY <5>1, <2>2
      <4> QED
        BY <3>1, <4>1 DEF Total
    <3> QED
      BY <3>2, <3>3
  <2> HIDE DEF h
  <2> QED
    BY <2>3
<1>3. \A n \in Nat : Upto(n)
  <2> DEFINE Ns == {n \in Nat : Upto(n)}
  <2> HIDE DEF Upto
  <2>1. 0 \in Ns /\ \A n \in Nat : n \in Ns => n + 1 \in Ns
    BY <1>1, <1>2
  <2> QED
    BY <2>1, SetInduction
<1>4. PICK g : \A s \in SUBSET S : Cardinality(s) <= Cardinality(S) => g[s] = Total(f, g, s)
  BY <1>3, <1>s
<1>5. \A s \in SUBSET S : g[s] = Total(f, g, s)
  BY <1>4, <1>s, FS_Subset
<1> DEFINE h == [s \in SUBSET S |-> g[s]]
<1>6. \A s \in SUBSET S : h[s] = Total(f, h, s)
  BY <1>5, <1>r DEF Total
<1>7. IsTotal(h, f, S)
  BY <1>6 DEF IsTotal
<1> QED
  BY <1>7

\* The sum is the value of such a solution.
LEMMA SumIsTotal ==
  ASSUME NEW S, IsFiniteSet(S), NEW f
  PROVE  \E g : IsTotal(g, f, S) /\ SumFunctionOnSet(f, S) = g[S]
<1> DEFINE G == CHOOSE g : IsTotal(g, f, S)
<1>1. IsTotal(G, f, S)
  BY TotalsExist
<1>2. SumFunctionOnSet(f, S) = G[S]
  BY DEF SumFunctionOnSet, FoldFunctionOnSet, MapThenFoldSet, IsTotal, Total, Chosen
<1> QED
  BY <1>1, <1>2

\* Two solutions agree wherever they sum up the same terms.
LEMMA TotalsAgree ==
  ASSUME NEW S, IsFiniteSet(S), NEW T \in SUBSET S, NEW f, NEW k,
         NEW g, IsTotal(g, f, S),
         NEW h, IsTotal(h, k, T),
         \A i \in T : f[i] = k[i]
  PROVE  g[T] = h[T]
<1> DEFINE Good == {s \in SUBSET T : g[s] = h[s]}
<1>f. IsFiniteSet(T)
  BY FS_Subset
<1>1. ASSUME NEW s \in SUBSET T, \A r \in SUBSET s : r # s => r \in Good
      PROVE  s \in Good
  <2>1. g[s] = Total(f, g, s) /\ h[s] = Total(k, h, s)
    BY DEF IsTotal
  <2>2. CASE s = {}
    BY <2>1, <2>2 DEF Total
  <2>3. CASE s # {}
    <3>1. Chosen(s) \in s
      BY <2>3 DEF Chosen
    <3>2. s \ {Chosen(s)} \in Good
      BY <1>1, <3>1
    <3> QED
      BY <2>1, <3>1, <3>2 DEF Total
  <2> QED
    BY <2>2, <2>3
<1>2. SUBSET T \subseteq Good
  <2> HIDE DEF Good
  <2> QED
    BY <1>f, <1>1, SizeInduction
<1> QED
  BY <1>2

\* Whatever element is taken first, the sum is the same.
LEMMA AnyFirst ==
  ASSUME NEW S, IsFiniteSet(S), NEW f, \A i \in S : f[i] \in Int,
         NEW g, IsTotal(g, f, S)
  PROVE  \A s \in SUBSET S : g[s] \in Int /\ \A y \in s : g[s] = f[y] + g[s \ {y}]
<1> DEFINE Good == {s \in SUBSET S : g[s] \in Int /\ \A y \in s : g[s] = f[y] + g[s \ {y}]}
<1>1. ASSUME NEW s \in SUBSET S, \A r \in SUBSET s : r # s => r \in Good
      PROVE  s \in Good
  <2>1. g[s] = Total(f, g, s)
    BY DEF IsTotal
  <2>2. CASE s = {}
    BY <2>1, <2>2 DEF Total
  <2>3. CASE s # {}
    <3> DEFINE x == Chosen(s)
    <3>1. x \in s
      BY <2>3 DEF Chosen
    <3> HIDE DEF x
    <3>2. g[s] = f[x] + g[s \ {x}]
      BY <2>1, <2>3 DEF Total, x
    <3>3. s \ {x} \in Good
      BY <1>1, <3>1
    <3>4. g[s \ {x}] \in Int /\ f[x] \in Int
      BY <3>1, <3>3
    <3>5. ASSUME NEW y \in s, y # x PROVE g[s] = f[y] + g[s \ {y}]
      <4>1. s \ {y} \in Good /\ (s \ {y}) \ {x} \in Good
        BY <1>1, <3>1, <3>5
      <4>2. g[s \ {x}] = f[y] + g[(s \ {x}) \ {y}]
        BY <3>3, <3>5
      <4>3. g[s \ {y}] = f[x] + g[(s \ {y}) \ {x}]
        BY <4>1, <3>1, <3>5
      <4>4. (s \ {x}) \ {y} = (s \ {y}) \ {x}
        OBVIOUS
      <4>5. f[y] \in Int /\ g[(s \ {y}) \ {x}] \in Int
        BY <4>1
      <4> DEFINE rest == g[(s \ {y}) \ {x}]
      <4>6. /\ rest \in Int /\ f[x] \in Int /\ f[y] \in Int
            /\ g[s] = f[x] + (f[y] + rest) /\ g[s \ {y}] = f[x] + rest
        BY <3>2, <3>4, <4>2, <4>3, <4>4, <4>5
      <4> HIDE DEF rest
      <4> QED
        BY <4>6
    <3>6. g[s] \in Int
      BY <3>2, <3>4
    <3> QED
      BY <3>2, <3>5, <3>6
  <2> QED
    BY <2>2, <2>3
<1>2. SUBSET S \subseteq Good
  <2> HIDE DEF Good
  <2> QED
    BY <1>1, SizeInduction
<1> QED
  BY <1>2

\* The sum of nothing.
LEMMA SumEmpty == \A f : SumFunctionOnSet(f, {}) = 0
<1> SUFFICES ASSUME NEW f PROVE SumFunctionOnSet(f, {}) = 0
  OBVIOUS
<1>1. PICK g : IsTotal(g, f, {}) /\ SumFunctionOnSet(f, {}) = g[{}]
  BY SumIsTotal, FS_EmptySet
<1>2. g[{}] = Total(f, g, {})
  BY <1>1 DEF IsTotal
<1> QED
  BY <1>1, <1>2 DEF Total

\* A sum of nothing but zeros.
LEMMA SumZero ==
  ASSUME NEW S, IsFiniteSet(S), NEW f, \A i \in S : f[i] = 0
  PROVE  SumFunctionOnSet(f, S) = 0
<1>1. PICK g : IsTotal(g, f, S) /\ SumFunctionOnSet(f, S) = g[S]
  BY SumIsTotal
<1>2. \A s \in SUBSET S : g[s] = Total(f, g, s)
  BY <1>1 DEF IsTotal
<1> DEFINE Good == {s \in SUBSET S : g[s] = 0}
<1>3. ASSUME NEW s \in SUBSET S, \A r \in SUBSET s : r # s => r \in Good
      PROVE  s \in Good
  <2>1. CASE s = {}
    BY <1>2, <2>1 DEF Total
  <2>2. CASE s # {}
    <3>1. Chosen(s) \in s
      BY <2>2 DEF Chosen
    <3>2. s \ {Chosen(s)} \in Good
      BY <1>3, <3>1
    <3>3. g[s] = f[Chosen(s)] + g[s \ {Chosen(s)}]
      BY <1>2, <2>2 DEF Total
    <3> QED
      BY <3>1, <3>2, <3>3
  <2> QED
    BY <2>1, <2>2
<1>4. SUBSET S \subseteq Good
  <2> HIDE DEF Good
  <2> QED
    BY <1>3, SizeInduction
<1> QED
  BY <1>1, <1>4

\* One term of a sum of integers can be taken apart from the others.
LEMMA SumAdd ==
  ASSUME NEW S, IsFiniteSet(S), NEW f, NEW k, NEW x \in S,
         \A i \in S : f[i] \in Int, \A i \in S \ {x} : f[i] = k[i]
  PROVE  /\ SumFunctionOnSet(f, S) \in Int /\ SumFunctionOnSet(k, S \ {x}) \in Int
         /\ SumFunctionOnSet(f, S) = f[x] + SumFunctionOnSet(k, S \ {x})
<1> DEFINE T == S \ {x}
<1>1. PICK g : IsTotal(g, f, S) /\ SumFunctionOnSet(f, S) = g[S]
  BY SumIsTotal
<1>2. PICK h : IsTotal(h, k, T) /\ SumFunctionOnSet(k, T) = h[T]
  BY SumIsTotal, FS_Subset
<1>3. g[T] = h[T]
  <2>1. T \in SUBSET S /\ \A i \in T : f[i] = k[i]
    OBVIOUS
  <2> HIDE DEF T
  <2> QED
    BY <1>1, <1>2, <2>1, TotalsAgree
<1>4. \A s \in SUBSET S : g[s] \in Int /\ \A y \in s : g[s] = f[y] + g[s \ {y}]
  BY <1>1, AnyFirst
<1>5. g[S] \in Int /\ g[T] \in Int /\ g[S] = f[x] + g[T]
  BY <1>4
<1> QED
  BY <1>1, <1>2, <1>3, <1>5

\* One more term.
LEMMA SumWith ==
  ASSUME NEW S, IsFiniteSet(S), NEW f, NEW x, x \notin S, \A i \in S \cup {x} : f[i] \in Int
  PROVE  SumFunctionOnSet(f, S \cup {x}) = f[x] + SumFunctionOnSet(f, S)
<1> DEFINE T == S \cup {x}
<1>1. IsFiniteSet(T) /\ x \in T /\ T \ {x} = S
  BY FS_AddElement
<1>2. (\A i \in T : f[i] \in Int) /\ \A i \in T \ {x} : f[i] = f[i]
  OBVIOUS
<1> HIDE DEF T
<1>3. SumFunctionOnSet(f, T) = f[x] + SumFunctionOnSet(f, T \ {x})
  BY <1>1, <1>2, SumAdd
<1> QED
  BY <1>1, <1>3 DEF T

\* A sum depends on its terms only.
LEMMA SumSame ==
  ASSUME NEW S, IsFiniteSet(S), NEW f, NEW k, \A i \in S : f[i] = k[i]
  PROVE  SumFunctionOnSet(f, S) = SumFunctionOnSet(k, S)
<1>1. PICK g : IsTotal(g, f, S) /\ SumFunctionOnSet(f, S) = g[S]
  BY SumIsTotal
<1>2. PICK h : IsTotal(h, k, S) /\ SumFunctionOnSet(k, S) = h[S]
  BY SumIsTotal
<1> QED
  BY <1>1, <1>2, TotalsAgree

-----------------------------------------------------------------------------
(* Flattened sequences *)

\* The equations of the recursive function in FlattenSeq, up to n, and all.
FlattensTo(g, seqs, n) ==
  \A i \in 1..n : g[i] = IF i = 1 THEN seqs[i] ELSE g[i - 1] \o seqs[i]
Flattened(g, seqs) ==
  g = [i \in 1..Len(seqs) |-> IF i = 1 THEN seqs[i] ELSE g[i - 1] \o seqs[i]]

\* The recursion of FlattenSeq has a solution.
LEMMA FlattenExists ==
  ASSUME NEW seqs, Len(seqs) \in Nat
  PROVE  \E g : Flattened(g, seqs)
<1> DEFINE Upto == {n \in Nat : \E g : FlattensTo(g, seqs, n)}
<1>1. 0 \in Upto
  BY DEF FlattensTo
<1>2. ASSUME NEW n \in Nat, n \in Upto PROVE n + 1 \in Upto
  <2>1. PICK g : FlattensTo(g, seqs, n)
    BY <1>2
  <2> DEFINE last == IF n + 1 = 1 THEN seqs[n + 1] ELSE g[n] \o seqs[n + 1]
             h == [i \in 1..(n + 1) |-> IF i = n + 1 THEN last ELSE g[i]]
  <2> HIDE DEF last
  <2>2. h[n + 1] = last /\ \A i \in 1..n : h[i] = g[i]
    OBVIOUS
  <2> HIDE DEF h
  <2>3. ASSUME NEW i \in 1..(n + 1) PROVE h[i] = IF i = 1 THEN seqs[i] ELSE h[i - 1] \o seqs[i]
    <3>1. CASE i = n + 1
      BY <2>2, <3>1 DEF last
    <3>2. CASE i # n + 1
      <4>1. i \in 1..n /\ (i # 1 => i - 1 \in 1..n)
        BY <3>2
      <4>2. h[i] = g[i] /\ (i # 1 => h[i - 1] = g[i - 1])
        BY <2>2, <4>1
      <4> QED
        BY <2>1, <4>1, <4>2 DEF FlattensTo
    <3> QED
      BY <3>1, <3>2
  <2> QED
    BY <2>3 DEF FlattensTo
<1>3. Nat \subseteq Upto
  <2> HIDE DEF Upto
  <2> QED
    BY <1>1, <1>2, SetInduction
<1>4. PICK g : FlattensTo(g, seqs, Len(seqs))
  BY <1>3
<1> DEFINE h == [i \in 1..Len(seqs) |-> g[i]]
<1>5. \A i \in 1..Len(seqs) : h[i] = IF i = 1 THEN seqs[i] ELSE h[i - 1] \o seqs[i]
  BY <1>4 DEF FlattensTo
<1>6. Flattened(h, seqs)
  BY <1>5 DEF Flattened
<1> QED
  BY <1>6

\* Where the elements of two sequences are in their concatenation.
LEMMA JoinedPlaces ==
  ASSUME NEW S, NEW s \in Seq(S), NEW t \in Seq(S)
  PROVE  /\ s \o t \in Seq(S) /\ Len(s \o t) = Len(s) + Len(t)
         /\ \A k \in 1..Len(s) : (s \o t)[k] = s[k]
         /\ \A k \in 1..Len(t) : (s \o t)[Len(s) + k] = t[k]
  OBVIOUS

\* part is in flat, after the first from elements.
PartAt(flat, from, part) ==
  /\ from + Len(part) <= Len(flat)
  /\ \A k \in 1..Len(part) : flat[from + k] = part[k]

\* A part stays where it is when more is appended.
LEMMA PartKept ==
  ASSUME NEW S, NEW flat \in Seq(S), NEW more \in Seq(S), NEW part \in Seq(S),
         NEW from \in Nat, PartAt(flat, from, part)
  PROVE  PartAt(flat \o more, from, part)
  BY DEF PartAt

\* What is appended is a part.
LEMMA PartLast ==
  ASSUME NEW S, NEW flat \in Seq(S), NEW more \in Seq(S)
  PROVE  PartAt(flat \o more, Len(flat), more)
  BY DEF PartAt

\* Where the parts of a flattened sequence are: part i after start[i] elements.
Layout(start, seqs, flat) ==
  /\ start \in [1..(Len(seqs) + 1) -> Nat]
  /\ start[1] = 0 /\ start[Len(seqs) + 1] = Len(flat)
  /\ \A i \in 1..Len(seqs) :
       start[i + 1] = start[i] + Len(seqs[i]) /\ PartAt(flat, start[i], seqs[i])

Offset(g, i) == IF i = 1 THEN 0 ELSE Len(g[i - 1])

\* A flattened sequence has its parts one after another.
LEMMA FlattenLayout ==
  ASSUME NEW S, NEW seqs \in Seq(Seq(S))
  PROVE  FlattenSeq(seqs) \in Seq(S) /\ \E start : Layout(start, seqs, FlattenSeq(seqs))
<1>l. Len(seqs) \in Nat /\ \A i \in 1..Len(seqs) : seqs[i] \in Seq(S) /\ Len(seqs[i]) \in Nat
  OBVIOUS
<1>1. CASE Len(seqs) = 0
  <2>1. seqs = <<>> /\ FlattenSeq(seqs) = <<>>
    BY <1>1 DEF FlattenSeq
  <2>2. Layout([i \in 1..1 |-> 0], <<>>, <<>>)
    BY DEF Layout
  <2>3. <<>> \in Seq(S)
    OBVIOUS
  <2> QED
    BY <2>1, <2>2, <2>3
<1>2. CASE Len(seqs) # 0
  <2> DEFINE G == CHOOSE g : Flattened(g, seqs)
  <2>1. Flattened(G, seqs)
    BY <1>l, FlattenExists
  <2>2. FlattenSeq(seqs) = G[Len(seqs)]
    BY <1>2 DEF FlattenSeq, Flattened
  <2> HIDE DEF G
  <2>3. G[1] = seqs[1] /\ \A i \in 1..Len(seqs) : i # 1 => G[i] = G[i - 1] \o seqs[i]
    <3>1. \A i \in 1..Len(seqs) : G[i] = IF i = 1 THEN seqs[i] ELSE G[i - 1] \o seqs[i]
      BY <2>1 DEF Flattened
    <3>2. 1 \in 1..Len(seqs)
      BY <1>l, <1>2
    <3> QED
      BY <3>1, <3>2
  <2> DEFINE Good == {n \in Nat : n \in 1..Len(seqs) =>
                        /\ G[n] \in Seq(S)
                        /\ Len(G[n]) = Offset(G, n) + Len(seqs[n])
                        /\ \A i \in 1..n : Offset(G, i) \in Nat /\ PartAt(G[n], Offset(G, i), seqs[i])}
  <2>4. 0 \in Good
    OBVIOUS
  <2>5. ASSUME NEW n \in Nat, n \in Good, n + 1 \in 1..Len(seqs) PROVE n + 1 \in Good
    <3>1. CASE n = 0
      <4>1. G[1] = seqs[1] /\ Offset(G, 1) = 0 /\ seqs[1] \in Seq(S)
        BY <1>l, <2>3, <2>5, <3>1 DEF Offset
      <4>2. PartAt(seqs[1], 0, seqs[1]) /\ Len(seqs[1]) = 0 + Len(seqs[1])
        BY <4>1 DEF PartAt
      <4>3. \A i \in 1..1 : i = 1
        OBVIOUS
      <4> QED
        BY <3>1, <4>1, <4>2, <4>3
    <3>2. CASE n # 0
      <4>1. /\ n \in 1..Len(seqs) /\ (n + 1) - 1 = n /\ n + 1 # 1
            /\ seqs[n + 1] \in Seq(S)
        BY <1>l, <2>5, <3>2
      <4>2. /\ G[n] \in Seq(S)
            /\ \A i \in 1..n : Offset(G, i) \in Nat /\ PartAt(G[n], Offset(G, i), seqs[i])
        BY <2>5, <4>1
      <4>3. G[n + 1] = G[n] \o seqs[n + 1] /\ Offset(G, n + 1) = Len(G[n])
        BY <2>3, <2>5, <4>1 DEF Offset
      <4>4. \A i \in 1..n : PartAt(G[n + 1], Offset(G, i), seqs[i])
        <5>1. \A i \in 1..n : seqs[i] \in Seq(S)
          BY <1>l, <4>1
        <5> QED
          BY <4>1, <4>2, <4>3, <5>1, PartKept
      <4>5. PartAt(G[n + 1], Offset(G, n + 1), seqs[n + 1])
        BY <4>1, <4>2, <4>3, PartLast
      <4>6. /\ G[n + 1] \in Seq(S) /\ Len(G[n + 1]) = Len(G[n]) + Len(seqs[n + 1])
            /\ Len(G[n]) \in Nat
        BY <4>1, <4>2, <4>3
      <4>7. \A i \in 1..(n + 1) : i \in 1..n \/ i = n + 1
        OBVIOUS
      <4>8. \A i \in 1..(n + 1) : Offset(G, i) \in Nat /\ PartAt(G[n + 1], Offset(G, i), seqs[i])
        BY <4>2, <4>3, <4>4, <4>5, <4>6, <4>7
      <4>9. Len(G[n + 1]) = Offset(G, n + 1) + Len(seqs[n + 1])
        BY <4>3, <4>6
      <4> QED
        BY <4>6, <4>8, <4>9
    <3> QED
      BY <3>1, <3>2
  <2>6. \A n \in Nat : n \in Good => n + 1 \in Good
    <3>1. ASSUME NEW n \in Nat, n + 1 \notin 1..Len(seqs) PROVE n + 1 \in Good
      BY <3>1
    <3> HIDE DEF Good
    <3> QED
      BY <2>5, <3>1
  <2>7. Nat \subseteq Good
    <3> HIDE DEF Good
    <3> QED
      BY <2>4, <2>6, SetInduction
  <2>8. \A n \in 1..Len(seqs) :
          /\ G[n] \in Seq(S)
          /\ Len(G[n]) = Offset(G, n) + Len(seqs[n])
          /\ \A i \in 1..n : Offset(G, i) \in Nat /\ PartAt(G[n], Offset(G, i), seqs[i])
    BY <2>7
  <2> DEFINE start == [i \in 1..(Len(seqs) + 1) |-> Offset(G, i)]
  <2>9. \A i \in 1..Len(seqs) : Offset(G, i + 1) = Len(G[i]) /\ Len(G[i]) \in Nat
    <3>1. \A i \in 1..Len(seqs) : (i + 1) - 1 = i /\ i + 1 # 1
      BY <1>l
    <3> QED
      BY <2>8, <3>1 DEF Offset
  <2>10. \A i \in 1..(Len(seqs) + 1) : start[i] = Offset(G, i) /\ Offset(G, i) \in Nat
    <3>1. ASSUME NEW i \in 1..(Len(seqs) + 1), i # 1 PROVE Offset(G, i) \in Nat
      <4>1. i - 1 \in 1..Len(seqs) /\ (i - 1) + 1 = i
        BY <1>l, <3>1
      <4> QED
        BY <2>9, <4>1
    <3> QED
      BY <3>1 DEF Offset
  <2>11. start \in [1..(Len(seqs) + 1) -> Nat]
    BY <2>10
  <2>12. Len(seqs) \in 1..Len(seqs) /\ Len(seqs) + 1 \in 1..(Len(seqs) + 1) /\ 1 \in 1..(Len(seqs) + 1)
    BY <1>l, <1>2
  <2>13. start[1] = 0 /\ start[Len(seqs) + 1] = Len(G[Len(seqs)])
    <3> HIDE DEF start
    <3> QED
      BY <2>9, <2>10, <2>12 DEF Offset
  <2>14. ASSUME NEW i \in 1..Len(seqs)
         PROVE  start[i + 1] = start[i] + Len(seqs[i]) /\ PartAt(G[Len(seqs)], start[i], seqs[i])
    <3>1. i \in 1..(Len(seqs) + 1) /\ i + 1 \in 1..(Len(seqs) + 1)
      BY <1>l
    <3> HIDE DEF start
    <3> QED
      BY <2>8, <2>9, <2>10, <2>12, <3>1
  <2>15. Layout(start, seqs, G[Len(seqs)])
    <3> HIDE DEF start
    <3> QED
      BY <2>11, <2>13, <2>14 DEF Layout
  <2> QED
    BY <2>2, <2>8, <2>12, <2>15
<1> QED
  BY <1>1, <1>2

-----------------------------------------------------------------------------
(* The least element, and the elements in some order *)

\* The least of two numbers.
LEMMA MinOfTwo ==
  ASSUME NEW a \in Int, NEW b \in Int
  PROVE  Min({a, b}) = IF a <= b THEN a ELSE b
<1>1. \E x \in {a, b} : \A y \in {a, b} : x <= y
  OBVIOUS
<1>2. Min({a, b}) \in {a, b} /\ \A y \in {a, b} : Min({a, b}) <= y
  BY <1>1 DEF Min
<1> QED
  BY <1>2

\* A set of natural numbers that is not empty has a least one.
LEMMA MinExists ==
  ASSUME NEW S \in SUBSET Nat, S # {}
  PROVE  Min(S) \in S /\ \A y \in S : Min(S) <= y
<1>1. PICK x \in S : \A y \in S : ~(<<y, x>> \in OpToRel(<, Nat))
  BY NatLessThanWellFounded, WFMin
<1>2. \A y \in S : x <= y
  <2>1. \A y \in S : ~(y < x)
    BY <1>1 DEF OpToRel
  <2>2. x \in Nat /\ \A y \in S : y \in Nat
    OBVIOUS
  <2> QED
    BY <2>1, <2>2
<1> QED
  BY <1>2 DEF Min

\* A finite set put in some order has each element in one place only.
LEMMA InSomeOrder ==
  ASSUME NEW S, IsFiniteSet(S)
  PROVE  /\ SetToSeq(S) \in [1..Cardinality(S) -> S]
         /\ \A i, j \in 1..Cardinality(S) : SetToSeq(S)[i] = SetToSeq(S)[j] => i = j
<1>1. Cardinality(S) \in Nat /\ ExistsBijection(1..Cardinality(S), S)
  BY FS_CardinalityType
<1>2. PICK f \in [1..Cardinality(S) -> S] : IsInjective(f)
  BY <1>1 DEF ExistsBijection, Bijection, Injection, IsInjective
<1>3. SetToSeq(S) \in [1..Cardinality(S) -> S] /\ IsInjective(SetToSeq(S))
  BY <1>2 DEF SetToSeq
<1> QED
  BY <1>3 DEF IsInjective

\* A sequence has finitely many elements.
LEMMA ElementsFinite ==
  ASSUME NEW S, NEW w \in Seq(S)
  PROVE  IsFiniteSet(ToSet(w)) /\ \A i \in 1..Len(w) : w[i] \in ToSet(w) /\ w[i] \in S
<1>1. w \in [1..Len(w) -> ToSet(w)] /\ \A x \in ToSet(w) : \E i \in 1..Len(w) : w[i] = x
  BY DEF ToSet
<1>2. w \in Surjection(1..Len(w), ToSet(w))
  BY <1>1 DEF Surjection
<1>3. IsFiniteSet(1..Len(w))
  <2>1. Len(w) \in Int /\ 1 \in Int
    OBVIOUS
  <2> QED
    BY <2>1, FS_Interval
<1> QED
  BY <1>1, <1>2, <1>3, FS_Surjection

\* A set of sequences that has the empty one, and with each sequence every one
\* that is longer by an element, has them all.
LEMMA SequenceInduction ==
  ASSUME NEW S, NEW X, <<>> \in X,
         \A s \in Seq(S) : s \in X => \A x \in S : Append(s, x) \in X
  PROVE  Seq(S) \subseteq X
<1> DEFINE Good == {n \in Nat : \A s \in Seq(S) : Len(s) = n => s \in X}
<1>1. 0 \in Good
  OBVIOUS
<1>2. ASSUME NEW n \in Nat, n \in Good PROVE n + 1 \in Good
  <2> SUFFICES ASSUME NEW s \in Seq(S), Len(s) = n + 1 PROVE s \in X
    OBVIOUS
  <2> DEFINE t == SubSeq(s, 1, n)
  <2>1. t \in Seq(S) /\ Len(t) = n /\ s[n + 1] \in S
    OBVIOUS
  <2>2. s = Append(t, s[n + 1])
    OBVIOUS
  <2>3. t \in X
    BY <1>2, <2>1
  <2> HIDE DEF t
  <2> QED
    BY <2>1, <2>2, <2>3
<1>3. Nat \subseteq Good
  <2> HIDE DEF Good
  <2> QED
    BY <1>1, <1>2, SetInduction
<1> QED
  BY <1>3

\* A set of numbers with an upper bound has its largest.
LEMMA MaxExists ==
  ASSUME NEW S \in SUBSET Nat, S # {}, NEW top \in Nat, \A y \in S : y <= top
  PROVE  Max(S) \in S /\ \A y \in S : y <= Max(S)
<1> DEFINE D == {top - y : y \in S}
<1>1. D \in SUBSET Nat /\ D # {}
  <2>1. \A y \in S : top - y \in Nat
    OBVIOUS
  <2>2. PICK z \in S : TRUE
    OBVIOUS
  <2>3. top - z \in D
    OBVIOUS
  <2> QED
    BY <2>1, <2>3
<1>2. Min(D) \in D /\ \A d \in D : Min(D) <= d
  <2> HIDE DEF D
  <2> QED
    BY <1>1, MinExists
<1>3. PICK x \in S : Min(D) = top - x
  BY <1>2
<1>4. \A y \in S : y <= x
  <2> SUFFICES ASSUME NEW y \in S PROVE y <= x
    OBVIOUS
  <2>1. top - y \in D /\ top - x <= top - y
    BY <1>2, <1>3
  <2> QED
    BY <2>1
<1> QED
  BY <1>4 DEF Max

\* A part of a text, place by place.
LEMMA PartOf ==
  ASSUME NEW S, NEW t \in Seq(S), NEW m \in Int, NEW n \in Int
  PROVE  /\ m = 1 /\ n \in 0..Len(t) =>
              /\ Len(SubSeq(t, 1, n)) = n
              /\ \A k \in 1..n : SubSeq(t, 1, n)[k] = t[k]
         /\ m \in 1..(Len(t) + 1) =>
              /\ Len(SubSeq(t, m, Len(t))) = Len(t) - m + 1
              /\ \A k \in 1..(Len(t) - m + 1) : SubSeq(t, m, Len(t))[k] = t[m - 1 + k]
         /\ m \in 1..(Len(t) + 1) /\ n \in (m - 1)..Len(t) =>
              /\ Len(SubSeq(t, m, n)) = n - m + 1
              /\ \A k \in 1..(n - m + 1) : SubSeq(t, m, n)[k] = t[m - 1 + k]
              /\ SubSeq(t, m, n) \in Seq(S)
              /\ \A P : (\A k \in m..n : t[k] \in P) => SubSeq(t, m, n) \in Seq(P)
  OBVIOUS

\* The least of one number.
LEMMA LeastOfOne ==
  ASSUME NEW n \in Nat
  PROVE  Min({n}) = n
<1>1. {n} \in SUBSET Nat /\ {n} # {}
  OBVIOUS
<1> QED
  BY <1>1, MinExists

\* One element more, before or after two sequences are joined.
LEMMA AppendJoined ==
  ASSUME NEW S, NEW a \in Seq(S), NEW b \in Seq(S), NEW x \in S
  PROVE  a \o b \in Seq(S) /\ Append(b, x) \in Seq(S) /\ a \o Append(b, x) = Append(a \o b, x)
  OBVIOUS

Agree(s, t, n) == \A i \in 1..n : s[i] = t[i]

\* Two solutions of the equations in FlattenSeq agree.
LEMMA FlattenUnique ==
  ASSUME NEW n \in Nat, NEW s, NEW t, Agree(s, t, n),
         NEW g, FlattensTo(g, s, n), NEW h, FlattensTo(h, t, n)
  PROVE  Agree(g, h, n)
<1> DEFINE Same == {k \in Nat : k \in 1..n => g[k] = h[k]}
<1>1. 0 \in Same
  OBVIOUS
<1>2. ASSUME NEW k \in Nat, k \in Same PROVE k + 1 \in Same
  <2>1. CASE k + 1 \in 1..n
    <3>1. s[k + 1] = t[k + 1]
      BY <2>1 DEF Agree
    <3>2. g[k + 1] = IF k + 1 = 1 THEN s[k + 1] ELSE g[(k + 1) - 1] \o s[k + 1]
      BY <2>1 DEF FlattensTo
    <3>3. h[k + 1] = IF k + 1 = 1 THEN t[k + 1] ELSE h[(k + 1) - 1] \o t[k + 1]
      BY <2>1 DEF FlattensTo
    <3>4. (k + 1) - 1 = k /\ (k + 1 # 1 => g[k] = h[k])
      BY <1>2, <2>1
    <3>5. g[k + 1] = h[k + 1]
      BY <3>1, <3>2, <3>3, <3>4
    <3> QED
      BY <3>5
  <2> QED
    BY <2>1
<1>3. Nat \subseteq Same
  <2> HIDE DEF Same
  <2> QED
    BY <1>1, <1>2, SetInduction
<1> QED
  BY <1>3 DEF Agree

\* A sequence more is flattened at the end.
LEMMA FlattenLast ==
  ASSUME NEW S, NEW ss \in Seq(Seq(S)), NEW x \in Seq(S)
  PROVE  /\ FlattenSeq(<<>>) = <<>>
         /\ FlattenSeq(Append(ss, x)) = FlattenSeq(ss) \o x
<1>1. FlattenSeq(<<>>) = <<>>
  BY DEF FlattenSeq
<1> DEFINE more == Append(ss, x)
           n == Len(ss)
<1>2. n \in Nat /\ Len(more) = n + 1 /\ more[n + 1] = x /\ \A i \in 1..n : more[i] = ss[i]
  OBVIOUS
<1> HIDE DEF more
<1> DEFINE G == CHOOSE g : Flattened(g, more)
<1>3. Flattened(G, more)
  BY <1>2, FlattenExists
<1>4. FlattenSeq(more) = G[n + 1]
  BY <1>2 DEF FlattenSeq, Flattened
<1>5. \A i \in 1..(n + 1) : G[i] = IF i = 1 THEN more[i] ELSE G[i - 1] \o more[i]
  BY <1>2, <1>3 DEF Flattened
<1>6. FlattensTo(G, more, n)
  BY <1>2, <1>5 DEF FlattensTo
<1> HIDE DEF G
<1>7. CASE n = 0
  <2>1. ss = <<>>
    BY <1>7
  <2>2. G[n + 1] = x
    BY <1>2, <1>5, <1>7
  <2>3. <<>> \o x = x
    OBVIOUS
  <2> QED
    BY <1>1, <1>4, <2>1, <2>2, <2>3 DEF more
<1>8. CASE n # 0
  <2> DEFINE H == CHOOSE g : Flattened(g, ss)
  <2>1. Flattened(H, ss)
    BY <1>2, FlattenExists
  <2>2. FlattenSeq(ss) = H[n]
    BY <1>2, <1>8 DEF FlattenSeq, Flattened
  <2>3. FlattensTo(H, ss, n)
    BY <1>2, <2>1 DEF Flattened, FlattensTo
  <2> HIDE DEF H
  <2>4. Agree(G, H, n)
    <3>1. n \in Nat /\ Agree(more, ss, n)
      BY <1>2 DEF Agree
    <3> HIDE DEF n
    <3> QED
      BY <1>6, <2>3, <3>1, FlattenUnique
  <2>5. G[n + 1] = G[n] \o x
    <3>1. n + 1 \in 1..(n + 1) /\ n + 1 # 1 /\ (n + 1) - 1 = n
      BY <1>2, <1>8
    <3> QED
      BY <1>2, <1>5, <3>1
  <2>6. n \in 1..n
    BY <1>2, <1>8
  <2> QED
    BY <1>1, <1>4, <2>2, <2>4, <2>5, <2>6 DEF more, Agree
<1> QED
  BY <1>7, <1>8, <1>2

\* The elements of a sequence with one appended.
LEMMA ElementsAppended ==
  ASSUME NEW S, NEW s \in Seq(S), NEW x \in S
  PROVE  ToSet(Append(s, x)) = ToSet(s) \cup {x}
<1> DEFINE more == Append(s, x)
<1>1. DOMAIN more = DOMAIN s \cup {Len(s) + 1} /\ more[Len(s) + 1] = x
  OBVIOUS
<1>2. \A k \in DOMAIN s : more[k] = s[k]
  OBVIOUS
<1> HIDE DEF more
<1>3. {more[k] : k \in DOMAIN more} = {s[k] : k \in DOMAIN s} \cup {x}
  BY <1>1, <1>2
<1> QED
  BY <1>3 DEF ToSet, more

==============================================================================
