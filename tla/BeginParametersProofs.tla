------------------------ MODULE BeginParametersProofs ------------------------
(***************************************************************************)
(* Proofs about the parameters of begin: for any requests, any limits and  *)
(* lists of any length.                                                    *)
(*                                                                         *)
(* A list is read item by item (Selected); what that gives for every list  *)
(* is shown by its shortest counterexample, which has a predecessor.  The  *)
(* bridges from the service to the application read their queues the same  *)
(* way, so these lemmas are cited by CallbackBridgeProofs too.             *)
(***************************************************************************)
EXTENDS BeginParameters, SequenceTheorems, FiniteSetTheorems, TLAPS

\* Every set of natural numbers that is not empty has a least element.
LEMMA LeastNumber ==
    ASSUME NEW S, S \subseteq Nat, S # {}
    PROVE  \E n \in S : \A m \in S : n <= m
<1> DEFINE Less == {ss \in Nat \X Nat : ss[1] < ss[2]}
<1>1. IsWellFoundedOn(Less, Nat)
  BY NatLessThanWellFounded, Zenon DEF OpToRel
<1>2. PICK n \in S : \A m \in S : <<m, n>> \notin Less
  BY <1>1, WFMin, Zenon
<1>3. ASSUME NEW m \in S PROVE n <= m
  <2>1. m \in Nat /\ n \in Nat
    OBVIOUS
  <2>2. <<m, n>> \in Nat \X Nat /\ <<m, n>>[1] = m /\ <<m, n>>[2] = n
    BY <2>1
  <2>3. ~(m < n)
    BY <1>2, <2>2
  <2>4. QED
    BY <2>1, <2>3
<1>4. QED
  BY <1>3

\* The items of a list that grows at its end, or loses its head.
LEMMA ItemsOfAppend ==
    ASSUME NEW T, NEW list \in Seq(T), NEW x \in T
    PROVE  ToSet(Append(list, x)) = ToSet(list) \cup {x}
<1>1. /\ DOMAIN Append(list, x) = 1..(Len(list) + 1) /\ DOMAIN list = 1..Len(list)
      /\ Append(list, x)[Len(list) + 1] = x /\ Len(list) \in Nat
      /\ \A i \in 1..Len(list) : Append(list, x)[i] = list[i]
  OBVIOUS
<1>2. \A i : i \in 1..(Len(list) + 1) <=> i \in 1..Len(list) \/ i = Len(list) + 1
  BY <1>1
<1>3. ASSUME NEW y PROVE y \in ToSet(Append(list, x)) <=> y \in ToSet(list) \/ y = x
  <2>1. y \in ToSet(Append(list, x)) <=> \E i \in 1..(Len(list) + 1) : y = Append(list, x)[i]
    BY <1>1, Zenon DEF ToSet
  <2>2. y \in ToSet(list) <=> \E i \in 1..Len(list) : y = list[i]
    BY <1>1, Zenon DEF ToSet
  <2>3. QED
    BY <1>1, <1>2, <2>1, <2>2, Zenon
<1>4. QED
  BY <1>3

LEMMA ItemsOfTail ==
    ASSUME NEW T, NEW list \in Seq(T), list # <<>>
    PROVE  /\ Tail(list) \in Seq(T) /\ Head(list) \in T
           /\ ToSet(list) = ToSet(Tail(list)) \cup {Head(list)}
<1>1. /\ Len(list) \in Nat /\ Len(list) > 0 /\ Tail(list) \in Seq(T) /\ Head(list) = list[1]
      /\ DOMAIN list = 1..Len(list) /\ DOMAIN Tail(list) = 1..(Len(list) - 1)
      /\ \A i \in 1..(Len(list) - 1) : Tail(list)[i] = list[i + 1]
  OBVIOUS
<1>2. \A i : i \in 1..Len(list) => i = 1 \/ (i - 1 \in 1..(Len(list) - 1) /\ (i - 1) + 1 = i)
  BY <1>1
<1>3. 1 \in 1..Len(list) /\ \A i \in 1..(Len(list) - 1) : i + 1 \in 1..Len(list)
  BY <1>1
<1>4. ASSUME NEW y PROVE y \in ToSet(list) <=> y \in ToSet(Tail(list)) \/ y = Head(list)
  <2>1. y \in ToSet(list) <=> \E i \in 1..Len(list) : y = list[i]
    BY <1>1, Zenon DEF ToSet
  <2>2. y \in ToSet(Tail(list)) <=> \E i \in 1..(Len(list) - 1) : y = list[i + 1]
    BY <1>1, Zenon DEF ToSet
  <2>3. (\E i \in 1..Len(list) : y = list[i])
          => y = list[1] \/ \E i \in 1..(Len(list) - 1) : y = list[i + 1]
    BY <1>2
  <2>4. QED
    BY <1>1, <1>3, <2>1, <2>2, <2>3, Zenon
<1>5. QED
  BY <1>1, <1>3, <1>4

-----------------------------------------------------------------------------

\* f[n] is what is selected of the first n items, for n up to k.
Selects(f, list, set, k) ==
    f = [n \in 0..k |->
           IF n = 0 THEN <<>>
           ELSE IF list[n] \in set THEN Append(f[n - 1], list[n]) ELSE f[n - 1]]

LEMMA SelectionExists ==
    ASSUME NEW list, NEW set, NEW len \in Nat
    PROVE  \E f : Selects(f, list, set, len)
<1> DEFINE Missing == {k \in Nat : ~\E f : Selects(f, list, set, k)}
<1>1. \E f : Selects(f, list, set, 0)
  <2> DEFINE g == [n \in 0..0 |-> <<>>]
  <2>1. g = [n \in 0..0 |->
           IF n = 0 THEN <<>>
           ELSE IF list[n] \in set THEN Append(g[n - 1], list[n]) ELSE g[n - 1]]
    OBVIOUS
  <2> HIDE DEF g
  <2>2. Selects(g, list, set, 0)
    BY <2>1, Zenon DEF Selects
  <2>3. QED
    BY <2>2, Zenon
<1>2. ASSUME NEW k \in Nat, NEW f, Selects(f, list, set, k)
      PROVE  \E g : Selects(g, list, set, k + 1)
  <2> DEFINE g == [n \in 0..(k + 1) |->
           IF n = 0 THEN <<>>
           ELSE IF list[n] \in set THEN Append(f[n - 1], list[n]) ELSE f[n - 1]]
  <2>1. \A n \in 0..k : g[n] = f[n]
    <3>1. \A n \in 0..k : f[n] =
             IF n = 0 THEN <<>>
             ELSE IF list[n] \in set THEN Append(f[n - 1], list[n]) ELSE f[n - 1]
      BY <1>2 DEF Selects
    <3>2. \A n \in 0..k : n \in 0..(k + 1)
      OBVIOUS
    <3>3. QED
      BY <3>1, <3>2, Zenon
  <2>2. ASSUME NEW n \in 0..(k + 1), n # 0 PROVE g[n - 1] = f[n - 1]
    <3>1. n - 1 \in 0..k
      BY <2>2
    <3> HIDE DEF g
    <3>2. QED
      BY <2>1, <3>1
  <2>3. g = [n \in 0..(k + 1) |->
           IF n = 0 THEN <<>>
           ELSE IF list[n] \in set THEN Append(g[n - 1], list[n]) ELSE g[n - 1]]
    BY <2>2, Zenon
  <2> HIDE DEF g
  <2>4. Selects(g, list, set, k + 1)
    BY <2>3, Zenon DEF Selects
  <2>5. QED
    BY <2>4, Zenon
<1>3. ASSUME Missing # {} PROVE FALSE
  <2>1. PICK n \in Missing : \A m \in Missing : n <= m
    <3>1. Missing \subseteq Nat
      OBVIOUS
    <3> HIDE DEF Missing
    <3>2. QED
      BY <1>3, <3>1, LeastNumber
  <2>2. n # 0
    BY <1>1, <2>1
  <2>3. n - 1 \in Nat /\ (n - 1) + 1 = n
    BY <2>1, <2>2
  <2>4. n - 1 \notin Missing
    <3>1. ~(n <= n - 1)
      BY <2>1
    <3> HIDE DEF Missing
    <3>2. QED
      BY <2>1, <3>1
  <2>5. n \notin Missing
    BY <1>2, <2>3, <2>4
  <2>6. QED
    BY <2>1, <2>5
<1>4. QED
  BY <1>3

\* It starts with nothing, and goes on step by step.
LEMMA SelectionStart ==
    ASSUME NEW list, NEW set, NEW k \in Nat, NEW f, Selects(f, list, set, k)
    PROVE  f[0] = <<>>
<1>1. \A n \in 0..k : n = 0 => f[n] = <<>>
  BY DEF Selects
<1>2. QED
  BY <1>1

LEMMA SelectionStep ==
    ASSUME NEW list, NEW set, NEW k \in Nat, NEW f, Selects(f, list, set, k), NEW n \in 1..k
    PROVE  f[n] = IF list[n] \in set THEN Append(f[n - 1], list[n]) ELSE f[n - 1]
<1>1. \A i \in 0..k : f[i] = IF i = 0 THEN <<>>
           ELSE IF list[i] \in set THEN Append(f[i - 1], list[i]) ELSE f[i - 1]
  BY DEF Selects
<1>2. n \in 0..k /\ n # 0
  OBVIOUS
<1>3. QED
  BY <1>1, <1>2, Zenon

LEMMA SelectionUnique ==
    ASSUME NEW list, NEW other, NEW set, NEW k \in Nat, NEW l \in Nat, k <= l,
           \A n \in 1..k : list[n] = other[n],
           NEW f, Selects(f, list, set, k), NEW g, Selects(g, other, set, l)
    PROVE  f[k] = g[k]
<1> DEFINE Differ == {n \in Nat : n <= k /\ f[n] # g[n]}
<1>1. ASSUME Differ # {} PROVE FALSE
  <2>1. PICK n \in Differ : \A m \in Differ : n <= m
    <3>1. Differ \subseteq Nat
      OBVIOUS
    <3> HIDE DEF Differ
    <3>2. QED
      BY <1>1, <3>1, LeastNumber
  <2>2. n # 0
    <3>1. f[0] = <<>> /\ g[0] = <<>>
      BY SelectionStart
    <3>2. QED
      BY <2>1, <3>1
  <2>3. n \in 1..k /\ n \in 1..l /\ n - 1 \in Nat /\ ~(n <= n - 1)
    BY <2>1, <2>2
  <2>4. f[n - 1] = g[n - 1]
    BY <2>1, <2>3
  <2>5. f[n] = IF list[n] \in set THEN Append(f[n - 1], list[n]) ELSE f[n - 1]
    BY <2>3, SelectionStep
  <2>6. g[n] = IF other[n] \in set THEN Append(g[n - 1], other[n]) ELSE g[n - 1]
    BY <2>3, SelectionStep
  <2>7. f[n] = g[n]
    BY <2>3, <2>4, <2>5, <2>6
  <2>8. QED
    BY <2>1, <2>7
<1>2. QED
  BY <1>1

LEMMA SelectedIs ==
    ASSUME NEW list, NEW set, Len(list) \in Nat
    PROVE  \E f : Selects(f, list, set, Len(list)) /\ Selected(list, set) = f[Len(list)]
<1> DEFINE upTo == CHOOSE f : Selects(f, list, set, Len(list))
<1>1. Selected(list, set) = upTo[Len(list)]
  BY DEF Selected, Selects
<1>2. Selects(upTo, list, set, Len(list))
  BY SelectionExists, Zenon
<1>3. QED
  BY <1>1, <1>2, Zenon

LEMMA SelectedOfNone == ASSUME NEW set PROVE Selected(<<>>, set) = <<>>
<1>1. Len(<<>>) = 0
  OBVIOUS
<1>2. PICK f : Selects(f, <<>>, set, 0) /\ Selected(<<>>, set) = f[0]
  BY <1>1, SelectedIs
<1>3. f[0] = <<>>
  <2>1. 0 \in Nat
    OBVIOUS
  <2>2. QED
    BY <1>2, <2>1, SelectionStart
<1>4. QED
  BY <1>2, <1>3

LEMMA SelectedOfAppend ==
    ASSUME NEW T, NEW list \in Seq(T), NEW x \in T, NEW set
    PROVE  Selected(Append(list, x), set) =
             IF x \in set THEN Append(Selected(list, set), x) ELSE Selected(list, set)
<1> DEFINE longer == Append(list, x)
<1>1. /\ Len(list) \in Nat /\ Len(longer) = Len(list) + 1 /\ longer[Len(list) + 1] = x
      /\ \A n \in 1..Len(list) : list[n] = longer[n]
  OBVIOUS
<1> HIDE DEF longer
<1>2. PICK f : Selects(f, list, set, Len(list)) /\ Selected(list, set) = f[Len(list)]
  BY <1>1, SelectedIs
<1>3. PICK g : Selects(g, longer, set, Len(list) + 1) /\ Selected(longer, set) = g[Len(list) + 1]
  BY <1>1, SelectedIs
<1>4. g[Len(list)] = f[Len(list)]
  BY <1>1, <1>2, <1>3, SelectionUnique
<1>5. g[Len(list) + 1] = IF x \in set THEN Append(g[Len(list)], x) ELSE g[Len(list)]
  <2>1. /\ Len(list) + 1 \in Nat /\ Len(list) + 1 \in 1..(Len(list) + 1)
        /\ (Len(list) + 1) - 1 = Len(list)
    BY <1>1
  <2>2. QED
    BY <1>1, <1>3, <2>1, SelectionStep
<1>6. QED
  BY <1>2, <1>3, <1>4, <1>5 DEF longer

\* What is selected of a list are its items in the set, all of them.
LEMMA SelectedItems ==
    ASSUME NEW T, NEW list \in Seq(T), NEW set
    PROVE  /\ Selected(list, set) \in Seq(T \cap set)
           /\ ToSet(Selected(list, set)) = ToSet(list) \cap set
<1> DEFINE Holds(l) == /\ Selected(l, set) \in Seq(T \cap set)
                       /\ ToSet(Selected(l, set)) = ToSet(l) \cap set
           Bad == {n \in Nat : \E l \in Seq(T) : Len(l) = n /\ ~Holds(l)}
<1>1. Holds(<<>>)
  <2>1. <<>> \in Seq(T \cap set) /\ ToSet(<<>>) = {}
    BY DEF ToSet
  <2>2. QED
    BY <2>1, SelectedOfNone
<1>2. ASSUME NEW l \in Seq(T), NEW x \in T, Holds(l) PROVE Holds(Append(l, x))
  <2>1. /\ ToSet(Append(l, x)) = ToSet(l) \cup {x}
        /\ \A k \in Seq(T) : ToSet(Append(k, x)) = ToSet(k) \cup {x}
    BY ItemsOfAppend
  <2>2. CASE x \in set
    <3>1. Selected(Append(l, x), set) = Append(Selected(l, set), x)
      BY <2>2, SelectedOfAppend
    <3>2. QED
      BY <1>2, <2>1, <2>2, <3>1
  <2>3. CASE x \notin set
    <3>1. Selected(Append(l, x), set) = Selected(l, set)
      BY <2>3, SelectedOfAppend
    <3>2. QED
      BY <1>2, <2>1, <2>3, <3>1
  <2>4. QED
    BY <2>2, <2>3
<1> HIDE DEF Holds
<1>3. ASSUME Bad # {} PROVE FALSE
  <2>1. PICK n \in Bad : \A m \in Bad : n <= m
    <3>1. Bad \subseteq Nat
      OBVIOUS
    <3> HIDE DEF Bad
    <3>2. QED
      BY <1>3, <3>1, LeastNumber
  <2>2. PICK l \in Seq(T) : Len(l) = n /\ ~Holds(l)
    BY <2>1
  <2>3. l # <<>>
    BY <1>1, <2>2
  <2>4. PICK s \in Seq(T), x \in T : l = Append(s, x)
    BY <2>3, SequenceEmptyOrAppend
  <2>5. Len(s) \in Nat /\ ~(n <= Len(s))
    BY <2>2, <2>4
  <2>6. Holds(s)
    BY <2>1, <2>5
  <2>7. QED
    BY <1>2, <2>2, <2>4, <2>6
<1>4. QED
  BY <1>3 DEF Holds

\* What is selected of two lists in a row.
LEMMA SelectedOfConcat ==
    ASSUME NEW T, NEW a \in Seq(T), NEW b \in Seq(T), NEW set
    PROVE  Selected(a \o b, set) = Selected(a, set) \o Selected(b, set)
<1> DEFINE Holds(l) == Selected(a \o l, set) = Selected(a, set) \o Selected(l, set)
           Bad == {n \in Nat : \E l \in Seq(T) : Len(l) = n /\ ~Holds(l)}
<1>0. ASSUME NEW l \in Seq(T) PROVE Selected(l, set) \in Seq(T)
  <2>1. Selected(l, set) \in Seq(T \cap set)
    BY SelectedItems, Zenon
  <2>2. QED
    BY <2>1
<1>1. Holds(<<>>)
  <2>1. a \o <<>> = a /\ Selected(a, set) \o <<>> = Selected(a, set)
    BY <1>0
  <2>2. QED
    BY <2>1, SelectedOfNone
<1>2. ASSUME NEW l \in Seq(T), NEW x \in T, Holds(l) PROVE Holds(Append(l, x))
  <2>1. a \o Append(l, x) = Append(a \o l, x) /\ a \o l \in Seq(T)
    OBVIOUS
  <2>2. \A u, v \in Seq(T) : u \o Append(v, x) = Append(u \o v, x)
    OBVIOUS
  <2>3. CASE x \in set
    <3>0. \A u \in Seq(T) : Selected(Append(u, x), set) = Append(Selected(u, set), x)
      BY <2>3, SelectedOfAppend
    <3>1. /\ Selected(Append(a \o l, x), set) = Append(Selected(a \o l, set), x)
          /\ Selected(Append(l, x), set) = Append(Selected(l, set), x)
      BY <2>1, <3>0, Zenon
    <3>2. QED
      BY <1>0, <1>2, <2>1, <2>2, <3>1
  <2>4. CASE x \notin set
    <3>1. /\ Selected(Append(a \o l, x), set) = Selected(a \o l, set)
          /\ Selected(Append(l, x), set) = Selected(l, set)
      BY <2>1, <2>4, SelectedOfAppend
    <3>2. QED
      BY <1>2, <2>1, <3>1
  <2>5. QED
    BY <2>3, <2>4
<1> HIDE DEF Holds
<1>3. ASSUME Bad # {} PROVE FALSE
  <2>1. PICK n \in Bad : \A m \in Bad : n <= m
    <3>1. Bad \subseteq Nat
      OBVIOUS
    <3> HIDE DEF Bad
    <3>2. QED
      BY <1>3, <3>1, LeastNumber
  <2>2. PICK l \in Seq(T) : Len(l) = n /\ ~Holds(l)
    BY <2>1
  <2>3. l # <<>>
    BY <1>1, <2>2
  <2>4. PICK s \in Seq(T), x \in T : l = Append(s, x)
    BY <2>3, SequenceEmptyOrAppend
  <2>5. Len(s) \in Nat /\ ~(n <= Len(s))
    BY <2>2, <2>4
  <2>6. Holds(s)
    BY <2>1, <2>5
  <2>7. QED
    BY <1>2, <2>2, <2>4, <2>6
<1>4. QED
  BY <1>3 DEF Holds

\* A single item.
LEMMA SelectedOfOne ==
    ASSUME NEW x, NEW set
    PROVE  Selected(<<x>>, set) = IF x \in set THEN <<x>> ELSE <<>>
<1>1. <<>> \in Seq({x}) /\ x \in {x} /\ Append(<<>>, x) = <<x>>
  OBVIOUS
<1>2. Selected(Append(<<>>, x), set) =
        IF x \in set THEN Append(Selected(<<>>, set), x) ELSE Selected(<<>>, set)
  BY <1>1, SelectedOfAppend, Zenon
<1>3. QED
  BY <1>1, <1>2, SelectedOfNone

-----------------------------------------------------------------------------

LEMMA ItemsAreFinite ==
    ASSUME NEW T, NEW list \in Seq(T)
    PROVE  IsFiniteSet(ToSet(list))
<1>1. list \in [1..Len(list) -> ToSet(list)] /\ Len(list) \in Nat /\ DOMAIN list = 1..Len(list)
  BY DEF ToSet
<1>2. list \in Surjection(1..Len(list), ToSet(list))
  <2>1. \A x \in ToSet(list) : \E i \in 1..Len(list) : list[i] = x
    BY <1>1, Zenon DEF ToSet
  <2>2. QED
    BY <1>1, <2>1, Zenon DEF Surjection
<1>3. IsFiniteSet(1..Len(list))
  BY <1>1, FS_Interval
<1>4. QED
  BY <1>2, <1>3, FS_Surjection, Zenon

\* A finite set as a list: every element once.
LEMMA ListOfSet ==
    ASSUME NEW S, IsFiniteSet(S)
    PROVE  SetToSeq(S) \in Seq(S) /\ IsInjective(SetToSeq(S)) /\ ToSet(SetToSeq(S)) = S
<1> DEFINE n == Cardinality(S)
           f == SetToSeq(S)
<1>1. n \in Nat /\ ExistsBijection(1..n, S)
  BY FS_CardinalityType, Zenon
<1>2. \E g \in [1..n -> S] : IsInjective(g)
  BY <1>1, Zenon DEF ExistsBijection, Bijection, Injection
<1>3. f \in [1..n -> S] /\ IsInjective(f)
  BY <1>2, Zenon DEF SetToSeq
<1> HIDE DEF f
<1>4. f \in Surjection(1..n, S)
  <2>1. f \in Injection(1..n, S)
    BY <1>3, Zenon DEF Injection
  <2>2. Cardinality(1..n) = n
    BY <1>1, FS_Interval
  <2> HIDE DEF n
  <2>3. Cardinality(1..n) = Cardinality(S)
    BY <2>2 DEF n
  <2>4. QED
    BY <2>1, <2>3, FS_Injection, Zenon
<1>5. ToSet(f) = S
  <2>1. DOMAIN f = 1..n /\ (\A i \in 1..n : f[i] \in S) /\ \A x \in S : \E i \in 1..n : f[i] = x
    BY <1>3, <1>4, Zenon DEF Surjection
  <2>2. QED
    BY <2>1, Zenon DEF ToSet
<1>6. f \in Seq(S)
  BY <1>1, <1>3
<1>7. QED
  BY <1>3, <1>5, <1>6 DEF f

\* A list that loses the first occurrence of an item keeps all others.
LEMMA ItemsWithoutFirst ==
    ASSUME NEW T, NEW list \in Seq(T), NEW e
    PROVE  /\ RemoveFirst(list, e) \in Seq(T)
           /\ ToSet(RemoveFirst(list, e)) \cup {e} = ToSet(list) \cup {e}
<1>1. CASE ~\E i \in 1..Len(list) : list[i] = e
  BY <1>1, Zenon DEF RemoveFirst
<1>2. CASE \E i \in 1..Len(list) : list[i] = e
  <2> DEFINE I == {i \in 1..Len(list) : list[i] = e}
             k == Min(I)
             before == SubSeq(list, 1, k - 1)
             after == SubSeq(list, k + 1, Len(list))
             rest == before \o after
  <2>1. RemoveFirst(list, e) = rest
    BY <1>2 DEF RemoveFirst, RemoveAt, SelectInSeq
  <2>2. k \in I
    <3>1. I \subseteq Nat /\ I # {}
      BY <1>2
    <3> HIDE DEF I
    <3>2. \E i \in I : \A j \in I : i <= j
      BY <3>1, LeastNumber
    <3>3. QED
      BY <3>2, Zenon DEF Min
  <2>3. k \in 1..Len(list) /\ list[k] = e
    BY <2>2
  <2> HIDE DEF k
  <2>a. Len(list) \in Nat /\ k \in Nat /\ DOMAIN list = 1..Len(list)
    BY <2>3
  <2>b. before \in Seq(T) /\ Len(before) = k - 1 /\ \A i \in 1..(k - 1) : before[i] = list[i]
    BY <2>3
  <2>c. /\ after \in Seq(T) /\ Len(after) = Len(list) - k
        /\ \A i \in 1..(Len(list) - k) : after[i] = list[k + i]
    BY <2>3
  <2> HIDE DEF before, after
  <2>4. /\ rest \in Seq(T) /\ Len(rest) = Len(list) - 1
        /\ \A i \in 1..(k - 1) : rest[i] = list[i]
        /\ \A i \in k..(Len(list) - 1) : rest[i] = list[i + 1]
    <3>1. rest \in Seq(T) /\ Len(rest) = Len(list) - 1 /\ \A i \in 1..(k - 1) : rest[i] = list[i]
      <4>1. rest \in Seq(T) /\ Len(rest) = Len(before) + Len(after)
        BY <2>b, <2>c, ConcatProperties, Zenon
      <4>2. (k - 1) + (Len(list) - k) = Len(list) - 1
        BY <2>a
      <4>3. ASSUME NEW i \in 1..(k - 1) PROVE rest[i] = before[i]
        <5>1. i \in 1..Len(before)
          BY <2>b
        <5>2. QED
          BY <2>b, <2>c, <5>1
      <4>4. QED
        BY <2>b, <2>c, <4>1, <4>2, <4>3
    <3>2. ASSUME NEW i \in k..(Len(list) - 1) PROVE rest[i] = list[i + 1]
      <4>1. rest[i] = after[i - (k - 1)] /\ i - (k - 1) \in 1..(Len(list) - k)
        BY <2>3, <2>a, <2>b, <2>c
      <4>2. k + (i - (k - 1)) = i + 1
        BY <2>a
      <4>3. QED
        BY <2>c, <4>1, <4>2
    <3>3. QED
      BY <3>1, <3>2
  <2>5. DOMAIN list = 1..Len(list) /\ DOMAIN rest = 1..(Len(list) - 1)
    <3>1. \A l \in Seq(T) : DOMAIN l = 1..Len(l)
      OBVIOUS
    <3> HIDE DEF rest
    <3>2. QED
      BY <2>a, <2>4, <3>1
  <2> HIDE DEF rest
  <2>6. ASSUME NEW x \in ToSet(rest) PROVE x \in ToSet(list)
    <3>1. PICK i \in 1..(Len(list) - 1) : rest[i] = x
      BY <2>5, Zenon DEF ToSet
    <3>2. \E j \in 1..Len(list) : list[j] = x
      BY <2>3, <2>a, <2>4, <3>1
    <3>3. QED
      BY <2>5, <3>2, Zenon DEF ToSet
  <2>7. ASSUME NEW x \in ToSet(list), x # e PROVE x \in ToSet(rest)
    <3>1. PICK i \in 1..Len(list) : list[i] = x
      BY <2>5, Zenon DEF ToSet
    <3>2. i < k \/ (i > k /\ i - 1 \in k..(Len(list) - 1) /\ (i - 1) + 1 = i)
      BY <2>3, <2>a, <2>7, <3>1
    <3>3. \E j \in 1..(Len(list) - 1) : rest[j] = x
      <4>1. CASE i < k
        <5>1. i \in 1..(k - 1) /\ i \in 1..(Len(list) - 1)
          BY <2>3, <2>a, <4>1
        <5>2. QED
          BY <2>4, <3>1, <5>1
      <4>2. CASE i - 1 \in k..(Len(list) - 1) /\ (i - 1) + 1 = i
        <5>1. i - 1 \in 1..(Len(list) - 1)
          BY <2>3, <2>a, <4>2
        <5>2. rest[i - 1] = x
          BY <2>4, <3>1, <4>2
        <5>3. QED
          BY <5>1, <5>2
      <4>3. QED
        BY <3>2, <4>1, <4>2
    <3>4. QED
      BY <2>5, <3>3, Zenon DEF ToSet
  <2>8. e \in ToSet(list)
    BY <2>3, <2>5, Zenon DEF ToSet
  <2>9. QED
    BY <2>1, <2>4, <2>6, <2>7, <2>8
<1>3. QED
  BY <1>1, <1>2

-----------------------------------------------------------------------------

\* What the bridges read is the strings of the list, and nothing else.
LEMMA ReadStrings ==
    ASSUME NEW apps, apps = NotAList \/ apps \in Seq(ToSet(apps))
    PROVE  /\ GetStringArrayFromJs(apps) \in Seq(Strings(apps))
           /\ ToSet(GetStringArrayFromJs(apps)) = Strings(apps)
<1>1. CASE apps = NotAList
  <2>1. GetStringArrayFromJs(apps) = <<>> /\ Strings(apps) = {}
    BY <1>1, Zenon DEF GetStringArrayFromJs, Strings
  <2>2. ToSet(<<>>) = {}
    BY DEF ToSet
  <2>3. QED
    BY <2>1, <2>2
<1>2. CASE apps # NotAList
  <2>1. /\ Selected(apps, Strings(apps)) \in Seq(ToSet(apps) \cap Strings(apps))
        /\ ToSet(Selected(apps, Strings(apps))) = ToSet(apps) \cap Strings(apps)
    BY <1>2, SelectedItems
  <2>2. ToSet(apps) \cap Strings(apps) = Strings(apps)
    BY <1>2 DEF Strings
  <2>3. GetStringArrayFromJs(apps) = Selected(apps, Strings(apps))
    BY <1>2, Zenon DEF GetStringArrayFromJs
  <2>4. QED
    BY <2>1, <2>2, <2>3
<1>3. QED
  BY <1>1, <1>2

\* A list with the own name put at its end.
LEMMA OwnNameLast ==
    ASSUME NEW T, NEW list \in Seq(T)
    PROVE  /\ Last(list \o <<Own>>) = Own
           /\ ToSet(list \o <<Own>>) = ToSet(list) \cup {Own}
           /\ IsInjective(list) /\ Own \notin ToSet(list) => IsInjective(list \o <<Own>>)
<1>1. list \in Seq(T \cup {Own}) /\ Own \in T \cup {Own} /\ list \o <<Own>> = Append(list, Own)
  OBVIOUS
<1> DEFINE longer == Append(list, Own)
<1>2. ToSet(longer) = ToSet(list) \cup {Own}
  BY <1>1, ItemsOfAppend
<1>3. /\ Len(list) \in Nat /\ Len(longer) = Len(list) + 1 /\ longer[Len(list) + 1] = Own
      /\ DOMAIN longer = 1..(Len(list) + 1) /\ DOMAIN list = 1..Len(list)
      /\ \A i \in 1..Len(list) : longer[i] = list[i]
  OBVIOUS
<1> HIDE DEF longer
<1>4. Last(longer) = Own
  BY <1>3 DEF Last
<1>5. ASSUME IsInjective(list), Own \notin ToSet(list) PROVE IsInjective(longer)
  <2>1. \A i \in 1..Len(list) : list[i] # Own
    BY <1>3, <1>5, Zenon DEF ToSet
  <2>2. \A i, j \in 1..Len(list) : list[i] = list[j] => i = j
    BY <1>3, <1>5, Zenon DEF IsInjective
  <2>3. \A i \in 1..(Len(list) + 1) : i \in 1..Len(list) \/ i = Len(list) + 1
    BY <1>3
  <2>4. \A i, j \in 1..(Len(list) + 1) : longer[i] = longer[j] => i = j
    BY <1>3, <2>1, <2>2, <2>3, Zenon
  <2>5. QED
    BY <1>3, <2>4, Zenon DEF IsInjective
<1>6. QED
  BY <1>1, <1>2, <1>4, <1>5 DEF longer

LEMMA NapiAppsAreSound ==
    ASSUME NEW apps, apps = NotAList \/ apps \in Seq(ToSet(apps))
    PROVE  /\ Last(NapiApps(apps)) = Own /\ IsInjective(NapiApps(apps))
           /\ ToSet(NapiApps(apps)) = Strings(apps) \cup {Own}
<1> DEFINE others == Strings(apps) \ {Own}
<1>1. IsFiniteSet(others)
  <2>1. IsFiniteSet(Strings(apps))
    BY ReadStrings, ItemsAreFinite
  <2>2. QED
    BY <2>1, FS_RemoveElement
<1>2. NapiApps(apps) = SetToSeq(others) \o <<Own>>
  BY ReadStrings DEF NapiApps
<1>3. /\ SetToSeq(others) \in Seq(others) /\ IsInjective(SetToSeq(others))
      /\ ToSet(SetToSeq(others)) = others
  BY <1>1, ListOfSet, Zenon
<1>4. Own \notin others /\ others \cup {Own} = Strings(apps) \cup {Own}
  OBVIOUS
<1> HIDE DEF others
<1>5. QED
  BY <1>2, <1>3, <1>4, OwnNameLast

LEMMA AniAppsAreSound ==
    ASSUME NEW apps, apps = NotAList \/ apps \in Seq(ToSet(apps))
    PROVE  Last(AniApps(apps)) = Own /\ ToSet(AniApps(apps)) = Strings(apps) \cup {Own}
<1> DEFINE read == GetStringArrayFromJs(apps)
           others == RemoveFirst(read, Own)
<1>1. read \in Seq(Strings(apps)) /\ ToSet(read) = Strings(apps)
  BY ReadStrings
<1> HIDE DEF read
<1>2. others \in Seq(Strings(apps)) /\ ToSet(others) \cup {Own} = Strings(apps) \cup {Own}
  BY <1>1, ItemsWithoutFirst
<1>3. AniApps(apps) = others \o <<Own>>
  BY Zenon DEF AniApps, read
<1> HIDE DEF others
<1>4. QED
  BY <1>2, <1>3, OwnNameLast

LEMMA DurationIsSound ==
    ASSUME NEW duration, duration = NotANumber \/ duration \in Int
    PROVE  LET cut == GetUint32FromJs(duration)
           IN  (IF cut = 0 \/ cut > MaxDuration THEN MaxDuration ELSE cut) \in 1..MaxDuration
<1>1. MaxDuration \in Nat \ {0} /\ UintRange \in Nat \ {0}
  BY ParametersAssumption
<1>2. GetUint32FromJs(duration) \in Nat
  BY <1>1 DEF GetUint32FromJs
<1>3. QED
  BY <1>1, <1>2
=============================================================================
