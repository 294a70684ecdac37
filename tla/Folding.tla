------------------------------- MODULE Folding -------------------------------
(***************************************************************************)
(* What a fold over a sequence computes, step by step: FoldLeft() is a     *)
(* recursive function on the subsets of the sequence's domain, and the     *)
(* proofs about the parsers need what stands after each of its items.      *)
(* Step(k, result, item) is one step, k whatever it depends on besides.    *)
(***************************************************************************)
EXTENDS Naturals, Sequences, SequencesExt, TLAPS, WellFoundedInduction, NaturalsInduction

CONSTANT Step(_, _, _)

(* What is left when all items were taken, one after the other. *)
Fold(k, base, items) == FoldLeft(LAMBDA r, it : Step(k, r, it), base, items)

(* read[i] is the result after the first i items. *)
Folds(k, base, items, n, read) ==
  \A i \in 0..n : read[i] = IF i = 0 THEN base ELSE Step(k, read[i - 1], items[i])

(* iter is the function FoldLeft() is defined by. *)
Iterates(k, base, items, n, iter) ==
  iter = [s \in SUBSET (1..n) |->
            IF s = {} THEN base ELSE Step(k, iter[s \ {Max(s)}], items[Max(s)])]
------------------------------------------------------------------------------
(* Every set of natural numbers with something in it has a least element.  *)
LEMMA NatMin ==
  ASSUME NEW T \in SUBSET Nat, T # {}
  PROVE  \E n \in T : \A m \in T : n <= m
<1> DEFINE R == OpToRel(<, Nat)
<1>1. IsWellFoundedOn(R, Nat)
  BY NatLessThanWellFounded
<1>2. \A m, n \in Nat : m < n => <<m, n>> \in R
  BY DEF OpToRel
<1> HIDE DEF R
<1>3. \E n \in T : \A m \in T : ~(<<m, n>> \in R)
  BY <1>1, WFMin
<1>4. \E n \in T : \A m \in T : ~(m < n)
  BY <1>2, <1>3
<1> QED BY <1>4

(* What holds of 0 and is inherited by successors holds of all.            *)
LEMMA NatInherits ==
  ASSUME NEW T \in SUBSET Nat, 0 \in T, \A n \in Nat : n \in T => n + 1 \in T
  PROVE  T = Nat
<1> SUFFICES ASSUME Nat \ T # {} PROVE FALSE
  OBVIOUS
<1>1. PICK n \in Nat \ T : \A m \in Nat \ T : n <= m
  BY NatMin
<1>2. n # 0 /\ n - 1 \in Nat /\ n - 1 \in T
  BY <1>1
<1> QED BY <1>1, <1>2

(* The largest element. *)
LEMMA MaxOf ==
  ASSUME NEW n \in Nat, NEW s \in SUBSET (1..n), n \in s
  PROVE  Max(s) = n
<1>1. \A x \in s : x \in Nat /\ x <= n
  OBVIOUS
<1>2. \E x \in s : \A y \in s : x >= y
  BY <1>1
<1>3. \A x \in s : (\A y \in s : x >= y) => x = n
  BY <1>1
<1> QED BY <1>2, <1>3 DEF Max

(* The function exists, however long the sequence is. *)
LEMMA IterExists ==
  ASSUME NEW k, NEW base, NEW items, NEW n \in Nat
  PROVE  \E iter : Iterates(k, base, items, n, iter)
<1> DEFINE T == {l \in Nat : \E iter : Iterates(k, base, items, l, iter)}
<1>1. 0 \in T
  <2>1. Iterates(k, base, items, 0, [s \in SUBSET (1..0) |-> base])
    BY DEF Iterates
  <2> QED BY <2>1
<1>2. ASSUME NEW l \in Nat, l \in T
      PROVE  l + 1 \in T
  <2> DEFINE p == l + 1
  <2>1. PICK g : Iterates(k, base, items, l, g)
    BY <1>2
  <2> DEFINE h == [s \in SUBSET (1..p) |->
                     IF p \in s THEN Step(k, g[s \ {p}], items[p]) ELSE g[s]]
  <2>2. \A s \in SUBSET (1..p) : p \notin s => s \in SUBSET (1..l)
    OBVIOUS
  <2>3. \A s \in SUBSET (1..p) :
          h[s] = IF s = {} THEN base ELSE Step(k, h[s \ {Max(s)}], items[Max(s)])
    <3> TAKE s \in SUBSET (1..p)
    <3>1. CASE p \in s
      <4>1. Max(s) = p
        BY <3>1, MaxOf
      <4>2. s \ {p} \in SUBSET (1..p) /\ p \notin s \ {p}
        OBVIOUS
      <4>3. h[s] = Step(k, g[s \ {p}], items[p]) /\ h[s \ {p}] = g[s \ {p}]
        BY <3>1, <4>2
      <4> HIDE DEF h
      <4> QED BY <3>1, <4>1, <4>3
    <3>2. CASE p \notin s
      <4>1. s \in SUBSET (1..l) /\ h[s] = g[s]
        BY <2>2, <3>2
      <4>2. g[s] = IF s = {} THEN base ELSE Step(k, g[s \ {Max(s)}], items[Max(s)])
        BY <2>1, <4>1 DEF Iterates
      <4>3. p \notin s \ {Max(s)} /\ s \ {Max(s)} \in SUBSET (1..p)
        BY <3>2
      <4>4. h[s \ {Max(s)}] = g[s \ {Max(s)}]
        BY <4>3
      <4> HIDE DEF h
      <4> QED BY <4>1, <4>2, <4>4
    <3> QED BY <3>1, <3>2
  <2>4. h = [s \in SUBSET (1..p) |-> h[s]]
    OBVIOUS
  <2> HIDE DEF h
  <2>5. Iterates(k, base, items, p, h)
    BY <2>3, <2>4 DEF Iterates
  <2> QED BY <2>5
<1> HIDE DEF T
<1>3. T = Nat
  BY <1>1, <1>2, NatInherits DEF T
<1> QED BY <1>3 DEF T

(* A fold goes through its items one after the other, and what it gives is *)
(* what stands after the last one.  The parsers are such folds.            *)
LEMMA FoldReads ==
  ASSUME NEW k, NEW base, NEW items, NEW n \in Nat, DOMAIN items = 1..n
  PROVE  \E read : /\ Folds(k, base, items, n, read)
                   /\ Fold(k, base, items) = read[n]
<1>1. PICK f : /\ Iterates(k, base, items, n, f)
               /\ Fold(k, base, items) = f[1..n]
  <2> DEFINE f == CHOOSE iter : Iterates(k, base, items, n, iter)
  <2>1. Iterates(k, base, items, n, f)
    BY IterExists
  <2>2. Fold(k, base, items) = f[1..n]
    BY DEF Fold, FoldLeft, MapThenFoldSet, Max, Iterates
  <2> HIDE DEF f
  <2> QED BY <2>1, <2>2
<1> DEFINE read == [i \in 0..n |-> f[1..i]]
<1>2. Folds(k, base, items, n, read)
  <2> SUFFICES ASSUME NEW i \in 0..n
               PROVE  read[i] = IF i = 0 THEN base ELSE Step(k, read[i - 1], items[i])
    BY DEF Folds
  <2>0. 1..i \in SUBSET (1..n)
    OBVIOUS
  <2>1. f[1..i] = IF 1..i = {} THEN base
                  ELSE Step(k, f[(1..i) \ {Max(1..i)}], items[Max(1..i)])
    BY <1>1, <2>0 DEF Iterates
  <2>2. CASE i = 0
    BY <2>1, <2>2
  <2>3. CASE i # 0
    <3>1. Max(1..i) = i /\ i \in 1..i /\ (1..i) \ {i} = 1..(i - 1) /\ i - 1 \in 0..n
      BY <2>3, MaxOf
    <3>2. read[i] = f[1..i] /\ read[i - 1] = f[1..(i - 1)]
      BY <3>1
    <3> HIDE DEF read
    <3> QED BY <2>1, <2>3, <3>1, <3>2
  <2> QED BY <2>2, <2>3
<1>3. read[n] = f[1..n]
  OBVIOUS
<1> HIDE DEF read
<1> QED BY <1>1, <1>2, <1>3

(* path is the way a fold goes. *)
Follows(k, items, n, path) == \A i \in 1..n : path[i] = Step(k, path[i - 1], items[i])

(* Whoever knows the way of a fold knows where it ends. *)
LEMMA FoldFollows ==
  ASSUME NEW k, NEW items, NEW n \in Nat, DOMAIN items = 1..n,
         NEW path, Follows(k, items, n, path)
  PROVE  Fold(k, path[0], items) = path[n]
<1>1. PICK read : Folds(k, path[0], items, n, read) /\ Fold(k, path[0], items) = read[n]
  BY FoldReads
<1> DEFINE T == {i \in Nat : i <= n => read[i] = path[i]}
<1>2. 0 \in T
  BY <1>1 DEF Folds
<1>3. ASSUME NEW i \in Nat, i \in T
      PROVE  i + 1 \in T
  <2> SUFFICES ASSUME i + 1 <= n PROVE read[i + 1] = path[i + 1]
    OBVIOUS
  <2>1. read[i] = path[i] /\ i + 1 \in 1..n /\ i + 1 \in 0..n /\ i + 1 # 0 /\ (i + 1) - 1 = i
    BY <1>3
  <2>2. path[i + 1] = Step(k, path[i], items[i + 1])
    BY <2>1 DEF Follows
  <2>3. read[i + 1] = Step(k, read[i], items[i + 1])
    BY <1>1, <2>1 DEF Folds
  <2> QED BY <2>1, <2>2, <2>3
<1> HIDE DEF T
<1>4. T = Nat
  BY <1>2, <1>3, NatInherits DEF T
<1> QED BY <1>1, <1>4 DEF T
==============================================================================
